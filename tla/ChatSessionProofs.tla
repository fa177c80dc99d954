------------------------- MODULE ChatSessionProofs -------------------------
(***************************************************************************)
(* Why a conversation has one live run, why no tagged message is left      *)
(* without somebody to take it, why it is taken once, and why no message   *)
(* of the history is left unread: for any number of runs, messages and     *)
(* events.                                                                 *)
(*                                                                         *)
(* PendingHasTaker is inductive once the types are known.  OneLiveRun      *)
(* needs what a starter may still rely on when it inserts its row: as long *)
(* as it has seen every row there is, none of them can have come to life   *)
(* again, so there is still no live run (Watching).                        *)
(*                                                                         *)
(* TakenOnce rests on OneLiveRun: with one live run and no thread beyond   *)
(* its row (ThreadsAlone) nobody clears a tag between the query of a       *)
(* thread or backstop and its UPDATE, so what it has read is still tagged  *)
(* and was never taken (HeldFresh, AdoptsFresh).                           *)
(*                                                                         *)
(* NothingLeftUnread follows a message through the hands that hold it      *)
(* until a model has seen it: its sender, a live run that has still to     *)
(* build its conversation, a thread between its query and its turn         *)
(* (InHand).                                                               *)
(***************************************************************************)
EXTENDS ChatSession, FiniteSetTheorems, TLAPS

-----------------------------------------------------------------------------
(* Types.                                                                  *)
ThreadRecord ==
  [pc : {"none", "begins", "builds", "top", "takes", "turn", "again", "completes"},
   steps : 0 .. MaxSteps, convo : SUBSET Messages, got : SUBSET Messages,
   prompt : Messages \cup {NoMsg}]

LEMMA ThreadWrites ==
  ASSUME ThreadsOK, NEW t \in Threads, NEW new \in ThreadRecord,
         thread' = [thread EXCEPT ![t] = new]
  PROVE  ThreadsOK'
BY DEF ThreadsOK, ThreadRecord

LEMMA ThreadReads ==
  ASSUME TypeOK, NEW t \in Threads
  PROVE  ThreadsOK /\ thread[t] \in ThreadRecord
BY DEF TypeOK, ThreadsOK, ThreadRecord

LEMMA SpendTypes ==
  ASSUME TypeOK,
         NEW kind \in {"clients", "bots", "wakes", "doubles", "stops", "resumes", "faults"},
         Spend(kind)
  PROVE  budget' \in Bounds
<1> DEFINE Kinds == {"clients", "bots", "wakes", "doubles", "stops", "resumes", "faults"}
<1>1. kind \in Kinds /\ budget \in [Kinds -> Nat]
  BY DEF TypeOK, HistoryOK, Bounds
<1>2. budget[kind] \in Nat /\ budget[kind] > 0
  BY <1>1 DEF Spend
<1>3. budget[kind] - 1 \in Nat
  BY <1>2
<1>4. budget' = [budget EXCEPT ![kind] = budget[kind] - 1]
  BY DEF Spend
<1> HIDE DEF Kinds
<1>5. budget' \in [Kinds -> Nat]
  BY <1>1, <1>3, <1>4
<1> QED
  BY <1>5 DEF Kinds, Bounds

LEMMA SavedTypes ==
  ASSUME TypeOK, NEW m \in Messages, NEW tag \in {"plain", "pending"}, Saved(m, tag)
  PROVE  MessagesOK'
<1>1. IsFiniteSet(Sent)
  BY MessagesAssumption, FS_Subset DEF Sent
<1>2. Cardinality(Sent) + 1 \in Nat
  BY <1>1, FS_CardinalityType
<1> QED
  BY <1>2 DEF TypeOK, MessagesOK, Saved

LEMMA InsertTypes ==
  ASSUME TypeOK, NEW seen, NEW text \in Messages \cup {NoMsg}, NEW r \in Runs,
         Insert(seen, text, r)
  PROVE  RowsOK' /\ lapses' \subseteq Lapses
<1>1. RowsOK'
  BY DEF TypeOK, RowsOK, Insert, KnownStatuses, ActiveStatuses
<1>2. lapses' \subseteq Lapses
  BY DEF TypeOK, HistoryOK, Insert, Lapses
<1> QED
  BY <1>1, <1>2

LEMMA SetStatusTypes ==
  ASSUME TypeOK, NEW r \in Runs, NEW goal \in KnownStatuses, SetStatus(r, goal)
  PROVE  RowsOK'
<1>1. Written(r, goal) \in KnownStatuses \cup {"absent"}
  BY DEF TypeOK, RowsOK, Written, KnownStatuses, ActiveStatuses, TerminalStatuses
<1> QED
  BY <1>1 DEF TypeOK, RowsOK, SetStatus

LEMMA UntagTypes ==
  ASSUME TypeOK, NEW got, Untag(got)
  PROVE  MessagesOK' /\ takes' \in [Messages -> 0 .. 2]
<1>1. MessagesOK'
  BY DEF TypeOK, MessagesOK, Untag, Cleared
<1>2. takes' \in [Messages -> 0 .. 2]
  BY DEF TypeOK, HistoryOK, Untag
<1> QED
  BY <1>1, <1>2

LEMMA ThreadInRows == \A t \in Threads : RunOf(t) \in Runs /\ t \in Callers
BY DEF Threads, RunOf, Callers

LEMMA RequestTypes ==
  ASSUME TypeOK, NEW m \in Messages,
         NEW pc \in {"none", "sends", "inserts", "injects", "botlooks", "botmarks",
                     "botinserts", "extras", "done"},
         NEW r \in Runs \cup {NoRun},
         Asks(m, pc, r) \/ Continues(m, pc) \/ Done(m)
  PROVE  RequestsOK'
<1>1. Present \subseteq Runs
  BY DEF Present
<1>2. CASE Asks(m, pc, r)
  BY <1>1, <1>2 DEF TypeOK, RequestsOK, Asks
<1>3. CASE Continues(m, pc)
  BY <1>3 DEF TypeOK, RequestsOK, Continues
<1>4. CASE Done(m)
  BY <1>4 DEF TypeOK, RequestsOK, Done, NoRequest
<1> QED
  BY <1>2, <1>3, <1>4

LEMMA EndsTypes ==
  ASSUME TypeOK, NEW t \in Threads, NEW goal \in KnownStatuses, Ends(t, goal)
  PROVE  TypeOK'
<1>1. RowsOK'
  BY ThreadInRows, SetStatusTypes DEF Ends
<1>2. ThreadsOK'
  BY BoundsAssumption DEF TypeOK, ThreadsOK, Ends, NoThread
<1>3. BackstopsOK'
  BY ThreadInRows DEF TypeOK, BackstopsOK, Ends, Afterwards
<1> QED
  BY <1>1, <1>2, <1>3 DEF TypeOK, Ends, MessagesOK, RequestsOK, StartersOK,
     HistoryOK,
     messages, users, history

LEMMA AskedTypes ==
  ASSUME TypeOK, NEW t \in Threads, NEW convo \in SUBSET Messages,
         NEW n \in 0 .. MaxSteps, Asked(t, convo, n)
  PROVE  ThreadsOK' /\ shown' \subseteq Messages
BY DEF TypeOK, ThreadsOK, HistoryOK, Asked, With

LEMMA PendingTypes == Pending \subseteq Messages /\ Plain \subseteq Messages
                      /\ Sent \subseteq Messages /\ Present \subseteq Runs
                      /\ Live \subseteq Runs
BY DEF Pending, Plain, Sent, Present, Live

LEMMA SendLooksTypes ==
  ASSUME TypeOK, NEW m \in Messages, SendLooks(m)
  PROVE  TypeOK'
<1>1. RequestsOK'
  BY RequestTypes DEF SendLooks
<1>2. HistoryOK'
  BY SpendTypes DEF TypeOK, HistoryOK, SendLooks, NewSender, history
<1> QED
  BY <1>1, <1>2 DEF TypeOK, SendLooks, RowsOK, MessagesOK, ThreadsOK,
     BackstopsOK, StartersOK, rows, messages, users, history

LEMMA SendSavesTypes ==
  ASSUME TypeOK, NEW m \in Messages, SendSaves(m)
  PROVE  TypeOK'
<1>1. MessagesOK'
  BY SavedTypes DEF SendSaves
<1>2. RequestsOK'
  BY RequestTypes DEF SendSaves
<1> QED
  BY <1>1, <1>2 DEF TypeOK, SendSaves, RowsOK, ThreadsOK, BackstopsOK,
     StartersOK, HistoryOK, rows, messages, users, history

LEMMA SendInsertsTypes ==
  ASSUME TypeOK, NEW m \in Messages, NEW r \in Runs, SendInserts(m, r)
  PROVE  TypeOK'
<1>1. RowsOK'
  BY InsertTypes DEF SendInserts
<1>2. RequestsOK'
  BY RequestTypes DEF SendInserts
<1>3. HistoryOK'
  BY InsertTypes DEF TypeOK, HistoryOK, SendInserts
<1> QED
  BY <1>1, <1>2, <1>3 DEF TypeOK, SendInserts, MessagesOK, ThreadsOK,
     BackstopsOK, StartersOK, rows, messages, users, history, Insert

LEMMA InjectLooksTypes ==
  ASSUME TypeOK, NEW m \in Messages, NEW r \in Runs, InjectLooks(m, r)
  PROVE  TypeOK'
<1>1. RequestsOK'
  BY RequestTypes DEF InjectLooks
<1>2. HistoryOK'
  BY SpendTypes DEF TypeOK, HistoryOK, InjectLooks, NewSender, history
<1> QED
  BY <1>1, <1>2 DEF TypeOK, InjectLooks, RowsOK, MessagesOK, ThreadsOK,
     BackstopsOK, StartersOK, rows, messages, users, history

LEMMA InjectSavesTypes ==
  ASSUME TypeOK, NEW m \in Messages, InjectSaves(m)
  PROVE  TypeOK'
<1>1. MessagesOK'
  BY SavedTypes DEF InjectSaves
<1>2. RequestsOK'
  BY RequestTypes DEF InjectSaves
<1>3. HistoryOK'
  BY DEF TypeOK, HistoryOK, InjectSaves, Lapses
<1> QED
  BY <1>1, <1>2, <1>3 DEF TypeOK, InjectSaves, RowsOK, ThreadsOK, BackstopsOK,
     StartersOK, rows, messages, users, history

LEMMA BotSavesTypes ==
  ASSUME TypeOK, NEW m \in Messages, BotSaves(m)
  PROVE  TypeOK'
<1>1. MessagesOK'
  BY SavedTypes DEF BotSaves
<1>2. RequestsOK'
  BY RequestTypes DEF BotSaves
<1>3. HistoryOK'
  BY SpendTypes DEF TypeOK, HistoryOK, BotSaves, NewSender, history
<1> QED
  BY <1>1, <1>2, <1>3 DEF TypeOK, BotSaves, RowsOK, ThreadsOK, BackstopsOK,
     StartersOK, rows, messages, users, history

LEMMA BotLooksTypes ==
  ASSUME TypeOK, NEW m \in Messages, BotLooks(m)
  PROVE  TypeOK'
<1>1. RequestsOK'
  BY RequestTypes DEF BotLooks
<1> QED
  BY <1>1 DEF TypeOK, BotLooks, RowsOK, MessagesOK, ThreadsOK, BackstopsOK,
     StartersOK, HistoryOK, rows, messages, users, history

LEMMA BotMarksTypes ==
  ASSUME TypeOK, NEW m \in Messages, BotMarks(m)
  PROVE  TypeOK'
<1>1. MessagesOK'
  BY DEF TypeOK, MessagesOK, BotMarks
<1>2. BackstopsOK'
  BY DEF TypeOK, BackstopsOK, BotMarks, Callers
<1>3. RequestsOK'
  BY RequestTypes DEF BotMarks
<1> QED
  BY <1>1, <1>2, <1>3 DEF TypeOK, BotMarks, RowsOK, ThreadsOK, StartersOK,
     HistoryOK, rows, messages, users, history

LEMMA BotInsertsTypes ==
  ASSUME TypeOK, NEW m \in Messages, NEW r \in Runs, BotInserts(m, r)
  PROVE  TypeOK'
<1>1. RowsOK'
  BY InsertTypes DEF BotInserts
<1>2. RequestsOK'
  BY DEF TypeOK, RequestsOK, BotInserts
<1>3. HistoryOK'
  BY InsertTypes DEF TypeOK, HistoryOK, BotInserts
<1> QED
  BY <1>1, <1>2, <1>3 DEF TypeOK, BotInserts, MessagesOK, ThreadsOK,
     BackstopsOK, StartersOK, rows, messages, users, history, Insert

LEMMA BotExtrasTypes ==
  ASSUME TypeOK, NEW m \in Messages, BotExtras(m)
  PROVE  TypeOK'
<1>1. RowsOK'
  BY DEF TypeOK, RowsOK, BotExtras
<1>2. RequestsOK'
  BY RequestTypes DEF BotExtras
<1> QED
  BY <1>1, <1>2 DEF TypeOK, BotExtras, MessagesOK, ThreadsOK, BackstopsOK,
     StartersOK, HistoryOK, rows, messages, users, history

LEMMA BotGivesUpTypes ==
  ASSUME TypeOK, NEW m \in Messages, BotGivesUp(m)
  PROVE  TypeOK'
<1>1. RequestsOK'
  BY RequestTypes DEF BotGivesUp
<1>2. HistoryOK'
  BY DEF TypeOK, HistoryOK, BotGivesUp
<1> QED
  BY <1>1, <1>2 DEF TypeOK, BotGivesUp, RowsOK, MessagesOK, ThreadsOK,
     BackstopsOK, StartersOK, rows, messages, users, history

LEMMA StopRunTypes ==
  ASSUME TypeOK, NEW r \in Runs, StopRun(r)
  PROVE  TypeOK'
<1>1. RowsOK'
  BY DEF TypeOK, RowsOK, StopRun, KnownStatuses, TerminalStatuses
<1>2. HistoryOK'
  BY SpendTypes DEF TypeOK, HistoryOK, StopRun, Lapses
<1> QED
  BY <1>1, <1>2 DEF TypeOK, StopRun, MessagesOK, ThreadsOK, BackstopsOK,
     RequestsOK, StartersOK, rows, messages, users, history

LEMMA ResumeLooksTypes ==
  ASSUME TypeOK, NEW r \in Runs, ResumeLooks(r)
  PROVE  TypeOK'
<1>1. StartersOK'
  BY PendingTypes DEF TypeOK, StartersOK, ResumeLooks
<1>2. HistoryOK'
  BY SpendTypes DEF TypeOK, HistoryOK, ResumeLooks, history
<1> QED
  BY <1>1, <1>2 DEF TypeOK, ResumeLooks, RowsOK, MessagesOK, ThreadsOK,
     BackstopsOK, RequestsOK, rows, messages, users, history

LEMMA ResumeInsertsTypes ==
  ASSUME TypeOK, NEW r \in Runs, ResumeInserts(r)
  PROVE  TypeOK'
<1>1. kwargs[resuming.found] \in Messages \cup {NoMsg}
  BY DEF TypeOK, RowsOK, StartersOK, ResumeInserts
<1>2. RowsOK'
  BY <1>1, InsertTypes DEF ResumeInserts
<1>3. StartersOK'
  BY DEF TypeOK, StartersOK, ResumeInserts, NoRequest
<1>4. HistoryOK'
  BY <1>1, InsertTypes DEF TypeOK, HistoryOK, ResumeInserts
<1> QED
  BY <1>1, <1>2, <1>3, <1>4 DEF TypeOK, ResumeInserts, MessagesOK, ThreadsOK,
     BackstopsOK, RequestsOK, rows, messages, users, history, Insert

LEMMA WakeLooksTypes ==
  ASSUME TypeOK, NEW dead \in SUBSET Runs, NEW found \in Runs \cup {NoRun},
         WakeLooks(dead, found)
  PROVE  TypeOK'
<1>1. RowsOK'
  BY DEF TypeOK, RowsOK, WakeLooks, Ended, KnownStatuses, TerminalStatuses
<1>2. StartersOK'
  BY PendingTypes DEF TypeOK, StartersOK, WakeLooks
<1>3. HistoryOK'
  BY SpendTypes DEF TypeOK, HistoryOK, WakeLooks, Overtaken, Lapses
<1> QED
  BY <1>1, <1>2, <1>3 DEF TypeOK, WakeLooks, MessagesOK, ThreadsOK, BackstopsOK,
     RequestsOK, rows, messages, users, history

LEMMA WakeInsertsTypes ==
  ASSUME TypeOK, NEW r \in Runs, WakeInserts(r)
  PROVE  TypeOK'
<1>1. RowsOK'
  BY DEF TypeOK, RowsOK, WakeInserts, Ended, KnownStatuses, TerminalStatuses,
     ActiveStatuses
<1>2. ThreadsOK'
  <2>1. <<r, "own">> \in Threads
    BY DEF Threads
  <2>2. [thread[<<r, "own">>] EXCEPT !.pc = "begins"] \in ThreadRecord
    BY <2>1, ThreadReads DEF ThreadRecord
  <2> QED
    BY <2>1, <2>2, ThreadReads, ThreadWrites DEF WakeInserts
<1>3. StartersOK'
  BY DEF TypeOK, StartersOK, WakeInserts, NotWaking
<1>4. HistoryOK'
  BY DEF TypeOK, HistoryOK, WakeInserts, Overtaken, Lapses
<1> QED
  BY <1>1, <1>2, <1>3, <1>4 DEF TypeOK, WakeInserts, MessagesOK, BackstopsOK,
     RequestsOK, rows, messages, users, history, Insert

LEMMA PollTypes ==
  ASSUME TypeOK, Poll
  PROVE  TypeOK'
<1>1. RowsOK'
  BY DEF TypeOK, RowsOK, Poll, Ended, KnownStatuses, TerminalStatuses
<1>2. HistoryOK'
  BY SpendTypes DEF TypeOK, HistoryOK, Poll, Overtaken, Lapses
<1> QED
  BY <1>1, <1>2 DEF TypeOK, Poll, MessagesOK, ThreadsOK, BackstopsOK,
     RequestsOK, StartersOK, rows, messages, users, history

LEMMA ClaimTypes ==
  ASSUME TypeOK, NEW r \in Runs, Claim(r)
  PROVE  TypeOK'
<1>1. RowsOK'
  BY DEF TypeOK, RowsOK, Claim, KnownStatuses, ActiveStatuses
<1>2. ThreadsOK'
  <2>1. <<r, "pool">> \in Threads
    BY DEF Threads
  <2>2. [thread[<<r, "pool">>] EXCEPT !.pc = "begins"] \in ThreadRecord
    BY <2>1, ThreadReads DEF ThreadRecord
  <2> QED
    BY <2>1, <2>2, ThreadReads, ThreadWrites DEF Claim, Moves
<1>3. budget' \in Bounds
  BY SpendTypes DEF TypeOK, HistoryOK, Claim
<1>4. HistoryOK'
  BY <1>3 DEF TypeOK, HistoryOK, Claim, Lapses
<1> QED
  BY <1>1, <1>2, <1>4 DEF TypeOK, Claim, MessagesOK, BackstopsOK, RequestsOK,
     StartersOK, rows, messages, users, history, Moves

LEMMA LoadFailsTypes ==
  ASSUME TypeOK, NEW t \in Threads, LoadFails(t)
  PROVE  TypeOK'
<1>1. RowsOK'
  BY ThreadInRows DEF TypeOK, RowsOK, LoadFails, KnownStatuses, TerminalStatuses
<1>2. ThreadsOK'
  BY BoundsAssumption DEF TypeOK, ThreadsOK, LoadFails, NoThread
<1>3. HistoryOK'
  BY SpendTypes DEF TypeOK, HistoryOK, LoadFails, Lapses
<1> QED
  BY <1>1, <1>2, <1>3 DEF TypeOK, LoadFails, MessagesOK, BackstopsOK,
     RequestsOK, StartersOK, rows, messages, users, history

LEMMA BeginsTypes ==
  ASSUME TypeOK, NEW t \in Threads, Begins(t)
  PROVE  TypeOK'
<1>1. RowsOK'
  BY ThreadInRows, SetStatusTypes DEF Begins, KnownStatuses, ActiveStatuses
<1>2. Prompts(t) \subseteq Messages \cup {NoMsg}
  BY PendingTypes, ThreadInRows DEF TypeOK, RowsOK, Prompts, Latest
<1>3. ThreadsOK'
  <2>1. PICK p \in Prompts(t) :
          thread' = [thread EXCEPT ![t].pc = "builds", ![t].prompt = p]
    BY DEF Begins
  <2>2. p \in Messages \cup {NoMsg}
    BY <1>2
  <2>3. [thread[t] EXCEPT !.pc = "builds", !.prompt = p] \in ThreadRecord
    BY <2>2, ThreadReads DEF ThreadRecord
  <2>4. thread' = [thread EXCEPT ![t] = [thread[t] EXCEPT !.pc = "builds", !.prompt = p]]
    BY <2>1, ThreadReads DEF ThreadsOK
  <2> QED
    BY <2>3, <2>4, ThreadReads, ThreadWrites
<1> QED
  BY <1>1, <1>2, <1>3 DEF TypeOK, Begins, MessagesOK, BackstopsOK, RequestsOK,
     StartersOK, HistoryOK, rows, messages, users, history, SetStatus

LEMMA BuildsTypes ==
  ASSUME TypeOK, NEW t \in Threads, Builds(t)
  PROVE  TypeOK'
<1>1. ThreadsOK'
  <2>1. PICK new \in SUBSET Messages :
          thread' = [thread EXCEPT ![t].pc = "top", ![t].convo = new]
    <3>1. thread[t].prompt # NoMsg => thread[t].prompt \in Messages
      BY DEF TypeOK, ThreadsOK
    <3> QED
      BY <3>1, PendingTypes DEF Builds
  <2>2. [thread[t] EXCEPT !.pc = "top", !.convo = new] \in ThreadRecord
    BY ThreadReads DEF ThreadRecord
  <2>3. thread' = [thread EXCEPT ![t] = [thread[t] EXCEPT !.pc = "top", !.convo = new]]
    BY <2>1, ThreadReads DEF ThreadsOK
  <2> QED
    BY <2>2, <2>3, ThreadReads, ThreadWrites
<1>2. HistoryOK'
  BY PendingTypes DEF TypeOK, HistoryOK, Builds, Latest
<1> QED
  BY <1>1, <1>2 DEF TypeOK, Builds, RowsOK, MessagesOK, BackstopsOK, RequestsOK,
     StartersOK, rows, messages, users, history

LEMMA OutOfStepsTypes ==
  ASSUME TypeOK, NEW t \in Threads, OutOfSteps(t)
  PROVE  TypeOK'
<1>1. ThreadsOK'
  BY DEF TypeOK, ThreadsOK, OutOfSteps, Moves
<1>2. HistoryOK'
  BY DEF TypeOK, HistoryOK, ThreadsOK, OutOfSteps
<1> QED
  BY <1>1, <1>2 DEF TypeOK, OutOfSteps, RowsOK, MessagesOK, BackstopsOK,
     RequestsOK, StartersOK, rows, messages, users, history, Moves

LEMMA ReadsTypes ==
  ASSUME TypeOK, NEW t \in Threads, Reads(t)
  PROVE  TypeOK'
<1>1. thread[t].steps + 1 \in 0 .. MaxSteps /\ thread[t].convo \in SUBSET Messages
  BY BoundsAssumption DEF TypeOK, ThreadsOK, Reads, StepLeft
<1>2. ThreadsOK'
  <2>1. CASE Pending = {}
    BY <1>1, <2>1, AskedTypes DEF Reads
  <2>2. CASE Pending # {}
    <3>1. thread' = [thread EXCEPT ![t].pc = "takes", ![t].got = Pending, ![t].steps = @ + 1]
      BY <2>2 DEF Reads
    <3> QED
      BY <1>1, <3>1, PendingTypes DEF TypeOK, ThreadsOK
  <2> QED
    BY <2>1, <2>2
<1>3. HistoryOK'
  BY <1>1, AskedTypes DEF TypeOK, HistoryOK, Reads
<1> QED
  BY <1>1, <1>2, <1>3 DEF TypeOK, Reads, RowsOK, MessagesOK, BackstopsOK,
     RequestsOK, StartersOK, rows, messages, users, history, Asked

LEMMA TakesTypes ==
  ASSUME TypeOK, NEW t \in Threads, Takes(t)
  PROVE  TypeOK'
<1>1. MessagesOK'
  BY UntagTypes DEF Takes
<1>2. thread[t].steps \in 0 .. MaxSteps /\ Heard(t) \in SUBSET Messages
  BY DEF TypeOK, ThreadsOK, Heard
<1>3. ThreadsOK'
  BY <1>2, AskedTypes DEF Takes
<1>4. HistoryOK'
  BY <1>2, AskedTypes, UntagTypes DEF TypeOK, HistoryOK, Takes
<1> QED
  BY <1>1, <1>2, <1>3, <1>4 DEF TypeOK, Takes, RowsOK, BackstopsOK, RequestsOK,
     StartersOK, rows, messages, users, history, Untag, Asked

LEMMA ToolsTypes ==
  ASSUME TypeOK, NEW t \in Threads, Tools(t)
  PROVE  TypeOK'
<1>1. ThreadsOK'
  BY DEF TypeOK, ThreadsOK, Tools, Moves
<1> QED
  BY <1>1 DEF TypeOK, Tools, RowsOK, MessagesOK, BackstopsOK, RequestsOK,
     StartersOK, HistoryOK, rows, messages, users, history, Moves

LEMMA NoProgressTypes ==
  ASSUME TypeOK, NEW t \in Threads, NoProgress(t)
  PROVE  TypeOK'
<1>1. ThreadsOK'
  BY DEF TypeOK, ThreadsOK, NoProgress, Moves
<1> QED
  BY <1>1 DEF TypeOK, NoProgress, RowsOK, MessagesOK, BackstopsOK, RequestsOK,
     StartersOK, HistoryOK, rows, messages, users, history, Moves

LEMMA AnswersTypes ==
  ASSUME TypeOK, NEW t \in Threads, Answers(t)
  PROVE  TypeOK'
<1>1. ThreadsOK'
  <2>1. PICK pc \in {"completes", "again"} :
          thread' = [thread EXCEPT ![t].pc = pc, ![t].got = Pending]
    BY DEF Answers
  <2>2. [thread[t] EXCEPT !.pc = pc, !.got = Pending] \in ThreadRecord
    BY PendingTypes, ThreadReads DEF ThreadRecord
  <2>3. thread' = [thread EXCEPT ![t] = [thread[t] EXCEPT !.pc = pc, !.got = Pending]]
    BY <2>1, ThreadReads DEF ThreadsOK
  <2> QED
    BY <2>2, <2>3, ThreadReads, ThreadWrites
<1> QED
  BY <1>1 DEF TypeOK, Answers, RowsOK, MessagesOK, BackstopsOK, RequestsOK,
     StartersOK, HistoryOK, rows, messages, users, history

LEMMA AgainTypes ==
  ASSUME TypeOK, NEW t \in Threads, Again(t)
  PROVE  TypeOK'
<1>1. MessagesOK'
  BY UntagTypes DEF Again
<1>2. ThreadsOK'
  <2>1. Heard(t) \in SUBSET Messages
    BY DEF TypeOK, ThreadsOK, Heard
  <2> QED
    BY <2>1 DEF TypeOK, ThreadsOK, Again, With
<1>3. HistoryOK'
  BY UntagTypes DEF TypeOK, HistoryOK, Again
<1> QED
  BY <1>1, <1>2, <1>3 DEF TypeOK, Again, RowsOK, BackstopsOK, RequestsOK,
     StartersOK, rows, messages, users, history, Untag

LEMMA BackstopLooksTypes ==
  ASSUME TypeOK, NEW c \in Callers, BackstopLooks(c)
  PROVE  TypeOK'
<1>1. BackstopsOK'
  BY PendingTypes DEF TypeOK, BackstopsOK, BackstopLooks, NoBackstop
<1> QED
  BY <1>1 DEF TypeOK, BackstopLooks, RowsOK, MessagesOK, ThreadsOK, RequestsOK,
     StartersOK, HistoryOK, rows, messages, users, history

LEMMA BackstopReadsTypes ==
  ASSUME TypeOK, NEW c \in Callers, BackstopReads(c)
  PROVE  TypeOK'
<1>1. BackstopsOK'
  BY PendingTypes DEF TypeOK, BackstopsOK, BackstopReads, NoBackstop
<1> QED
  BY <1>1 DEF TypeOK, BackstopReads, RowsOK, MessagesOK, ThreadsOK, RequestsOK,
     StartersOK, HistoryOK, rows, messages, users, history

LEMMA BackstopAdoptsTypes ==
  ASSUME TypeOK, NEW c \in Callers, NEW r \in Runs, BackstopAdopts(c, r)
  PROVE  TypeOK'
<1>1. RowsOK'
  BY InsertTypes DEF BackstopAdopts
<1>2. MessagesOK'
  BY UntagTypes DEF BackstopAdopts
<1>3. BackstopsOK'
  BY DEF TypeOK, BackstopsOK, BackstopAdopts, NoBackstop
<1>4. HistoryOK'
  BY InsertTypes, UntagTypes DEF TypeOK, HistoryOK, BackstopAdopts
<1> QED
  BY <1>1, <1>2, <1>3, <1>4 DEF TypeOK, BackstopAdopts, ThreadsOK, RequestsOK,
     StartersOK, rows, messages, users, history, Insert, Untag

LEMMA CrashTypes ==
  ASSUME TypeOK, NEW c \in Callers, Crash(c)
  PROVE  TypeOK'
<1>1. ThreadsOK'
  BY BoundsAssumption DEF TypeOK, ThreadsOK, Crash, NoThread
<1>2. BackstopsOK'
  BY DEF TypeOK, BackstopsOK, Crash, NoBackstop
<1>3. HistoryOK'
  BY SpendTypes DEF TypeOK, HistoryOK, Crash, Lapses
<1> QED
  BY <1>1, <1>2, <1>3 DEF TypeOK, Crash, RowsOK, MessagesOK, RequestsOK,
     StartersOK, rows, messages, users, history

LEMMA ReapTypes ==
  ASSUME TypeOK, NEW r \in Runs, Reap(r)
  PROVE  TypeOK'
<1>1. RowsOK'
  BY DEF TypeOK, RowsOK, Reap, KnownStatuses, ActiveStatuses
<1> QED
  BY <1>1 DEF TypeOK, Reap, MessagesOK, ThreadsOK, BackstopsOK, RequestsOK,
     StartersOK, HistoryOK, rows, messages, users, history

LEMMA StopTypes ==
  ASSUME TypeOK, NEW t \in Threads, Refuses(t) \/ Stops(t) \/ Fails(t) \/ Completes(t)
  PROVE  TypeOK'
BY EndsTypes DEF Refuses, Stops, Fails, Completes, KnownStatuses, TerminalStatuses

(* Every variable of the conversation keeps its type, whatever the bounds. *)
THEOREM TypeCorrect == Spec => []TypeOK
<1>1. Init => TypeOK
  BY BoundsAssumption DEF Init, TypeOK, RowsOK, MessagesOK, ThreadsOK, BackstopsOK,
     RequestsOK, StartersOK, HistoryOK, NoThread, NoBackstop, NoRequest, NotWaking
<1>2. TypeOK /\ [Next]_vars => TypeOK'
  <2> SUFFICES ASSUME TypeOK, [Next]_vars PROVE TypeOK'
    OBVIOUS
  <2>1. CASE UserActs
    BY <2>1, SendLooksTypes, SendSavesTypes, SendInsertsTypes, InjectLooksTypes,
       InjectSavesTypes, BotSavesTypes, BotLooksTypes, BotMarksTypes, BotInsertsTypes,
       BotExtrasTypes, BotGivesUpTypes, StopRunTypes, ResumeLooksTypes,
       ResumeInsertsTypes DEF UserActs
  <2>2. CASE OthersAct
    BY <2>2, WakeLooksTypes, WakeInsertsTypes, PollTypes DEF OthersAct
  <2>3. CASE \E r \in Runs : Claim(r) \/ Reap(r)
    BY <2>3, ClaimTypes, ReapTypes
  <2>4. CASE \E t \in Threads : Steps(t) \/ LoadFails(t)
    BY <2>4, StopTypes, BeginsTypes, BuildsTypes, OutOfStepsTypes, ReadsTypes,
       TakesTypes, ToolsTypes, NoProgressTypes, AnswersTypes, AgainTypes,
       LoadFailsTypes DEF Steps
  <2>5. CASE \E c \in Callers : Looks(c) \/ Crash(c)
    BY <2>5, BackstopLooksTypes, BackstopReadsTypes, BackstopAdoptsTypes, CrashTypes
       DEF Looks
  <2>6. CASE UNCHANGED vars
    BY <2>6 DEF vars, TypeOK, RowsOK, MessagesOK, ThreadsOK, BackstopsOK, RequestsOK,
       StartersOK, HistoryOK, rows, messages, users, history
  <2> QED
    BY <2>1, <2>2, <2>3, <2>4, <2>5, <2>6 DEF Next
<1> QED
  BY <1>1, <1>2, PTL DEF Spec
-----------------------------------------------------------------------------
(* Takers.  Each action either leaves somebody who takes the tagged        *)
(* messages, or it has met one of the gaps.                                *)
LEMMA RunTakes ==
  ASSUME NEW r \in Runs, status'[r] \in ActiveStatuses
  PROVE  PendingHasTaker'
BY DEF PendingHasTaker, Takers, Live

LEMMA ThreadTakes ==
  ASSUME NEW t \in Threads, thread'[t].pc # "none"
  PROVE  PendingHasTaker'
BY DEF PendingHasTaker, Takers, Alive

LEMMA BackstopTakes ==
  ASSUME NEW c \in Callers, backstop'[c].pc # "none"
  PROVE  PendingHasTaker'
BY DEF PendingHasTaker, Takers

LEMMA GapMet ==
  ASSUME NEW gap \in {"late", "cut", "unserved"}, gap \in lapses'
  PROVE  PendingHasTaker'
BY DEF PendingHasTaker

LEMMA TakersStay ==
  ASSUME PendingHasTaker, Pending' \subseteq Pending, lapses \subseteq lapses',
         \A r \in Runs : status[r] \in ActiveStatuses => status'[r] \in ActiveStatuses,
         UNCHANGED thread, UNCHANGED backstop, waking.busy => waking'.busy
  PROVE  PendingHasTaker'
BY DEF PendingHasTaker, Takers, Live, Alive

LEMMA UserKeepsTaker ==
  ASSUME TypeOK, PendingHasTaker, UserActs
  PROVE  PendingHasTaker'
<1>1. ASSUME NEW m \in Messages,
             SendLooks(m) \/ BotLooks(m) \/ BotExtras(m) \/ BotGivesUp(m)
      PROVE  PendingHasTaker'
  BY <1>1, TakersStay DEF SendLooks, BotLooks, BotExtras, BotGivesUp, Pending, rows,
     messages, history
<1>2. ASSUME NEW m \in Messages, SendSaves(m) \/ BotSaves(m) PROVE PendingHasTaker'
  <2>1. Pending' \subseteq Pending
    BY <1>2 DEF SendSaves, BotSaves, Saved, Pending, TypeOK, MessagesOK
  <2> QED
    BY <1>2, <2>1, TakersStay DEF SendSaves, BotSaves, rows, history
<1>3. ASSUME NEW m \in Messages, InjectSaves(m) PROVE PendingHasTaker'
  <2>1. CASE request[m].found \in Live
    BY <1>3, <2>1, RunTakes DEF InjectSaves, Live, rows
  <2>2. CASE request[m].found \notin Live
    BY <1>3, <2>2, GapMet DEF InjectSaves
  <2> QED
    BY <2>1, <2>2
<1>4. ASSUME NEW m \in Messages, BotMarks(m) PROVE PendingHasTaker'
  <2>1. <<m, "bot">> \in Callers
    BY DEF Callers
  <2>2. backstop'[<<m, "bot">>].pc = "looks"
    BY <1>4, <2>1 DEF BotMarks, TypeOK, BackstopsOK
  <2> QED
    BY <2>1, <2>2, BackstopTakes
<1>5. ASSUME NEW r \in Runs, NEW m \in Messages, SendInserts(m, r) \/ BotInserts(m, r)
      PROVE  PendingHasTaker'
  BY <1>5, RunTakes DEF SendInserts, BotInserts, Insert, TypeOK, RowsOK, ActiveStatuses
<1>6. ASSUME NEW r \in Runs, ResumeInserts(r) PROVE PendingHasTaker'
  BY <1>6, RunTakes DEF ResumeInserts, Insert, TypeOK, RowsOK, ActiveStatuses
<1>7. ASSUME NEW m \in Messages, NEW r \in Runs, InjectLooks(m, r) PROVE PendingHasTaker'
  BY <1>7, TakersStay DEF InjectLooks, Pending, rows, messages, history
<1>8. ASSUME NEW r \in Runs, ResumeLooks(r) PROVE PendingHasTaker'
  BY <1>8, TakersStay DEF ResumeLooks, Pending, rows, messages, history
<1>9. ASSUME NEW r \in Runs, StopRun(r) PROVE PendingHasTaker'
  <2>1. CASE ThreadsOf(r) = {}
    BY <1>9, <2>1, GapMet DEF StopRun
  <2>2. CASE ThreadsOf(r) # {}
    BY <1>9, <2>2, ThreadTakes DEF StopRun, ThreadsOf, Alive
  <2> QED
    BY <2>1, <2>2
<1> QED
  BY <1>1, <1>2, <1>3, <1>4, <1>5, <1>6, <1>7, <1>8, <1>9 DEF UserActs

LEMMA OthersKeepTaker ==
  ASSUME TypeOK, PendingHasTaker, OthersAct
  PROVE  PendingHasTaker'
<1>1. ASSUME NEW dead \in SUBSET Runs, NEW found \in Runs \cup {NoRun},
             WakeLooks(dead, found)
      PROVE  PendingHasTaker'
  <2>1. waking'.busy
    BY <1>1 DEF WakeLooks
  <2> QED
    BY <2>1 DEF PendingHasTaker, Takers
<1>2. ASSUME NEW r \in Runs, WakeInserts(r) PROVE PendingHasTaker'
  BY <1>2, RunTakes DEF WakeInserts, ActiveStatuses
<1>3. CASE Poll
  <2>1. CASE \E r \in Live : ThreadsOf(r) = {}
    BY <1>3, <2>1, GapMet DEF Poll
  <2>2. CASE \A r \in Live : ThreadsOf(r) # {}
    <3>1. PICK r \in Live : ThreadsOf(r) # {}
      BY <1>3, <2>2 DEF Poll
    <3> QED
      BY <1>3, <3>1, ThreadTakes DEF Poll, ThreadsOf, Alive
  <2> QED
    BY <2>1, <2>2
<1> QED
  BY <1>1, <1>2, <1>3 DEF OthersAct

LEMMA ThreadsKeepTaker ==
  ASSUME TypeOK, PendingHasTaker, NEW t \in Threads, Steps(t) \/ LoadFails(t)
  PROVE  PendingHasTaker'
<1>1. ASSUME NEW goal, Ends(t, goal) PROVE PendingHasTaker'
  <2>1. backstop'[t].pc = "looks"
    BY <1>1, ThreadInRows DEF Ends, Afterwards, TypeOK, BackstopsOK
  <2> QED
    BY <2>1, ThreadInRows, BackstopTakes
<1>2. CASE Begins(t) \/ Builds(t) \/ Answers(t) \/ OutOfSteps(t) \/ Tools(t)
           \/ NoProgress(t) \/ Reads(t) \/ Takes(t) \/ Again(t)
  <2>1. thread'[t].pc # "none"
    BY <1>2 DEF Begins, Builds, Answers, OutOfSteps, Tools, NoProgress, Reads, Takes,
       Again, Asked, With, Moves, TypeOK, ThreadsOK
  <2> QED
    BY <2>1, ThreadTakes
<1>3. CASE LoadFails(t)
  BY <1>3, GapMet DEF LoadFails
<1> QED
  BY <1>1, <1>2, <1>3 DEF Steps, Refuses, Stops, Fails, Completes

LEMMA QueueKeepsTaker ==
  ASSUME TypeOK, PendingHasTaker, NEW r \in Runs, Claim(r) \/ Reap(r)
  PROVE  PendingHasTaker'
BY RunTakes DEF Claim, Reap, TypeOK, RowsOK, ActiveStatuses

LEMMA BackstopKeepsTaker ==
  ASSUME TypeOK, PendingHasTaker, NEW c \in Callers, Looks(c) \/ Crash(c)
  PROVE  PendingHasTaker'
<1>1. CASE BackstopLooks(c)
  <2>1. CASE LiveRuns # {}
    BY <1>1, <2>1, RunTakes DEF BackstopLooks, LiveRuns, Live, rows
  <2>2. CASE LiveRuns = {}
    <3>1. backstop'[c].pc = "reads"
      BY <1>1, <2>2 DEF BackstopLooks, TypeOK, BackstopsOK
    <3> QED
      BY <3>1, BackstopTakes
  <2> QED
    BY <2>1, <2>2
<1>2. CASE BackstopReads(c)
  <2>1. CASE Pending = {}
    BY <1>2, <2>1 DEF BackstopReads, PendingHasTaker, Pending, messages
  <2>2. CASE Pending # {}
    <3>1. backstop'[c].pc = "adopts"
      BY <1>2, <2>2 DEF BackstopReads, TypeOK, BackstopsOK
    <3> QED
      BY <3>1, BackstopTakes
  <2> QED
    BY <2>1, <2>2
<1>3. ASSUME NEW r \in Runs, BackstopAdopts(c, r) PROVE PendingHasTaker'
  BY <1>3, RunTakes DEF BackstopAdopts, Insert, TypeOK, RowsOK, ActiveStatuses
<1>4. CASE Crash(c)
  <2>1. CASE c \in Threads /\ RunOf(c) \in Live
    BY <1>4, <2>1, ThreadInRows, RunTakes DEF Crash, Live, rows
  <2>2. CASE ~ (c \in Threads /\ RunOf(c) \in Live)
    BY <1>4, <2>2, GapMet DEF Crash
  <2> QED
    BY <2>1, <2>2
<1> QED
  BY <1>1, <1>2, <1>3, <1>4 DEF Looks

(* A tagged message always has somebody who will take it, except in the    *)
(* gaps PendingHasTaker names.                                             *)
THEOREM PendingTakerExists == Spec => []PendingHasTaker
<1>1. Init => PendingHasTaker
  BY DEF Init, PendingHasTaker, Pending
<1>2. TypeOK /\ PendingHasTaker /\ [Next]_vars => PendingHasTaker'
  <2> SUFFICES ASSUME TypeOK, PendingHasTaker, [Next]_vars PROVE PendingHasTaker'
    OBVIOUS
  <2>1. CASE UNCHANGED vars
    BY <2>1, TakersStay DEF vars, rows, messages, users, history, Pending
  <2> QED
    BY <2>1, UserKeepsTaker, OthersKeepTaker, ThreadsKeepTaker, QueueKeepsTaker,
       BackstopKeepsTaker DEF Next
<1> QED
  BY <1>1, <1>2, TypeCorrect, PTL DEF Spec
-----------------------------------------------------------------------------
(* One live run.  What a starter relies on between its query and its       *)
(* insert: if it has seen every row there is, no live run has come up.     *)
Early(seen) == seen \subseteq Present /\ (seen = Present => Live = {})

RequestPcs == {"sends", "inserts", "botinserts"}
Watching ==
  /\ \A m \in Messages : request[m].pc \in RequestPcs => Early(request[m].seen)
  /\ resuming.found # NoRun => Early(resuming.seen)
  /\ \A c \in Callers :
       backstop[c].pc \in {"reads", "adopts"} => Early(backstop[c].seen)
  /\ waking.busy =>
       /\ waking.seen \subseteq Present
       /\ waking.seen = Present => Live \subseteq waking.dead \cup {waking.found}

AtMostOne == \A r, s \in Live : r = s
OneInv == "crossed" \notin lapses => AtMostOne /\ Watching

(* A step that inserts no row brings no ended run back to life ...         *)
Calm == Present' = Present /\ Live' \subseteq Live /\ lapses \subseteq lapses'

(* ... and a starter that sets out has found no live run.                  *)
RequestSets(m) == request'[m].pc \in RequestPcs =>
  \/ request[m].pc \in RequestPcs /\ request'[m].seen = request[m].seen
  \/ request'[m].seen = Present /\ Live = {}
BackstopSets(c) == backstop'[c].pc \in {"reads", "adopts"} =>
  \/ backstop[c].pc \in {"reads", "adopts"} /\ backstop'[c].seen = backstop[c].seen
  \/ backstop'[c].seen = Present /\ Live = {}

LEMMA CalmEarly ==
  ASSUME Calm, NEW seen, Early(seen) \/ (seen = Present /\ Live = {})
  PROVE  Early(seen)'
BY DEF Calm, Early

LEMMA CalmKeeps ==
  ASSUME OneInv, Calm,
         \A m \in Messages : RequestSets(m), \A c \in Callers : BackstopSets(c),
         resuming'.found # NoRun =>
           resuming' = resuming \/ (resuming'.seen = Present /\ Live = {}),
         waking'.busy =>
           waking' = waking \/ ( /\ waking'.seen = Present
                                 /\ AtMostOne => Live' \subseteq waking'.dead \cup {waking'.found} )
  PROVE  OneInv'
<1> SUFFICES ASSUME "crossed" \notin lapses' PROVE AtMostOne' /\ Watching'
  BY DEF OneInv
<1>1. AtMostOne /\ Watching
  BY DEF OneInv, Calm
<1>2. AtMostOne'
  BY <1>1 DEF AtMostOne, Calm
<1>3. \A m \in Messages : request'[m].pc \in RequestPcs => Early(request[m].seen)'
  BY <1>1, CalmEarly DEF Watching, RequestSets, Early, Calm
<1>4. resuming'.found # NoRun => Early(resuming.seen)'
  BY <1>1 DEF Watching, Early, Calm
<1>5. \A c \in Callers : backstop'[c].pc \in {"reads", "adopts"} => Early(backstop[c].seen)'
  BY <1>1 DEF Watching, BackstopSets, Early, Calm
<1>6. waking'.busy =>
        /\ waking'.seen \subseteq Present'
        /\ waking'.seen = Present' => Live' \subseteq waking'.dead \cup {waking'.found}
  BY <1>1 DEF Watching, Calm
<1> QED
  BY <1>2, <1>3, <1>4, <1>5, <1>6 DEF Watching

(* An insert leaves every other starter behind; it is the only live run if *)
(* its own starter has seen every row.                                     *)
LEMMA InsertKeeps ==
  ASSUME OneInv, NEW r \in Runs, status[r] = "absent", lapses \subseteq lapses',
         "crossed" \notin lapses' => Live' = {r},
         Present \cup {r} \subseteq Present',
         \A m \in Messages : request'[m].pc \in RequestPcs =>
           request[m].pc \in RequestPcs /\ request'[m].seen = request[m].seen,
         \A c \in Callers : backstop'[c].pc \in {"reads", "adopts"} =>
           backstop[c].pc \in {"reads", "adopts"} /\ backstop'[c].seen = backstop[c].seen,
         resuming'.found # NoRun => resuming' = resuming,
         waking'.busy => waking' = waking
  PROVE  OneInv'
<1> SUFFICES ASSUME "crossed" \notin lapses' PROVE AtMostOne' /\ Watching'
  BY DEF OneInv
<1>1. Watching
  BY DEF OneInv
<1>2. r \notin Present /\ r \in Present'
  BY DEF Present, Absent
<1>3. ASSUME NEW seen, seen \subseteq Present PROVE seen \subseteq Present' /\ seen # Present'
  BY <1>2, <1>3
<1>4. AtMostOne'
  BY DEF AtMostOne
<1>5. \A m \in Messages : request'[m].pc \in RequestPcs => Early(request[m].seen)'
  BY <1>1, <1>3 DEF Watching, Early
<1>6. resuming'.found # NoRun => Early(resuming.seen)'
  BY <1>1, <1>3 DEF Watching, Early
<1>7. \A c \in Callers : backstop'[c].pc \in {"reads", "adopts"} => Early(backstop[c].seen)'
  BY <1>1, <1>3 DEF Watching, Early
<1>8. waking'.busy => waking'.seen \subseteq Present' /\ waking'.seen # Present'
  BY <1>1, <1>3 DEF Watching
<1> QED
  BY <1>4, <1>5, <1>6, <1>7, <1>8 DEF Watching

LEMMA InsertAlone ==
  ASSUME TypeOK, OneInv, NEW seen, NEW text, NEW r \in Runs, Insert(seen, text, r),
         "crossed" \notin lapses => Early(seen)
  PROVE  /\ status[r] = "absent" /\ lapses \subseteq lapses'
         /\ "crossed" \notin lapses' => Live' = {r}
         /\ Present \cup {r} \subseteq Present'
<1>1. status[r] = "absent" /\ lapses \subseteq lapses'
  BY DEF Insert, NextRow
<1>2. Present \cup {r} \subseteq Present'
  BY DEF Insert, Present, Absent, TypeOK, RowsOK
<1>3. ASSUME "crossed" \notin lapses' PROVE Live' = {r}
  <2>1. Live = {}
    BY <1>3 DEF Insert, Early
  <2> QED
    BY <2>1 DEF Insert, Live, TypeOK, RowsOK, ActiveStatuses
<1> QED
  BY <1>1, <1>2, <1>3

LEMMA Still ==
  ASSUME UNCHANGED status, lapses \subseteq lapses'
  PROVE  Calm
BY DEF Calm, Present, Absent, Live

LEMMA NoRowRises ==
  ASSUME TypeOK, lapses \subseteq lapses', status' \in [Runs -> KnownStatuses \cup {"absent"}],
         \A r \in Runs : \/ status'[r] = status[r]
                         \/ status[r] # "absent" /\ status'[r] \in TerminalStatuses
                         \/ status[r] \in ActiveStatuses /\ status'[r] \in ActiveStatuses
  PROVE  Calm
<1>1. Present' = Present
  BY DEF Present, Absent, ActiveStatuses, TerminalStatuses
<1>2. Live' \subseteq Live
  BY DEF Live, ActiveStatuses, TerminalStatuses
<1> QED
  BY <1>1, <1>2 DEF Calm

LEMMA Edges ==
  ASSUME NEW a, NEW b, ValidTransition(a, b)
  PROVE  a \in ActiveStatuses /\ (b \in TerminalStatuses \/ b \in ActiveStatuses)
BY DEF ValidTransition, AllowedTransitions, ActiveStatuses, TerminalStatuses

LEMMA SetStatusCalm ==
  ASSUME TypeOK, NEW r \in Runs, NEW goal \in KnownStatuses, SetStatus(r, goal),
         UNCHANGED lapses
  PROVE  Calm
<1>1. RowsOK'
  BY SetStatusTypes
<1>2. \/ Written(r, goal) = status[r]
      \/ status[r] # "absent" /\ Written(r, goal) \in TerminalStatuses
      \/ status[r] \in ActiveStatuses /\ Written(r, goal) \in ActiveStatuses
  BY Edges DEF Written, ActiveStatuses
<1>3. \A s \in Runs : status'[s] = IF s = r THEN Written(r, goal) ELSE status[s]
  BY DEF TypeOK, RowsOK, SetStatus
<1> QED
  BY <1>1, <1>2, <1>3, NoRowRises DEF RowsOK

LEMMA EndsKeepsOne ==
  ASSUME TypeOK, OneInv, NEW t \in Threads, NEW goal \in KnownStatuses, Ends(t, goal)
  PROVE  OneInv'
<1>1. Calm
  BY SetStatusCalm, ThreadInRows DEF Ends, history
<1>2. \A c \in Callers : BackstopSets(c)
  BY ThreadInRows DEF Ends, Afterwards, BackstopSets, TypeOK, BackstopsOK
<1> QED
  BY <1>1, <1>2, CalmKeeps DEF Ends, users, RequestSets

LEMMA LooksSet ==
  ASSUME TypeOK, NEW m \in Messages, NEW pc, NEW r, Asks(m, pc, r),
         pc \in RequestPcs => Live = {}
  PROVE  \A n \in Messages : RequestSets(n)
BY DEF RequestSets, Asks, TypeOK, RequestsOK

LEMMA ContinueSets ==
  ASSUME TypeOK, NEW m \in Messages, NEW pc, Continues(m, pc),
         pc \in RequestPcs => request[m].pc \in RequestPcs
  PROVE  \A n \in Messages : RequestSets(n)
BY DEF RequestSets, Continues, TypeOK, RequestsOK

LEMMA DoneSets ==
  ASSUME TypeOK, NEW m \in Messages, Done(m)
  PROVE  /\ \A n \in Messages : RequestSets(n)
         /\ \A n \in Messages : request'[n].pc \in RequestPcs =>
              request[n].pc \in RequestPcs /\ request'[n].seen = request[n].seen
BY DEF RequestSets, Done, NoRequest, RequestPcs, TypeOK, RequestsOK

LEMMA UserLooksKeepsOne ==
  ASSUME TypeOK, OneInv, NEW m \in Messages,
         \/ SendLooks(m) \/ SendSaves(m) \/ InjectSaves(m) \/ BotSaves(m)
         \/ BotLooks(m) \/ BotMarks(m) \/ BotExtras(m) \/ BotGivesUp(m)
         \/ \E r \in Runs : InjectLooks(m, r)
  PROVE  OneInv'
<1>1. Calm
  BY Still DEF SendLooks, SendSaves, InjectSaves, BotSaves, BotLooks, BotMarks,
     BotExtras, BotGivesUp, InjectLooks, rows, history
<1>2. \A n \in Messages : RequestSets(n)
  <2>1. CASE SendLooks(m) \/ BotLooks(m) \/ \E r \in Runs : InjectLooks(m, r)
    BY <2>1, LooksSet DEF SendLooks, BotLooks, InjectLooks, LiveRuns, RequestPcs
  <2>2. CASE SendSaves(m) \/ BotSaves(m)
    BY <2>2, ContinueSets DEF SendSaves, BotSaves, RequestPcs
  <2>3. CASE InjectSaves(m) \/ BotMarks(m) \/ BotExtras(m) \/ BotGivesUp(m)
    BY <2>3, DoneSets DEF InjectSaves, BotMarks, BotExtras, BotGivesUp
  <2> QED
    BY <2>1, <2>2, <2>3
<1>3. \A c \in Callers : BackstopSets(c)
  <2>1. CASE BotMarks(m)
    BY <2>1 DEF BotMarks, BackstopSets, TypeOK, BackstopsOK
  <2>2. CASE ~ BotMarks(m)
    BY <2>2 DEF BackstopSets, SendLooks, SendSaves, InjectSaves, BotSaves, BotLooks,
       BotExtras, BotGivesUp, InjectLooks
  <2> QED
    BY <2>1, <2>2
<1>4. UNCHANGED <<resuming, waking>>
  BY DEF SendLooks, SendSaves, InjectSaves, BotSaves, BotLooks, BotMarks,
     BotExtras, BotGivesUp, InjectLooks
<1> QED
  BY <1>1, <1>2, <1>3, <1>4, CalmKeeps

LEMMA UserInsertsKeepsOne ==
  ASSUME TypeOK, OneInv, NEW m \in Messages, NEW r \in Runs,
         SendInserts(m, r) \/ BotInserts(m, r)
  PROVE  OneInv'
<1>1. request[m].pc \in RequestPcs
  BY DEF SendInserts, BotInserts, RequestPcs
<1>2. "crossed" \notin lapses => Early(request[m].seen)
  BY <1>1 DEF OneInv, Watching
<1>3. \E text : Insert(request[m].seen, text, r)
  BY DEF SendInserts, BotInserts
<1>4. \A n \in Messages : request'[n].pc \in RequestPcs =>
        request[n].pc \in RequestPcs /\ request'[n].seen = request[n].seen
  <2>1. CASE SendInserts(m, r)
    BY <2>1, DoneSets DEF SendInserts
  <2>2. CASE BotInserts(m, r)
    BY <2>2 DEF BotInserts, RequestPcs, TypeOK, RequestsOK
  <2> QED
    BY <2>1, <2>2
<1>5. UNCHANGED <<backstop, resuming, waking>>
  BY DEF SendInserts, BotInserts
<1>6. /\ status[r] = "absent" /\ lapses \subseteq lapses'
      /\ "crossed" \notin lapses' => Live' = {r}
      /\ Present \cup {r} \subseteq Present'
  BY <1>2, <1>3, InsertAlone
<1> QED
  BY <1>4, <1>5, <1>6, InsertKeeps

LEMMA ResumeKeepsOne ==
  ASSUME TypeOK, OneInv, NEW r \in Runs, ResumeLooks(r) \/ ResumeInserts(r) \/ StopRun(r)
  PROVE  OneInv'
<1>1. CASE ResumeLooks(r)
  <2>1. Calm
    BY <1>1, Still DEF ResumeLooks, rows, history
  <2>2. resuming'.seen = Present /\ Live = {}
    BY <1>1 DEF ResumeLooks, LiveRuns, TypeOK, StartersOK
  <2> QED
    BY <1>1, <2>1, <2>2, CalmKeeps DEF ResumeLooks, RequestSets, BackstopSets
<1>2. CASE ResumeInserts(r)
  <2>1. "crossed" \notin lapses => Early(resuming.seen)
    BY <1>2 DEF OneInv, Watching, ResumeInserts
  <2>2. /\ status[r] = "absent" /\ lapses \subseteq lapses'
        /\ "crossed" \notin lapses' => Live' = {r}
        /\ Present \cup {r} \subseteq Present'
    BY <1>2, <2>1, InsertAlone DEF ResumeInserts
  <2> QED
    BY <1>2, <2>2, InsertKeeps DEF ResumeInserts, NoRequest
<1>3. CASE StopRun(r)
  <2>1. Calm
    <3>1. /\ status' \in [Runs -> KnownStatuses \cup {"absent"}]
          /\ lapses \subseteq lapses'
      BY <1>3, StopRunTypes DEF StopRun, TypeOK, RowsOK
    <3>2. \A s \in Runs : status'[s] = IF s = r THEN "stopped" ELSE status[s]
      BY <1>3 DEF StopRun, TypeOK, RowsOK
    <3>3. status[r] # "absent"
      BY <1>3 DEF StopRun, ActiveStatuses
    <3> QED
      BY <3>1, <3>2, <3>3, NoRowRises DEF TerminalStatuses
  <2> QED
    BY <1>3, <2>1, CalmKeeps DEF StopRun, users, RequestSets, BackstopSets
<1> QED
  BY <1>1, <1>2, <1>3

LEMMA OthersKeepOne ==
  ASSUME TypeOK, OneInv, OthersAct
  PROVE  OneInv'
<1>1. ASSUME NEW S \in SUBSET Live, status' = Ended(S), lapses \subseteq lapses'
      PROVE  Calm
  <2>1. status' \in [Runs -> KnownStatuses \cup {"absent"}]
    BY <1>1 DEF Ended, TypeOK, RowsOK, KnownStatuses, TerminalStatuses
  <2>2. \A r \in Runs : r \in S => status[r] # "absent"
    BY <1>1 DEF Live, ActiveStatuses
  <2> QED
    BY <1>1, <2>1, <2>2, NoRowRises DEF Ended, TerminalStatuses
<1>2. ASSUME NEW dead \in SUBSET Runs, NEW found \in Runs \cup {NoRun},
             WakeLooks(dead, found)
      PROVE  OneInv'
  <2>1. CASE found = NoRun
    <3>1. dead = Live
      BY <1>2, <2>1 DEF WakeLooks, LooksDead
    <3>2. Calm
      BY <1>1, <1>2, <2>1, <3>1 DEF WakeLooks
    <3>3. Live' = {}
      BY <1>2, <2>1, <3>1 DEF WakeLooks, Ended, Live, ActiveStatuses
    <3> QED
      BY <1>2, <3>2, <3>3, CalmKeeps DEF WakeLooks, RequestSets, BackstopSets, TypeOK,
         StartersOK
  <2>2. CASE found # NoRun
    <3>1. Calm
      BY <1>2, <2>2, Still DEF WakeLooks
    <3>2. found \in Live
      BY <1>2, <2>2 DEF WakeLooks, LooksDead
    <3>3. AtMostOne => Live' \subseteq {found}
      BY <3>1, <3>2 DEF AtMostOne, Calm
    <3>4. waking'.seen = Present /\ waking'.found = found
      BY <1>2 DEF WakeLooks
    <3> QED
      BY <1>2, <3>1, <3>3, <3>4, CalmKeeps DEF WakeLooks, RequestSets, BackstopSets
  <2> QED
    BY <2>1, <2>2
<1>3. ASSUME NEW r \in Runs, WakeInserts(r) PROVE OneInv'
  <2>1. status[r] = "absent" /\ lapses \subseteq lapses'
    BY <1>3 DEF WakeInserts, NextRow
  <2>2. Present \cup {r} \subseteq Present'
    BY <1>3 DEF WakeInserts, Present, Absent, Ended
  <2>3. ASSUME "crossed" \notin lapses' PROVE Live' = {r}
    <3>1. waking.seen = Present /\ "crossed" \notin lapses
      BY <1>3, <2>3 DEF WakeInserts
    <3>2. Live \subseteq waking.dead \cup {waking.found}
      BY <1>3, <3>1 DEF OneInv, Watching, WakeInserts
    <3>3. \A s \in Runs : status'[s] = IF s = r THEN "queued"
                                       ELSE IF s = waking.found THEN "stopped"
                                       ELSE IF s \in waking.dead THEN "error" ELSE status[s]
      BY <1>3 DEF WakeInserts, Ended
    <3> QED
      BY <3>2, <3>3 DEF Live, ActiveStatuses
  <2> QED
    BY <1>3, <2>1, <2>2, <2>3, InsertKeeps DEF WakeInserts, NotWaking
<1>4. CASE Poll
  <2>1. Calm
    BY <1>1, <1>4 DEF Poll
  <2> QED
    BY <1>4, <2>1, CalmKeeps DEF Poll, users, RequestSets, BackstopSets
<1> QED
  BY <1>2, <1>3, <1>4 DEF OthersAct

LEMMA ThreadsKeepOne ==
  ASSUME TypeOK, OneInv, NEW t \in Threads, Steps(t) \/ LoadFails(t)
  PROVE  OneInv'
<1>1. CASE Refuses(t) \/ Stops(t) \/ Fails(t) \/ Completes(t)
  BY <1>1, EndsKeepsOne DEF Refuses, Stops, Fails, Completes, KnownStatuses,
     TerminalStatuses
<1>2. CASE Begins(t)
  <2>1. Calm
    BY <1>2, SetStatusCalm, ThreadInRows DEF Begins, history, KnownStatuses, ActiveStatuses
  <2> QED
    BY <1>2, <2>1, CalmKeeps DEF Begins, users, RequestSets, BackstopSets
<1>3. CASE Builds(t) \/ OutOfSteps(t) \/ Reads(t) \/ Takes(t) \/ Tools(t)
           \/ NoProgress(t) \/ Answers(t) \/ Again(t)
  <2>1. Calm /\ UNCHANGED <<users, backstop>>
    BY <1>3, Still DEF Builds, OutOfSteps, Reads, Takes, Tools, NoProgress, Answers,
       Again, rows, history
  <2> QED
    BY <2>1, CalmKeeps DEF users, RequestSets, BackstopSets
<1>4. CASE LoadFails(t)
  <2>1. Calm
    <3>1. status' \in [Runs -> KnownStatuses \cup {"absent"}] /\ lapses \subseteq lapses'
      BY <1>4, LoadFailsTypes DEF LoadFails, TypeOK, RowsOK
    <3>2. \A r \in Runs : status'[r] # status[r] =>
            status[r] # "absent" /\ status'[r] = "error"
      BY <1>4, ThreadInRows, Edges DEF LoadFails, TypeOK, RowsOK, ActiveStatuses
    <3> QED
      BY <3>1, <3>2, NoRowRises DEF TerminalStatuses
  <2> QED
    BY <1>4, <2>1, CalmKeeps DEF LoadFails, users, RequestSets, BackstopSets
<1> QED
  BY <1>1, <1>2, <1>3, <1>4 DEF Steps

LEMMA QueueKeepsOne ==
  ASSUME TypeOK, OneInv, NEW r \in Runs, Claim(r) \/ Reap(r)
  PROVE  OneInv'
<1>1. Calm
  <2>1. /\ status' \in [Runs -> KnownStatuses \cup {"absent"}] /\ lapses \subseteq lapses'
        /\ status[r] \in ActiveStatuses /\ status'[r] \in ActiveStatuses
        /\ \A s \in Runs : s # r => status'[s] = status[s]
    BY DEF Claim, Reap, TypeOK, RowsOK, KnownStatuses, ActiveStatuses, history
  <2> QED
    BY <2>1, NoRowRises
<1> QED
  BY <1>1, CalmKeeps DEF Claim, Reap, users, RequestSets, BackstopSets

LEMMA BackstopKeepsOne ==
  ASSUME TypeOK, OneInv, NEW c \in Callers, Looks(c) \/ Crash(c)
  PROVE  OneInv'
<1>1. CASE BackstopLooks(c) \/ BackstopReads(c) \/ Crash(c)
  <2>1. Calm
    BY <1>1, Still DEF BackstopLooks, BackstopReads, Crash, rows, history
  <2>2. \A d \in Callers : BackstopSets(d)
    <3>1. CASE BackstopLooks(c)
      BY <3>1 DEF BackstopLooks, BackstopSets, NoBackstop, LiveRuns, TypeOK, BackstopsOK
    <3>2. CASE BackstopReads(c)
      BY <3>2 DEF BackstopReads, BackstopSets, NoBackstop, TypeOK, BackstopsOK
    <3>3. CASE Crash(c)
      BY <3>3 DEF Crash, BackstopSets, NoBackstop, TypeOK, BackstopsOK
    <3> QED
      BY <1>1, <3>1, <3>2, <3>3
  <2> QED
    BY <1>1, <2>1, <2>2, CalmKeeps DEF BackstopLooks, BackstopReads, Crash, users,
       RequestSets
<1>2. ASSUME NEW r \in Runs, BackstopAdopts(c, r) PROVE OneInv'
  <2>1. "crossed" \notin lapses => Early(backstop[c].seen)
    BY <1>2 DEF OneInv, Watching, BackstopAdopts
  <2>2. /\ status[r] = "absent" /\ lapses \subseteq lapses'
        /\ "crossed" \notin lapses' => Live' = {r}
        /\ Present \cup {r} \subseteq Present'
    BY <1>2, <2>1, InsertAlone DEF BackstopAdopts
  <2>3. \A d \in Callers : backstop'[d].pc \in {"reads", "adopts"} =>
          backstop[d].pc \in {"reads", "adopts"} /\ backstop'[d].seen = backstop[d].seen
    BY <1>2 DEF BackstopAdopts, NoBackstop, TypeOK, BackstopsOK
  <2> QED
    BY <1>2, <2>2, <2>3, InsertKeeps DEF BackstopAdopts, users
<1> QED
  BY <1>1, <1>2 DEF Looks

LEMMA InitOne == Init => OneInv
BY DEF Init, OneInv, AtMostOne, Watching, Live, ActiveStatuses, RequestPcs, NoRequest,
   NoBackstop, NotWaking

LEMMA NextOne ==
  ASSUME TypeOK, OneInv, [Next]_vars
  PROVE  OneInv'
<1>1. CASE UserActs
  BY <1>1, UserLooksKeepsOne, UserInsertsKeepsOne, ResumeKeepsOne DEF UserActs
<1>2. CASE UNCHANGED vars
  <2>1. Calm
    BY <1>2, Still DEF vars, rows, history
  <2> QED
    BY <1>2, <2>1, CalmKeeps DEF vars, users, RequestSets, BackstopSets
<1> QED
  BY <1>1, <1>2, OthersKeepOne, ThreadsKeepOne, QueueKeepsOne, BackstopKeepsOne
     DEF Next

(* A conversation has one live run, for any number of users, wakes and     *)
(* backstops, as long as no starter met a row inserted after its query.    *)
THEOREM OneRunAtATime == Spec => []OneLiveRun
<1>1. OneInv => OneLiveRun
  BY DEF OneInv, AtMostOne, OneLiveRun
<1> QED
  BY <1>1, InitOne, NextOne, TypeCorrect, PTL DEF Spec
-----------------------------------------------------------------------------
(* How the steps move the messages and their requests.                     *)

(* The request of message n goes on; only its last step tags the message.  *)
MessageMoves(n) ==
  /\ request[n].pc # "done"
  /\ \A m \in Messages : m # n => request'[m] = request[m] /\ note'[m] = note[m]
  /\ note'[n] = note[n] \/ note'[n] = "plain" \/ request'[n].pc = "done"

LEMMA RequestMoves ==
  ASSUME TypeOK, NEW n \in Messages,
         \/ \E pc, r : Asks(n, pc, r)
         \/ \E pc : Continues(n, pc)
         \/ Done(n)
         \/ \E pc, r : request' = [request EXCEPT ![n].pc = pc, ![n].found = r]
  PROVE  /\ \A m \in Messages : m # n => request'[m] = request[m]
         /\ Done(n) => request'[n].pc = "done"
<1>1. request \in [Messages -> [pc : {"none", "sends", "inserts", "injects", "botlooks",
           "botmarks", "botinserts", "extras", "done"},
           found : Runs \cup {NoRun}, seen : SUBSET Runs]]
  BY DEF TypeOK, RequestsOK
<1>2. \A m \in Messages : m # n => request'[m] = request[m]
  BY <1>1 DEF Asks, Continues, Done
<1>3. Done(n) => request'[n].pc = "done"
  BY <1>1 DEF Done, NoRequest
<1> QED
  BY <1>2, <1>3

LEMMA UserMoves ==
  ASSUME TypeOK, UserActs
  PROVE  /\ UNCHANGED <<takes, thread>>
         /\ UNCHANGED <<request, note>> \/ \E n \in Messages : MessageMoves(n)
         /\ lapses \subseteq lapses'
<1>0. note \in [Messages -> {"none", "plain", "pending"}]
  BY DEF TypeOK, MessagesOK
<1>1. ASSUME NEW n \in Messages, SendLooks(n) \/ BotLooks(n) \/ BotGivesUp(n) \/ BotExtras(n)
      PROVE  MessageMoves(n) /\ UNCHANGED <<takes, thread>> /\ lapses \subseteq lapses'
  <2>1. request[n].pc # "done" /\ UNCHANGED <<note, takes, thread, lapses>>
    BY <1>1 DEF SendLooks, BotLooks, BotGivesUp, BotExtras, NewSender, messages, history
  <2>2. (\E pc, r : Asks(n, pc, r)) \/ Done(n)
    BY <1>1 DEF SendLooks, BotLooks, BotGivesUp, BotExtras
  <2> QED
    BY <2>1, <2>2, RequestMoves DEF MessageMoves
<1>2. ASSUME NEW n \in Messages, NEW r \in Runs, InjectLooks(n, r)
      PROVE  MessageMoves(n) /\ UNCHANGED <<takes, thread>> /\ lapses \subseteq lapses'
  <2>1. request[n].pc # "done" /\ UNCHANGED <<note, takes, thread, lapses>>
        /\ \E pc, q : Asks(n, pc, q)
    BY <1>2 DEF InjectLooks, NewSender, messages, history
  <2> QED
    BY <2>1, RequestMoves DEF MessageMoves
<1>3. ASSUME NEW n \in Messages, SendSaves(n) \/ BotSaves(n)
      PROVE  MessageMoves(n) /\ UNCHANGED <<takes, thread>> /\ lapses \subseteq lapses'
  <2>1. request[n].pc # "done" /\ UNCHANGED <<takes, thread, lapses>>
        /\ note' = [note EXCEPT ![n] = "plain"] /\ \E pc : Continues(n, pc)
    BY <1>3 DEF SendSaves, BotSaves, NewSender, Saved, history
  <2> QED
    BY <1>0, <2>1, RequestMoves DEF MessageMoves
<1>4. ASSUME NEW n \in Messages, InjectSaves(n) \/ BotMarks(n)
      PROVE  MessageMoves(n) /\ UNCHANGED <<takes, thread>> /\ lapses \subseteq lapses'
  <2>1. /\ request[n].pc # "done" /\ UNCHANGED <<takes, thread>> /\ lapses \subseteq lapses'
        /\ note' = [note EXCEPT ![n] = "pending"] /\ Done(n)
    BY <1>4 DEF InjectSaves, BotMarks, Saved, history
  <2> QED
    BY <1>0, <2>1, RequestMoves DEF MessageMoves
<1>5. ASSUME NEW n \in Messages, NEW r \in Runs, SendInserts(n, r) \/ BotInserts(n, r)
      PROVE  MessageMoves(n) /\ UNCHANGED <<takes, thread>> /\ lapses \subseteq lapses'
  <2>1. request[n].pc # "done" /\ UNCHANGED <<note, takes, thread>> /\ lapses \subseteq lapses'
    BY <1>5 DEF SendInserts, BotInserts, Insert, messages
  <2>2. Done(n) \/ \E pc, q : request' = [request EXCEPT ![n].pc = pc, ![n].found = q]
    BY <1>5 DEF SendInserts, BotInserts
  <2> QED
    BY <2>1, <2>2, RequestMoves DEF MessageMoves
<1>6. ASSUME NEW r \in Runs, StopRun(r) \/ ResumeLooks(r) \/ ResumeInserts(r)
      PROVE  UNCHANGED <<takes, thread, request, note>> /\ lapses \subseteq lapses'
  BY <1>6 DEF StopRun, ResumeLooks, ResumeInserts, Insert, messages, users, history
<1> QED
  BY <1>1, <1>2, <1>3, <1>4, <1>5, <1>6 DEF UserActs

LEMMA OthersMove ==
  ASSUME OthersAct
  PROVE  UNCHANGED <<takes, backstop, request, note, shown, passed>> /\ lapses \subseteq lapses'
<1>1. ASSUME NEW dead, NEW found, WakeLooks(dead, found)
      PROVE  UNCHANGED <<takes, backstop, request, note, shown, passed>> /\ lapses \subseteq lapses'
  BY <1>1 DEF WakeLooks, messages
<1>2. ASSUME NEW r \in Runs, WakeInserts(r)
      PROVE  UNCHANGED <<takes, backstop, request, note, shown, passed>> /\ lapses \subseteq lapses'
  BY <1>2 DEF WakeInserts, messages
<1>3. Poll => UNCHANGED <<takes, backstop, request, note, shown, passed>> /\ lapses \subseteq lapses'
  BY DEF Poll, messages, users
<1> QED
  BY <1>1, <1>2, <1>3 DEF OthersAct

LEMMA QueueMoves ==
  ASSUME NEW r \in Runs, Claim(r) \/ Reap(r)
  PROVE  UNCHANGED <<takes, backstop, request, note, shown, passed>> /\ lapses \subseteq lapses'
BY DEF Claim, Reap, messages, users, history

LEMMA ThreadMoves ==
  ASSUME NEW t \in Threads, Steps(t) \/ LoadFails(t)
  PROVE  /\ UNCHANGED request /\ lapses \subseteq lapses'
         /\ Takes(t) \/ Again(t) \/ UNCHANGED <<takes, note>>
<1>1. CASE Refuses(t) \/ Stops(t) \/ Fails(t) \/ Completes(t)
  BY <1>1 DEF Refuses, Stops, Fails, Completes, Ends, messages, users, history
<1>2. CASE LoadFails(t) \/ Begins(t) \/ Builds(t) \/ OutOfSteps(t) \/ Reads(t)
  BY <1>2 DEF LoadFails, Begins, Builds, OutOfSteps, Reads, messages, users, history
<1>3. CASE Takes(t) \/ Tools(t) \/ NoProgress(t) \/ Answers(t) \/ Again(t)
  BY <1>3 DEF Takes, Tools, NoProgress, Answers, Again, messages, users, history
<1> QED
  BY <1>1, <1>2, <1>3 DEF Steps

LEMMA BackstopMoves ==
  ASSUME NEW c \in Callers, Looks(c) \/ Crash(c)
  PROVE  /\ UNCHANGED request /\ lapses \subseteq lapses'
         /\ UNCHANGED <<takes, note>> \/ \E r \in Runs : BackstopAdopts(c, r)
BY DEF Looks, BackstopLooks, BackstopReads, BackstopAdopts, Crash, Insert, messages, users,
   history

(* A step moves one message's request, takes messages, or does neither.    *)
TakenBy(t) == Takes(t) \/ Again(t)
LEMMA MessageSteps ==
  ASSUME TypeOK, [Next]_vars
  PROVE  /\ lapses \subseteq lapses'
         /\ \/ UNCHANGED <<request, note, takes>>
            \/ UNCHANGED takes /\ \E n \in Messages : MessageMoves(n)
            \/ UNCHANGED request /\ \E t \in Threads : TakenBy(t)
            \/ UNCHANGED request /\ \E c \in Callers, r \in Runs : BackstopAdopts(c, r)
<1>1. CASE UserActs
  BY <1>1, UserMoves
<1>2. CASE OthersAct
  BY <1>2, OthersMove
<1>3. CASE UNCHANGED vars
  BY <1>3 DEF vars, messages, users, history
<1>4. ASSUME NEW t \in Threads, Steps(t) \/ LoadFails(t)
      PROVE  /\ UNCHANGED request /\ lapses \subseteq lapses'
             /\ TakenBy(t) \/ UNCHANGED <<takes, note>>
  BY <1>4, ThreadMoves DEF TakenBy
<1> QED
  BY <1>1, <1>2, <1>3, <1>4, QueueMoves, BackstopMoves DEF Next
-----------------------------------------------------------------------------
(* Taken once.  As long as no two threads are at work, what a thread or a  *)
(* backstop has read is still tagged and was never taken before.           *)
TwoAtWork == lapses \cap {"crossed", "straggled", "doubled"} # {}
Fresh == {m \in Pending : takes[m] = 0}

TagsLast == \A m \in Pending : request[m].pc = "done"

ThreadsAlone ==
  /\ \A t \in Threads : Alive(t) => RunOf(t) \in Live
  /\ \A r \in Runs : ~ (Alive(<<r, "own">>) /\ Alive(<<r, "pool">>))
TakenDone ==
  \A m \in Messages :
    takes[m] # 0 => takes[m] = 1 /\ m \notin Pending /\ request[m].pc = "done"
HeldFresh ==
  \A t \in Threads : thread[t].pc \in {"takes", "again"} => thread[t].got \subseteq Fresh
AdoptsFresh ==
  \A c \in Callers :
    backstop[c].pc = "adopts" /\ backstop[c].seen = Present => backstop[c].got \subseteq Fresh

TakenInv ==
  /\ TagsLast
  /\ TwoAtWork \/ (ThreadsAlone /\ TakenDone /\ HeldFresh /\ AdoptsFresh)

LEMMA OneAlive ==
  ASSUME ThreadsAlone, AtMostOne, NEW t \in Threads, NEW u \in Threads, Alive(t), Alive(u)
  PROVE  t = u
<1>1. RunOf(t) = RunOf(u) /\ RunOf(t) \in Runs
  BY DEF ThreadsAlone, AtMostOne, Live
<1>2. /\ t = <<RunOf(t), t[2]>> /\ u = <<RunOf(u), u[2]>>
      /\ t[2] \in {"pool", "own"} /\ u[2] \in {"pool", "own"}
  BY DEF Threads, RunOf
<1>3. ~ (Alive(<<RunOf(t), "own">>) /\ Alive(<<RunOf(t), "pool">>))
  BY <1>1 DEF ThreadsAlone
<1> QED
  BY <1>1, <1>2, <1>3

(* Steps that leave the threads where they are, or end some of them, and   *)
(* that end no row.                                                        *)
LEMMA AloneStays ==
  ASSUME ThreadsAlone,
         \A t \in Threads : thread'[t].pc # "none" => Alive(t),
         \A t \in Threads : thread'[t].pc # "none" => status'[RunOf(t)] \in ActiveStatuses
  PROVE  ThreadsAlone'
<1>1. \A t \in Threads : thread'[t].pc # "none" => RunOf(t) \in Live'
  BY ThreadInRows DEF Live
<1>2. \A r \in Runs : <<r, "own">> \in Threads /\ <<r, "pool">> \in Threads
  BY DEF Threads
<1> QED
  BY <1>1, <1>2 DEF ThreadsAlone, Alive

LEMMA RowsStayAlone ==
  ASSUME ThreadsAlone,
         \A t \in Threads : thread'[t].pc # "none" => Alive(t),
         \A r \in Runs : status[r] \in ActiveStatuses => status'[r] \in ActiveStatuses
  PROVE  ThreadsAlone'
<1>1. \A t \in Threads : thread'[t].pc # "none" => status'[RunOf(t)] \in ActiveStatuses
  BY DEF ThreadsAlone, Live
<1> QED
  BY <1>1, AloneStays

(* A row that gets a queued successor or a fresh one keeps its threads.    *)
LEMMA InsertAlive ==
  ASSUME NEW seen, NEW text, NEW r \in Runs, Insert(seen, text, r), TypeOK
  PROVE  \A s \in Runs : status[s] \in ActiveStatuses => status'[s] \in ActiveStatuses
BY DEF Insert, TypeOK, RowsOK, ActiveStatuses

LEMMA UserKeepsAlone ==
  ASSUME TypeOK, ThreadsAlone, UserActs, "straggled" \notin lapses'
  PROVE  ThreadsAlone'
<1>1. UNCHANGED thread
  BY UserMoves
<1>2. ASSUME NEW r \in Runs, StopRun(r) PROVE ThreadsAlone'
  <2>1. ThreadsOf(r) = {}
    BY <1>2 DEF StopRun
  <2>2. \A t \in Threads : Alive(t) => RunOf(t) # r
    BY <2>1 DEF ThreadsOf
  <2>3. \A s \in Runs : s # r => status'[s] = status[s]
    BY <1>2 DEF StopRun, TypeOK, RowsOK
  <2>4. \A t \in Threads : thread'[t].pc # "none" =>
          Alive(t) /\ status'[RunOf(t)] \in ActiveStatuses
    BY <1>1, <2>2, <2>3 DEF Alive, ThreadsAlone, Live
  <2> QED
    BY <2>4, AloneStays
<1>3. CASE ~ \E r \in Runs : StopRun(r)
  <2>1. \A s \in Runs : status[s] \in ActiveStatuses => status'[s] \in ActiveStatuses
    <3>1. ASSUME NEW m \in Messages, NEW r \in Runs, SendInserts(m, r) \/ BotInserts(m, r)
          PROVE  \A s \in Runs : status[s] \in ActiveStatuses => status'[s] \in ActiveStatuses
      BY <3>1, InsertAlive DEF SendInserts, BotInserts
    <3>2. ASSUME NEW r \in Runs, ResumeInserts(r)
          PROVE  \A s \in Runs : status[s] \in ActiveStatuses => status'[s] \in ActiveStatuses
      BY <3>2, InsertAlive DEF ResumeInserts
    <3>3. ASSUME NEW m \in Messages,
                 \/ SendLooks(m) \/ SendSaves(m) \/ InjectSaves(m) \/ BotSaves(m)
                 \/ BotLooks(m) \/ BotMarks(m) \/ BotExtras(m) \/ BotGivesUp(m)
                 \/ \E r \in Runs : InjectLooks(m, r)
          PROVE  UNCHANGED status
      BY <3>3 DEF SendLooks, SendSaves, InjectSaves, BotSaves, BotLooks, BotMarks,
         BotExtras, BotGivesUp, InjectLooks, rows
    <3>4. ASSUME NEW r \in Runs, ResumeLooks(r) PROVE UNCHANGED status
      BY <3>4 DEF ResumeLooks, rows
    <3> QED
      BY <1>3, <3>1, <3>2, <3>3, <3>4 DEF UserActs
  <2>2. \A t \in Threads : thread'[t].pc # "none" => Alive(t)
    BY <1>1 DEF Alive
  <2> QED
    BY <2>1, <2>2, RowsStayAlone
<1> QED
  BY <1>2, <1>3

(* Rows that a wake or a poll ends without a straggler have no thread.     *)
LEMMA NotOvertaken ==
  ASSUME NEW S, Overtaken(S) \subseteq lapses', "straggled" \notin lapses',
         NEW t \in Threads, Alive(t)
  PROVE  RunOf(t) \notin S
<1>1. \A r \in S : ThreadsOf(r) = {}
  BY DEF Overtaken
<1> QED
  BY <1>1 DEF ThreadsOf

LEMMA OthersKeepAlone ==
  ASSUME TypeOK, ThreadsAlone, OneInv', OthersAct, ~ TwoAtWork'
  PROVE  ThreadsAlone'
<1>0. "straggled" \notin lapses' /\ "crossed" \notin lapses'
  BY DEF TwoAtWork
<1>1. ASSUME NEW S \in SUBSET Runs, status' = Ended(S), Overtaken(S) \subseteq lapses',
             UNCHANGED thread
      PROVE  ThreadsAlone'
  <2>1. \A t \in Threads : Alive(t) => status'[RunOf(t)] = status[RunOf(t)]
    BY <1>0, <1>1, NotOvertaken, ThreadInRows DEF Ended
  <2>2. \A t \in Threads : thread'[t].pc # "none" =>
          Alive(t) /\ status'[RunOf(t)] \in ActiveStatuses
    BY <1>1, <2>1 DEF Alive, ThreadsAlone, Live
  <2> QED
    BY <2>2, AloneStays
<1>2. ASSUME NEW dead \in SUBSET Runs, NEW found \in Runs \cup {NoRun},
             WakeLooks(dead, found)
      PROVE  ThreadsAlone'
  <2>1. CASE found = NoRun
    BY <1>1, <1>2, <2>1 DEF WakeLooks
  <2>2. CASE found # NoRun
    BY <1>2, <2>2, RowsStayAlone DEF WakeLooks, Alive
  <2> QED
    BY <2>1, <2>2
<1>3. CASE Poll
  BY <1>1, <1>3, PendingTypes DEF Poll
<1>4. ASSUME NEW r \in Runs, WakeInserts(r) PROVE ThreadsAlone'
  <2> DEFINE own == <<r, "own">>
             over == waking.dead \cup ({waking.found} \ {NoRun})
  <2>1. status[r] = "absent" /\ Overtaken(over) \subseteq lapses'
        /\ thread' = [thread EXCEPT ![own].pc = "begins"]
    BY <1>4 DEF WakeInserts, NextRow
  <2>2. \A t \in Threads : t # own => thread'[t] = thread[t]
    BY <2>1 DEF TypeOK, ThreadsOK
  <2>3. \A s \in Runs : status'[s] = IF s = r THEN "queued"
                                     ELSE IF s = waking.found THEN "stopped"
                                     ELSE IF s \in waking.dead THEN "error" ELSE status[s]
    BY <1>4 DEF WakeInserts, Ended
  <2>4. r \in Live'
    BY <2>3 DEF Live, ActiveStatuses
  <2>5. ASSUME NEW t \in Threads, Alive(t) PROVE FALSE
    <3>1. RunOf(t) \in Live /\ RunOf(t) \notin over
      BY <1>0, <2>1, <2>5, NotOvertaken DEF ThreadsAlone
    <3>2. RunOf(t) # r /\ RunOf(t) \in Runs
      BY <2>1, <3>1 DEF Live, ActiveStatuses
    <3>3. status'[RunOf(t)] = status[RunOf(t)]
      BY <2>3, <3>1, <3>2, RunsAssumption
    <3>4. RunOf(t) \in Live'
      BY <3>1, <3>3 DEF Live
    <3> QED
      BY <1>0, <2>4, <3>2, <3>4 DEF OneInv, AtMostOne
  <2> HIDE DEF own
  <2>6. \A t \in Threads : thread'[t].pc # "none" => t = own
    BY <2>2, <2>5 DEF Alive
  <2>7. \A s \in Runs : <<s, "own">> \in Threads /\ <<s, "pool">> \in Threads
                        /\ <<s, "pool">> # <<r, "own">>
    BY DEF Threads
  <2> QED
    BY <2>4, <2>6, <2>7 DEF ThreadsAlone, Alive, own, RunOf
<1> QED
  BY <1>2, <1>3, <1>4 DEF OthersAct

LEMMA ThreadsKeepAlone ==
  ASSUME TypeOK, TypeOK', ThreadsAlone, AtMostOne, NEW t \in Threads, Steps(t) \/ LoadFails(t)
  PROVE  ThreadsAlone'
<1>0. Alive(t)
  BY DEF Steps, Refuses, Begins, Builds, OutOfSteps, Stops, Reads, Takes, Tools, Fails,
     NoProgress, Answers, Again, Completes, LoadFails, Alive
<1>1. \A u \in Threads : u # t => ~ Alive(u)
  BY <1>0, OneAlive
<1>2. ASSUME thread' = [thread EXCEPT ![t] = NoThread] PROVE ThreadsAlone'
  <2>1. \A u \in Threads : thread'[u].pc = "none"
    BY <1>1, <1>2 DEF Alive, NoThread, TypeOK, ThreadsOK
  <2> QED
    BY <2>1, AloneStays
<1>3. CASE Refuses(t) \/ Stops(t) \/ Fails(t) \/ Completes(t) \/ LoadFails(t)
  BY <1>2, <1>3 DEF Refuses, Stops, Fails, Completes, Ends, LoadFails
<1>4. ASSUME \A u \in Threads : u # t => thread'[u] = thread[u],
             \A r \in Runs : status[r] \in ActiveStatuses => status'[r] \in ActiveStatuses
      PROVE  ThreadsAlone'
  <2>1. \A u \in Threads : thread'[u].pc # "none" => Alive(u)
    BY <1>0, <1>4 DEF Alive
  <2> QED
    BY <1>4, <2>1, RowsStayAlone
<1>5. CASE Builds(t) \/ OutOfSteps(t) \/ Reads(t) \/ Takes(t) \/ Tools(t) \/ NoProgress(t)
           \/ Answers(t) \/ Again(t)
  <2>1. UNCHANGED status
    BY <1>5 DEF Builds, OutOfSteps, Reads, Takes, Tools, NoProgress, Answers, Again, rows
  <2>2. \A u \in Threads : u # t => thread'[u] = thread[u]
    BY <1>5 DEF Builds, OutOfSteps, Reads, Takes, Tools, NoProgress, Answers, Again, Moves,
       Asked, With, TypeOK, ThreadsOK
  <2> QED
    BY <1>4, <2>1, <2>2
<1>6. CASE Begins(t)
  <2>1. \A u \in Threads : u # t => thread'[u] = thread[u]
    BY <1>6 DEF Begins, TypeOK, ThreadsOK
  <2>2. Written(RunOf(t), "running") \in {"running", status[RunOf(t)]}
    BY <1>6 DEF Begins, Written
  <2>3. status' = [status EXCEPT ![RunOf(t)] = Written(RunOf(t), "running")]
    BY <1>6 DEF Begins, SetStatus
  <2>4. \A r \in Runs : status[r] \in ActiveStatuses => status'[r] \in ActiveStatuses
    BY <2>2, <2>3 DEF TypeOK, RowsOK, ActiveStatuses
  <2> QED
    BY <1>4, <2>1, <2>4
<1> QED
  BY <1>3, <1>5, <1>6 DEF Steps

LEMMA QueueKeepsAlone ==
  ASSUME TypeOK, ThreadsAlone, OneInv, "crossed" \notin lapses, NEW r \in Runs,
         Claim(r) \/ Reap(r), ~ TwoAtWork'
  PROVE  ThreadsAlone'
<1>1. status[r] \in ActiveStatuses /\ status'[r] \in ActiveStatuses
      /\ \A s \in Runs : s # r => status'[s] = status[s]
  BY DEF Claim, Reap, TypeOK, RowsOK, ActiveStatuses
<1>2. CASE Reap(r)
  BY <1>1, <1>2, RowsStayAlone DEF Reap, Alive
<1>3. CASE Claim(r)
  <2> DEFINE new == <<r, "pool">>
  <2>1. ~ Alive(<<r, "own">>) /\ ~ Alive(new)
    BY <1>3 DEF Claim, Owned, TwoAtWork
  <2>2. r \in Live
    BY <1>1 DEF Live
  <2>3. ASSUME NEW t \in Threads, Alive(t) PROVE FALSE
    <3>1. RunOf(t) = r
      BY <2>2, <2>3 DEF ThreadsAlone, OneInv, AtMostOne
    <3>2. t = <<r, "own">> \/ t = <<r, "pool">>
      BY <3>1 DEF Threads, RunOf
    <3> QED
      BY <2>1, <2>3, <3>2
  <2>4. thread' = [thread EXCEPT ![new].pc = "begins"]
    BY <1>3 DEF Claim, Moves
  <2>5. \A t \in Threads : t # new => thread'[t] = thread[t]
    BY <2>4 DEF TypeOK, ThreadsOK
  <2> HIDE DEF new
  <2>6. \A t \in Threads : thread'[t].pc # "none" => t = new
    BY <2>3, <2>5 DEF Alive
  <2>7. \A s \in Runs : <<s, "own">> \in Threads /\ <<s, "own">> # <<r, "pool">>
    BY DEF Threads
  <2>8. RunOf(new) = r
    BY DEF new, RunOf
  <2>9. r \in Live'
    BY <1>1 DEF Live
  <2>10. \A t \in Threads : thread'[t].pc # "none" => RunOf(t) \in Live'
    BY <2>6, <2>8, <2>9
  <2>11. \A s \in Runs : thread'[<<s, "own">>].pc = "none"
    BY <2>6, <2>7 DEF new
  <2> QED
    BY <2>10, <2>11 DEF ThreadsAlone, Alive
<1> QED
  BY <1>2, <1>3

LEMMA BackstopKeepsAlone ==
  ASSUME TypeOK, ThreadsAlone, NEW c \in Callers, Looks(c) \/ Crash(c)
  PROVE  ThreadsAlone'
<1>1. CASE BackstopLooks(c) \/ BackstopReads(c)
  BY <1>1, RowsStayAlone DEF BackstopLooks, BackstopReads, Alive, rows
<1>2. CASE Crash(c)
  <2>1. \A t \in Threads : thread'[t].pc # "none" => Alive(t)
    BY <1>2 DEF Crash, NoThread, Alive
  <2> QED
    BY <1>2, <2>1, RowsStayAlone DEF Crash, rows
<1>3. ASSUME NEW r \in Runs, BackstopAdopts(c, r) PROVE ThreadsAlone'
  <2>1. \A s \in Runs : status[s] \in ActiveStatuses => status'[s] \in ActiveStatuses
    BY <1>3, InsertAlive DEF BackstopAdopts
  <2> QED
    BY <1>3, <2>1, RowsStayAlone DEF BackstopAdopts, Alive
<1> QED
  BY <1>1, <1>2, <1>3 DEF Looks

LEMMA NextAlone ==
  ASSUME TypeOK, TypeOK', OneInv, OneInv', ThreadsAlone, [Next]_vars, ~ TwoAtWork'
  PROVE  ThreadsAlone'
<1>0. /\ "straggled" \notin lapses' /\ "crossed" \notin lapses
      /\ AtMostOne
  BY MessageSteps DEF TwoAtWork, OneInv
<1>1. CASE UNCHANGED vars
  BY <1>1, RowsStayAlone DEF vars, rows, Alive
<1> QED
  BY <1>0, <1>1, UserKeepsAlone, OthersKeepAlone, ThreadsKeepAlone, QueueKeepsAlone,
     BackstopKeepsAlone DEF Next

(* The messages.                                                           *)
LEMMA DoneStays ==
  ASSUME TypeOK, [Next]_vars, NEW m \in Messages, request[m].pc = "done"
  PROVE  request'[m].pc = "done" /\ (m \in Pending' => m \in Pending)
<1>1. CASE UNCHANGED <<request, note, takes>>
  BY <1>1 DEF Pending
<1>2. ASSUME NEW n \in Messages, MessageMoves(n)
      PROVE  request'[m] = request[m] /\ note'[m] = note[m]
  BY <1>2 DEF MessageMoves
<1>3. ASSUME NEW got, Untag(got) PROVE m \in Pending' => m \in Pending
  BY <1>3 DEF Untag, Cleared, Pending
<1>4. ASSUME NEW t \in Threads, TakenBy(t) PROVE Untag(thread[t].got)
  BY <1>4 DEF TakenBy, Takes, Again
<1>5. ASSUME NEW c \in Callers, NEW r \in Runs, BackstopAdopts(c, r)
      PROVE  Untag(backstop[c].got)
  BY <1>5 DEF BackstopAdopts
<1> QED
  BY <1>1, <1>2, <1>3, <1>4, <1>5, MessageSteps DEF Pending

LEMMA NextTagsLast ==
  ASSUME TypeOK, TagsLast, [Next]_vars
  PROVE  TagsLast'
<1> SUFFICES ASSUME NEW m \in Messages, m \in Pending' PROVE request'[m].pc = "done"
  BY DEF TagsLast, Pending
<1>1. CASE m \in Pending
  BY <1>1, DoneStays DEF TagsLast
<1>2. CASE m \notin Pending
  <2>1. note'[m] # note[m] /\ note'[m] = "pending"
    BY <1>2 DEF Pending
  <2>2. ASSUME NEW n \in Messages, MessageMoves(n) PROVE request'[m].pc = "done"
    BY <2>1, <2>2 DEF MessageMoves
  <2>3. ASSUME NEW got, Untag(got) PROVE FALSE
    BY <2>1, <2>3 DEF Untag, Cleared
  <2>4. ~ (\E t \in Threads : TakenBy(t)) /\ ~ \E c \in Callers, r \in Runs : BackstopAdopts(c, r)
    BY <2>3 DEF TakenBy, Takes, Again, BackstopAdopts
  <2> QED
    BY <2>1, <2>2, <2>4, MessageSteps
<1> QED
  BY <1>1, <1>2

(* What a message taken now loses, and what it keeps.                      *)
LEMMA Untagged ==
  ASSUME TypeOK, NEW got, Untag(got), NEW m \in Messages
  PROVE  /\ m \notin got => takes'[m] = takes[m] /\ note'[m] = note[m]
         /\ m \in got => note'[m] = "plain" /\ (takes[m] = 0 => takes'[m] = 1)
BY DEF Untag, Cleared

LEMMA FreshTaken ==
  ASSUME TypeOK, TypeOK', TagsLast, TakenDone, [Next]_vars,
         NEW got, got \subseteq Fresh, Untag(got)
  PROVE  TakenDone'
<1> SUFFICES ASSUME NEW m \in Messages, takes'[m] # 0
             PROVE  takes'[m] = 1 /\ m \notin Pending' /\ request'[m].pc = "done"
  BY DEF TakenDone, Pending
<1>1. CASE m \in got
  <2>1. takes[m] = 0 /\ m \in Pending
    BY <1>1 DEF Fresh
  <2>2. request'[m].pc = "done"
    BY <2>1, DoneStays DEF TagsLast
  <2> QED
    BY <1>1, <2>1, <2>2, Untagged DEF Pending
<1>2. CASE m \notin got
  <2>1. takes'[m] = takes[m]
    BY <1>2, Untagged
  <2> QED
    BY <2>1, DoneStays DEF TakenDone
<1> QED
  BY <1>1, <1>2

(* A thread that takes is alone; so is a backstop that adopts before any   *)
(* row was inserted after its query.                                       *)
LEMMA AdoptsAlone ==
  ASSUME ThreadsAlone, OneInv, "crossed" \notin lapses,
         NEW c \in Callers, backstop[c].pc = "adopts"
  PROVE  /\ backstop[c].seen \subseteq Present
         /\ backstop[c].seen = Present => \A t \in Threads : ~ Alive(t)
BY DEF OneInv, Watching, Early, ThreadsAlone

LEMMA AdoptsCrossed ==
  ASSUME TypeOK, NEW c \in Callers, NEW r \in Runs, BackstopAdopts(c, r), "crossed" \notin lapses'
  PROVE  /\ backstop[c].seen = Present /\ r \notin Present /\ r \in Present'
         /\ Untag(backstop[c].got)
BY DEF BackstopAdopts, Insert, NextRow, Present, Absent, TypeOK, RowsOK

LEMMA NextTakenDone ==
  ASSUME TypeOK, TypeOK', OneInv, TagsLast, ThreadsAlone, TakenDone, HeldFresh, AdoptsFresh,
         [Next]_vars, ~ TwoAtWork'
  PROVE  TakenDone'
<1>1. ASSUME UNCHANGED takes PROVE TakenDone'
  BY <1>1, DoneStays DEF TakenDone, Pending
<1>2. ASSUME NEW t \in Threads, TakenBy(t) PROVE TakenDone'
  <2>1. thread[t].pc \in {"takes", "again"} /\ Untag(thread[t].got)
    BY <1>2 DEF TakenBy, Takes, Again
  <2>2. thread[t].got \subseteq Fresh
    BY <2>1 DEF HeldFresh
  <2> QED
    BY <2>1, <2>2, FreshTaken
<1>3. ASSUME NEW c \in Callers, NEW r \in Runs, BackstopAdopts(c, r) PROVE TakenDone'
  <2>1. backstop[c].seen = Present /\ Untag(backstop[c].got)
    BY <1>3, AdoptsCrossed DEF TwoAtWork
  <2>2. backstop[c].got \subseteq Fresh
    BY <1>3, <2>1 DEF AdoptsFresh, BackstopAdopts
  <2> QED
    BY <2>1, <2>2, FreshTaken
<1> QED
  BY <1>1, <1>2, <1>3, MessageSteps

(* A reader holds what it has just read, or what it held before.           *)
LEMMA HeldMoves ==
  ASSUME TypeOK, [Next]_vars, NEW t \in Threads, thread'[t].pc \in {"takes", "again"}
  PROVE  \/ thread[t].pc \in {"takes", "again"} /\ thread'[t].got = thread[t].got
         \/ thread'[t].got = Pending /\ UNCHANGED <<note, takes>>
<1>0. thread \in [Threads -> ThreadRecord]
  BY DEF TypeOK, ThreadsOK, ThreadRecord
<1>1. ASSUME \/ UserActs \/ UNCHANGED vars \/ Poll
             \/ \E dead \in SUBSET Runs, found \in Runs \cup {NoRun} : WakeLooks(dead, found)
             \/ \E r \in Runs : Reap(r)
             \/ \E c \in Callers : Looks(c)
      PROVE  thread'[t] = thread[t]
  <2>1. UNCHANGED thread
    BY <1>1, UserMoves DEF vars, Poll, WakeLooks, Reap, Looks, BackstopLooks, BackstopReads,
       BackstopAdopts
  <2> QED
    BY <2>1
<1>2. ASSUME NEW u \in Threads, thread' = [thread EXCEPT ![u].pc = "begins"]
      PROVE  thread'[t] = thread[t]
  BY <1>0, <1>2 DEF ThreadRecord
<1>3. ASSUME NEW r \in Runs, Claim(r) \/ WakeInserts(r) PROVE thread'[t] = thread[t]
  BY <1>2, <1>3 DEF Claim, Moves, WakeInserts, Threads
<1>4. ASSUME NEW c \in Callers, Crash(c) PROVE thread'[t] = thread[t]
  BY <1>4 DEF Crash, NoThread
<1>5. ASSUME NEW u \in Threads, Steps(u) \/ LoadFails(u), u # t
      PROVE  thread'[t] = thread[t]
  <2>1. CASE Refuses(u) \/ Stops(u) \/ Fails(u) \/ Completes(u)
    BY <1>0, <1>5, <2>1 DEF Refuses, Stops, Fails, Completes, Ends
  <2>2. CASE LoadFails(u) \/ Begins(u) \/ Builds(u) \/ OutOfSteps(u)
    BY <1>0, <1>5, <2>2 DEF LoadFails, Begins, Builds, OutOfSteps, Moves
  <2>3. CASE Reads(u) \/ Takes(u) \/ Tools(u) \/ NoProgress(u) \/ Answers(u) \/ Again(u)
    BY <1>0, <1>5, <2>3 DEF Reads, Takes, Tools, NoProgress, Answers, Again, Moves, Asked, With
  <2> QED
    BY <1>5, <2>1, <2>2, <2>3 DEF Steps
<1>6. ASSUME Steps(t) \/ LoadFails(t)
      PROVE  thread'[t].got = Pending /\ UNCHANGED <<note, takes>>
  <2>1. CASE Refuses(t) \/ Stops(t) \/ Fails(t) \/ Completes(t) \/ LoadFails(t)
    BY <1>0, <2>1 DEF Refuses, Stops, Fails, Completes, Ends, LoadFails, NoThread
  <2>2. CASE Begins(t)
    <3>1. PICK p : thread' = [thread EXCEPT ![t].pc = "builds", ![t].prompt = p]
      BY <2>2 DEF Begins
    <3> QED
      BY <1>0, <3>1 DEF ThreadRecord
  <2>3. CASE Builds(t)
    <3>1. PICK x : thread' = [thread EXCEPT ![t].pc = "top", ![t].convo = x]
      BY <2>3 DEF Builds
    <3> QED
      BY <1>0, <3>1 DEF ThreadRecord
  <2>4. CASE OutOfSteps(t) \/ Tools(t) \/ NoProgress(t)
    BY <1>0, <2>4 DEF OutOfSteps, Tools, NoProgress, Moves, ThreadRecord
  <2>5. CASE Takes(t) \/ Again(t)
    BY <1>0, <2>5 DEF Takes, Again, Asked, With
  <2>6. CASE Reads(t)
    <3>1. UNCHANGED <<note, takes>>
      BY <2>6 DEF Reads, messages
    <3>2. CASE Pending = {}
      BY <1>0, <2>6, <3>2 DEF Reads, Asked, With
    <3>3. CASE Pending # {}
      <4>1. thread' = [thread EXCEPT ![t].pc = "takes", ![t].got = Pending, ![t].steps = @ + 1]
        BY <2>6, <3>3 DEF Reads
      <4> QED
        BY <1>0, <3>1, <4>1 DEF ThreadRecord
    <3> QED
      BY <3>2, <3>3
  <2>7. CASE Answers(t)
    <3>1. UNCHANGED <<note, takes>>
      BY <2>7 DEF Answers, messages, history
    <3>2. PICK x : thread' = [thread EXCEPT ![t].pc = x, ![t].got = Pending]
      BY <2>7 DEF Answers
    <3> QED
      BY <1>0, <3>1, <3>2 DEF ThreadRecord
  <2> QED
    BY <1>6, <2>1, <2>2, <2>3, <2>4, <2>5, <2>6, <2>7 DEF Steps
<1>7. ASSUME thread'[t] = thread[t]
      PROVE  thread[t].pc \in {"takes", "again"} /\ thread'[t].got = thread[t].got
  BY <1>7
<1>8. CASE OthersAct
  <2>1. thread'[t] = thread[t]
    BY <1>1, <1>3, <1>8 DEF OthersAct
  <2> QED
    BY <2>1, <1>7
<1>9. CASE \E r \in Runs : Claim(r) \/ Reap(r)
  <2>1. thread'[t] = thread[t]
    BY <1>1, <1>3, <1>9
  <2> QED
    BY <2>1, <1>7
<1>10. CASE \E u \in Threads : Steps(u) \/ LoadFails(u)
  <2>1. PICK u \in Threads : Steps(u) \/ LoadFails(u)
    BY <1>10
  <2>2. CASE u = t
    <3>1. thread'[t].got = Pending /\ UNCHANGED <<note, takes>>
      BY <1>6, <2>1, <2>2
    <3> QED
      BY <3>1
  <2>3. CASE u # t
    <3>1. thread'[t] = thread[t]
      BY <1>5, <2>1, <2>3
    <3> QED
      BY <3>1, <1>7
  <2> QED
    BY <2>2, <2>3
<1>11. CASE \E c \in Callers : Looks(c) \/ Crash(c)
  <2>1. thread'[t] = thread[t]
    BY <1>1, <1>4, <1>11
  <2> QED
    BY <2>1, <1>7
<1>12. CASE UserActs \/ UNCHANGED vars
  <2>1. thread'[t] = thread[t]
    BY <1>1, <1>12
  <2> QED
    BY <2>1, <1>7
<1> QED
  BY <1>8, <1>9, <1>10, <1>11, <1>12 DEF Next

LEMMA AdoptMoves ==
  ASSUME TypeOK, [Next]_vars, NEW c \in Callers, backstop'[c].pc = "adopts"
  PROVE  \/ backstop'[c] = backstop[c]
         \/ backstop'[c].got = Pending /\ UNCHANGED <<note, takes>>
<1>0. backstop \in [Callers -> [pc : {"none", "looks", "reads", "adopts"},
                            seen : SUBSET Runs, got : SUBSET Messages]]
  BY DEF TypeOK, BackstopsOK
<1>1. ASSUME NEW d \in Callers, Looks(d) \/ Crash(d)
      PROVE  \/ backstop'[c] = backstop[c]
             \/ backstop'[c].got = Pending /\ UNCHANGED <<note, takes>>
  <2>1. CASE BackstopLooks(d)
    BY <1>0, <2>1 DEF BackstopLooks, NoBackstop
  <2>2. CASE BackstopReads(d) /\ c # d
    BY <1>0, <2>2 DEF BackstopReads
  <2>3. CASE BackstopReads(d) /\ c = d
    <3>1. Pending # {}
      BY <1>0, <2>3 DEF BackstopReads, NoBackstop
    <3>2. backstop'[c] = [backstop[c] EXCEPT !.pc = "adopts", !.got = Pending]
      BY <1>0, <2>3, <3>1 DEF BackstopReads
    <3>3. backstop'[c].got = Pending
      BY <1>0, <3>2
    <3> QED
      BY <2>3, <3>3 DEF BackstopReads, messages, history
  <2>4. CASE Crash(d)
    BY <1>0, <2>4 DEF Crash, NoBackstop
  <2>5. CASE \E r \in Runs : BackstopAdopts(d, r)
    BY <1>0, <2>5 DEF BackstopAdopts, NoBackstop
  <2> QED
    BY <1>1, <2>1, <2>2, <2>3, <2>4, <2>5 DEF Looks
<1>2. ASSUME NEW t \in Threads, Steps(t) \/ LoadFails(t)
      PROVE  backstop'[c] = backstop[c]
  <2>1. CASE Refuses(t) \/ Stops(t) \/ Fails(t) \/ Completes(t)
    <3>1. backstop' = [backstop EXCEPT ![t].pc = "looks"]
      BY <2>1 DEF Refuses, Stops, Fails, Completes, Ends, Afterwards
    <3> QED
      BY <1>0, <3>1, ThreadInRows
  <2>2. CASE LoadFails(t) \/ Begins(t) \/ Builds(t) \/ OutOfSteps(t) \/ Reads(t) \/ Takes(t)
             \/ Tools(t) \/ NoProgress(t) \/ Answers(t) \/ Again(t)
    BY <2>2 DEF LoadFails, Begins, Builds, OutOfSteps, Reads, Takes, Tools, NoProgress, Answers,
       Again
  <2> QED
    BY <1>2, <2>1, <2>2 DEF Steps
<1>3. ASSUME UserActs PROVE backstop'[c] = backstop[c]
  <2>1. ASSUME NEW m \in Messages, BotMarks(m) PROVE backstop'[c] = backstop[c]
    BY <1>0, <2>1 DEF BotMarks, Callers
  <2>2. ASSUME NEW m \in Messages,
               \/ SendLooks(m) \/ SendSaves(m) \/ InjectSaves(m) \/ BotSaves(m)
               \/ BotLooks(m) \/ BotExtras(m) \/ BotGivesUp(m)
               \/ \E r \in Runs : SendInserts(m, r) \/ InjectLooks(m, r) \/ BotInserts(m, r)
        PROVE  UNCHANGED backstop
    BY <2>2 DEF SendLooks, SendSaves, InjectSaves, BotSaves, BotLooks, BotExtras, BotGivesUp,
       SendInserts, InjectLooks, BotInserts
  <2>3. ASSUME NEW r \in Runs, StopRun(r) \/ ResumeLooks(r) \/ ResumeInserts(r)
        PROVE  UNCHANGED backstop
    BY <2>3 DEF StopRun, ResumeLooks, ResumeInserts
  <2> QED
    BY <1>3, <2>1, <2>2, <2>3 DEF UserActs
<1> QED
  BY <1>1, <1>2, <1>3, OthersMove, QueueMoves DEF Next, vars

LEMMA PendingFresh == TakenDone => Pending = Fresh
BY DEF TakenDone, Fresh, Pending

(* A fresh message stays so unless it is taken.                            *)
LEMMA FreshStays ==
  ASSUME TypeOK, TagsLast, [Next]_vars, NEW m \in Fresh,
         ~ \E t \in Threads : TakenBy(t) /\ m \in thread[t].got,
         ~ \E c \in Callers, r \in Runs : BackstopAdopts(c, r)
  PROVE  m \in Fresh'
<1>1. m \in Messages /\ note[m] = "pending" /\ takes[m] = 0 /\ request[m].pc = "done"
  BY DEF Fresh, Pending, TagsLast
<1>2. note'[m] = note[m] /\ takes'[m] = takes[m]
  <2>1. ASSUME NEW n \in Messages, MessageMoves(n) PROVE note'[m] = note[m]
    BY <1>1, <2>1 DEF MessageMoves
  <2>2. ASSUME NEW t \in Threads, TakenBy(t) PROVE note'[m] = note[m] /\ takes'[m] = takes[m]
    <3>1. Untag(thread[t].got) /\ m \notin thread[t].got
      BY <2>2 DEF TakenBy, Takes, Again
    <3> QED
      BY <1>1, <3>1, Untagged
  <2> QED
    BY <2>1, <2>2, MessageSteps
<1> QED
  BY <1>1, <1>2 DEF Fresh, Pending

LEMMA NextHeldFresh ==
  ASSUME TypeOK, OneInv, TagsLast, ThreadsAlone, TakenDone, HeldFresh,
         [Next]_vars, ~ TwoAtWork'
  PROVE  HeldFresh'
<1> SUFFICES ASSUME NEW t \in Threads, thread'[t].pc \in {"takes", "again"}
             PROVE  thread'[t].got \subseteq Fresh'
  BY DEF HeldFresh
<1>0. "crossed" \notin lapses /\ "crossed" \notin lapses' /\ AtMostOne
  BY MessageSteps DEF TwoAtWork, OneInv
<1>1. CASE thread'[t].got = Pending /\ UNCHANGED <<note, takes>>
  BY <1>1, PendingFresh DEF Fresh, Pending
<1>2. CASE thread[t].pc \in {"takes", "again"} /\ thread'[t].got = thread[t].got
  <2>1. Alive(t) /\ thread[t].got \subseteq Fresh
    BY <1>2 DEF Alive, HeldFresh
  <2>2. ~ \E u \in Threads : TakenBy(u)
    <3>1. ASSUME NEW u \in Threads, TakenBy(u) PROVE FALSE
      <4>1. u = t
        BY <1>0, <2>1, <3>1, OneAlive DEF TakenBy, Takes, Again, Alive
      <4>2. thread'[u].pc \in {"turn", "top"}
        BY <3>1 DEF TakenBy, Takes, Again, Asked, With, TypeOK, ThreadsOK
      <4> QED
        BY <4>1, <4>2
    <3> QED
      BY <3>1
  <2>3. ~ \E c \in Callers, r \in Runs : BackstopAdopts(c, r)
    BY <1>0, <2>1, AdoptsAlone, AdoptsCrossed DEF BackstopAdopts
  <2> QED
    BY <1>2, <2>1, <2>2, <2>3, FreshStays
<1> QED
  BY <1>1, <1>2, HeldMoves

LEMMA NextAdoptsFresh ==
  ASSUME TypeOK, OneInv, TagsLast, ThreadsAlone, TakenDone, AdoptsFresh,
         [Next]_vars, ~ TwoAtWork', Present \subseteq Present'
  PROVE  AdoptsFresh'
<1> SUFFICES ASSUME NEW c \in Callers, backstop'[c].pc = "adopts", backstop'[c].seen = Present'
             PROVE  backstop'[c].got \subseteq Fresh'
  BY DEF AdoptsFresh
<1>0. "crossed" \notin lapses /\ "crossed" \notin lapses'
  BY MessageSteps DEF TwoAtWork
<1>1. CASE backstop'[c].got = Pending /\ UNCHANGED <<note, takes>>
  BY <1>1, PendingFresh DEF Fresh, Pending
<1>2. CASE backstop'[c] = backstop[c]
  <2>1. backstop[c].seen \subseteq Present /\ backstop[c].seen = Present'
    BY <1>0, <1>2, AdoptsAlone
  <2>2. backstop[c].seen = Present /\ Present' = Present
    BY <2>1
  <2>3. backstop[c].got \subseteq Fresh /\ \A t \in Threads : ~ Alive(t)
    BY <1>0, <1>2, <2>2, AdoptsAlone DEF AdoptsFresh
  <2>4. ~ \E t \in Threads : TakenBy(t)
    BY <2>3 DEF TakenBy, Takes, Again, Alive
  <2>5. ~ \E d \in Callers, r \in Runs : BackstopAdopts(d, r)
    BY <1>0, <2>2, AdoptsCrossed
  <2> QED
    BY <1>2, <2>3, <2>4, <2>5, FreshStays
<1> QED
  BY <1>1, <1>2, AdoptMoves

(* A row never goes away, and one that has failed or was stopped remains   *)
(* so.                                                                     *)
Spoiled == {"stopped", "error"}
RowStays(r) ==
  /\ status'[r] = "absent" => status[r] = "absent"
  /\ status[r] \in Spoiled => status'[r] \in Spoiled

LEMMA WrittenStays ==
  ASSUME TypeOK, NEW s \in Runs, NEW goal \in KnownStatuses, SetStatus(s, goal)
  PROVE  \A r \in Runs : RowStays(r)
<1>1. \A r \in Runs : r # s => status'[r] = status[r]
  BY DEF SetStatus, TypeOK, RowsOK
<1>2. status'[s] = Written(s, goal)
  BY DEF SetStatus, TypeOK, RowsOK
<1>3. Written(s, goal) # "absent" \/ status[s] = "absent"
  BY DEF Written, KnownStatuses, ActiveStatuses, TerminalStatuses
<1>4. status[s] \in Spoiled => Written(s, goal) = status[s]
  BY Edges DEF Written, Spoiled, ActiveStatuses
<1> QED
  BY <1>1, <1>2, <1>3, <1>4 DEF RowStays

LEMMA InsertedStays ==
  ASSUME TypeOK, NEW seen, NEW text, NEW s \in Runs, Insert(seen, text, s)
  PROVE  \A r \in Runs : RowStays(r)
BY DEF Insert, NextRow, TypeOK, RowsOK, RowStays, Spoiled

LEMMA SameRows ==
  ASSUME UNCHANGED status
  PROVE  \A r \in Runs : RowStays(r)
BY DEF RowStays

LEMMA RowStep ==
  ASSUME TypeOK, NEW s \in Runs, NEW new, status' = [status EXCEPT ![s] = new],
         new # "absent", status[s] \in Spoiled => new \in Spoiled
  PROVE  \A r \in Runs : RowStays(r)
BY DEF TypeOK, RowsOK, RowStays

LEMMA UserRows ==
  ASSUME TypeOK, UserActs
  PROVE  \A r \in Runs : RowStays(r)
<1>1. ASSUME NEW m \in Messages, NEW s \in Runs, SendInserts(m, s) \/ BotInserts(m, s)
      PROVE  \A r \in Runs : RowStays(r)
  BY <1>1, InsertedStays DEF SendInserts, BotInserts
<1>2. ASSUME NEW s \in Runs, ResumeInserts(s) PROVE \A r \in Runs : RowStays(r)
  BY <1>2, InsertedStays DEF ResumeInserts
<1>3. ASSUME NEW s \in Runs, StopRun(s) PROVE \A r \in Runs : RowStays(r)
  <2>1. status' = [status EXCEPT ![s] = "stopped"]
    BY <1>3 DEF StopRun
  <2> QED
    BY <2>1, RowStep DEF Spoiled
<1>4. ASSUME NEW m \in Messages,
             \/ SendLooks(m) \/ SendSaves(m) \/ InjectSaves(m) \/ BotSaves(m)
             \/ BotLooks(m) \/ BotMarks(m) \/ BotExtras(m) \/ BotGivesUp(m)
             \/ \E r \in Runs : InjectLooks(m, r)
      PROVE  UNCHANGED status
  BY <1>4 DEF SendLooks, SendSaves, InjectSaves, BotSaves, BotLooks, BotMarks, BotExtras,
     BotGivesUp, InjectLooks, rows
<1>5. ASSUME NEW s \in Runs, ResumeLooks(s) PROVE UNCHANGED status
  BY <1>5 DEF ResumeLooks, rows
<1> QED
  BY <1>1, <1>2, <1>3, <1>4, <1>5, SameRows DEF UserActs

LEMMA OthersRows ==
  ASSUME TypeOK, OthersAct
  PROVE  \A r \in Runs : RowStays(r)
<1>1. ASSUME NEW S, status' = Ended(S) PROVE \A r \in Runs : RowStays(r)
  BY <1>1 DEF Ended, RowStays, Spoiled
<1>2. ASSUME NEW dead \in SUBSET Runs, NEW found \in Runs \cup {NoRun}, WakeLooks(dead, found)
      PROVE  \A r \in Runs : RowStays(r)
  <2>1. status' = Ended(dead) \/ UNCHANGED status
    BY <1>2 DEF WakeLooks
  <2> QED
    BY <1>1, <2>1, SameRows
<1>3. ASSUME NEW s \in Runs, WakeInserts(s) PROVE \A r \in Runs : RowStays(r)
  <2>1. \A r \in Runs : status'[r] = IF r = s THEN "queued"
                                     ELSE IF r = waking.found THEN "stopped"
                                     ELSE Ended(waking.dead)[r]
    BY <1>3 DEF WakeInserts
  <2>2. status[s] = "absent"
    BY <1>3 DEF WakeInserts, NextRow
  <2> QED
    BY <2>1, <2>2 DEF Ended, RowStays, Spoiled
<1>4. CASE Poll
  BY <1>1, <1>4 DEF Poll
<1> QED
  BY <1>2, <1>3, <1>4 DEF OthersAct

LEMMA ThreadRows ==
  ASSUME TypeOK, NEW t \in Threads, Steps(t) \/ LoadFails(t)
  PROVE  \A r \in Runs : RowStays(r)
<1>0. RunOf(t) \in Runs
  BY ThreadInRows
<1>1. CASE Refuses(t) \/ Stops(t) \/ Fails(t) \/ Completes(t) \/ Begins(t)
  <2>1. PICK goal \in KnownStatuses : SetStatus(RunOf(t), goal)
    BY <1>1 DEF Refuses, Stops, Fails, Completes, Begins, Ends, KnownStatuses,
       ActiveStatuses, TerminalStatuses
  <2> QED
    BY <1>0, <2>1, WrittenStays
<1>2. CASE LoadFails(t)
  <2>1. PICK new : /\ status' = [status EXCEPT ![RunOf(t)] = new]
                   /\ new = "error" \/ new = status[RunOf(t)]
    BY <1>2 DEF LoadFails
  <2>2. CASE new = "error"
    BY <1>0, <2>1, <2>2, RowStep DEF Spoiled
  <2>3. CASE new = status[RunOf(t)]
    BY <1>0, <2>1, <2>3, SameRows DEF TypeOK, RowsOK
  <2> QED
    BY <2>1, <2>2, <2>3
<1>3. CASE Builds(t) \/ OutOfSteps(t) \/ Reads(t) \/ Takes(t) \/ Tools(t) \/ NoProgress(t)
           \/ Answers(t) \/ Again(t)
  <2>1. UNCHANGED status
    BY <1>3 DEF Builds, OutOfSteps, Reads, Takes, Tools, NoProgress, Answers, Again, rows
  <2> QED
    BY <2>1, SameRows
<1> QED
  BY <1>1, <1>2, <1>3 DEF Steps

LEMMA RowSteps ==
  ASSUME TypeOK, [Next]_vars
  PROVE  \A r \in Runs : RowStays(r)
<1>1. ASSUME NEW s \in Runs, Claim(s) \/ Reap(s) PROVE \A r \in Runs : RowStays(r)
  <2>1. \E new \in ActiveStatuses : status' = [status EXCEPT ![s] = new]
    BY <1>1 DEF Claim, Reap, ActiveStatuses
  <2>2. status[s] \notin Spoiled
    BY <1>1 DEF Claim, Reap, Spoiled
  <2> QED
    BY <2>1, <2>2, RowStep DEF ActiveStatuses
<1>2. ASSUME NEW c \in Callers, Looks(c) \/ Crash(c) PROVE \A r \in Runs : RowStays(r)
  <2>1. CASE BackstopLooks(c) \/ BackstopReads(c) \/ Crash(c)
    BY <2>1, SameRows DEF BackstopLooks, BackstopReads, Crash, rows
  <2>2. ASSUME NEW s \in Runs, BackstopAdopts(c, s) PROVE \A r \in Runs : RowStays(r)
    BY <2>2, InsertedStays DEF BackstopAdopts
  <2> QED
    BY <1>2, <2>1, <2>2 DEF Looks
<1>3. UNCHANGED vars => \A r \in Runs : RowStays(r)
  BY SameRows DEF vars, rows
<1> QED
  BY <1>1, <1>2, <1>3, UserRows, OthersRows, ThreadRows DEF Next

LEMMA PresentGrows ==
  ASSUME TypeOK, [Next]_vars
  PROVE  Present \subseteq Present'
BY RowSteps DEF RowStays, Present, Absent

LEMMA InitTaken == Init => TakenInv
BY DEF Init, TakenInv, TagsLast, Pending, ThreadsAlone, Alive, NoThread, NoBackstop, TakenDone,
   HeldFresh, AdoptsFresh, Threads

LEMMA NextTaken ==
  ASSUME TypeOK, TypeOK', OneInv, OneInv', TakenInv, [Next]_vars
  PROVE  TakenInv'
<1>1. TagsLast /\ TagsLast'
  BY NextTagsLast DEF TakenInv
<1>2. ASSUME ~ TwoAtWork' PROVE ThreadsAlone' /\ TakenDone' /\ HeldFresh' /\ AdoptsFresh'
  <2>1. ~ TwoAtWork
    BY <1>2, MessageSteps DEF TwoAtWork
  <2>2. ThreadsAlone /\ TakenDone /\ HeldFresh /\ AdoptsFresh
    BY <2>1 DEF TakenInv
  <2> QED
    BY <1>1, <1>2, <2>2, PresentGrows, NextAlone, NextTakenDone, NextHeldFresh, NextAdoptsFresh
<1> QED
  BY <1>1, <1>2 DEF TakenInv

(* A tagged message is taken out of the queue once, by the run in progress *)
(* or by one backstop, unless two threads were at work in the              *)
(* conversation.                                                           *)
THEOREM InjectTakenOnce == Spec => []TakenOnce
<1>1. TakenInv => TakenOnce
  BY DEF TakenInv, TakenOnce, TwoAtWork, TakenDone
<1>2. TypeOK /\ TypeOK' /\ OneInv /\ TakenInv /\ [Next]_vars => OneInv' /\ TakenInv'
  BY NextOne, NextTaken
<1>3. Init => OneInv /\ TakenInv
  BY InitOne, InitTaken
<1> QED
  BY <1>1, <1>2, <1>3, TypeCorrect, PTL DEF Spec
-----------------------------------------------------------------------------
(* Nothing left unread.  Unless a run failed, was stopped or was cut off,  *)
(* a message of the history that no model has seen is in somebody's hands: *)
(* its sender is about to start or mark it, a live run will still build    *)
(* its conversation, or a thread holds it for the next turn.               *)
Excused == "cut" \in lapses \/ \E r \in Runs : status[r] \in Spoiled
Unread == Plain \ (shown \cup passed)

Building == {"none", "begins", "builds"}
Underway(m) == request[m].pc \in {"inserts", "botlooks", "botmarks", "botinserts"}
Coming(r) == r \in Live /\ \A t \in Threads : RunOf(t) = r => thread[t].pc \in Building
Carries(t, m) == thread[t].pc \in {"top", "takes"} /\ m \in thread[t].convo
InHand(m) == Underway(m) \/ (\E r \in Runs : Coming(r)) \/ \E t \in Threads : Carries(t, m)

ThreadsPresent == \A t \in Threads : Alive(t) => RunOf(t) \in Present
StopsEnd == \A r \in Runs : stop[r] => status[r] \in Spoiled
FoundPresent == waking.found # NoRun => waking.found \in Present
UnreadInv ==
  /\ ThreadsPresent /\ StopsEnd /\ FoundPresent
  /\ Excused \/ \A m \in Unread : InHand(m)

LEMMA ExcusedStays ==
  ASSUME TypeOK, [Next]_vars, Excused
  PROVE  Excused'
BY RowSteps, MessageSteps DEF Excused, RowStays

(* What keeps a message in hand.                                           *)
LEMMA HandKept ==
  ASSUME NEW m \in Messages, InHand(m),
         Underway(m) => Underway(m)',
         \A r \in Runs : Coming(r) => r \in Live',
         \A t \in Threads : thread[t].pc \in Building => thread'[t].pc \in Building,
         \A t \in Threads : Carries(t, m) => Carries(t, m)'
  PROVE  InHand(m)'
<1>1. \A r \in Runs : Coming(r) => Coming(r)'
  BY DEF Coming
<1> QED
  BY <1>1 DEF InHand

LEMMA HandStays ==
  ASSUME NEW m \in Messages, InHand(m), UNCHANGED thread, Live \subseteq Live',
         Underway(m) => Underway(m)'
  PROVE  InHand(m)'
BY HandKept DEF Coming, Carries

(* A row that was inserted just now will build its conversation.           *)
LEMMA InsertComing ==
  ASSUME TypeOK, ThreadsPresent, NEW seen, NEW text, NEW r \in Runs, Insert(seen, text, r),
         UNCHANGED thread
  PROVE  \A m \in Messages : InHand(m)'
<1>1. status[r] = "absent" /\ status'[r] = "queued"
  BY DEF Insert, NextRow, TypeOK, RowsOK
<1>2. \A t \in Threads : RunOf(t) = r => thread'[t].pc = "none"
  BY <1>1 DEF ThreadsPresent, Alive, Present, Absent
<1>3. r \in Live'
  BY <1>1 DEF Live, ActiveStatuses
<1>4. Coming(r)'
  BY <1>2, <1>3 DEF Coming, Building
<1> QED
  BY <1>4 DEF InHand

LEMMA RequestHand ==
  ASSUME TypeOK, NEW n \in Messages, NEW m \in Messages, InHand(m), UNCHANGED <<thread, status>>,
         \A k \in Messages : k # n => request'[k] = request[k],
         m = n => ~ Underway(n) \/ Underway(n)'
  PROVE  InHand(m)'
<1>1. Live \subseteq Live'
  BY DEF Live
<1>2. Underway(m) => Underway(m)'
  BY DEF Underway
<1> QED
  BY <1>1, <1>2, HandStays

LEMMA UserHand ==
  ASSUME TypeOK, ThreadsPresent, UserActs, \A k \in Unread : InHand(k), ~ Excused',
         NEW m \in Unread'
  PROVE  InHand(m)'
<1>0. m \in Messages /\ note'[m] = "plain" /\ m \notin shown' /\ m \notin passed'
  BY DEF Unread, Plain
<1>types. /\ request \in [Messages -> [pc : {"none", "sends", "inserts", "injects", "botlooks",
           "botmarks", "botinserts", "extras", "done"},
           found : Runs \cup {NoRun}, seen : SUBSET Runs]]
       /\ note \in [Messages -> {"none", "plain", "pending"}]
  BY DEF TypeOK, RequestsOK, MessagesOK
<1>1. ASSUME UNCHANGED <<note, shown, passed>> PROVE m \in Messages /\ InHand(m)
  BY <1>0, <1>1 DEF Unread, Plain
<1>2. ASSUME NEW n \in Messages, SendLooks(n) \/ BotExtras(n) \/ \E r \in Runs : InjectLooks(n, r)
      PROVE  InHand(m)'
  <2>1. UNCHANGED <<note, shown, passed, thread, status>> /\ request[n].pc \in {"none", "extras"}
    BY <1>2 DEF SendLooks, BotExtras, InjectLooks, NewSender, messages, history, rows
  <2>2. (\E pc, q : Asks(n, pc, q)) \/ Done(n)
    BY <1>2 DEF SendLooks, BotExtras, InjectLooks
  <2>3. \A k \in Messages : k # n => request'[k] = request[k]
    BY <2>2, RequestMoves
  <2>4. ~ Underway(n)
    BY <2>1 DEF Underway
  <2> QED
    BY <1>1, <2>1, <2>3, <2>4, RequestHand
<1>3. ASSUME NEW n \in Messages, SendSaves(n) \/ BotSaves(n) PROVE InHand(m)'
  <2>1. /\ UNCHANGED <<shown, passed, thread, status>>
        /\ note' = [note EXCEPT ![n] = "plain"]
        /\ \E pc \in {"inserts", "botlooks"} : Continues(n, pc)
    BY <1>3 DEF SendSaves, BotSaves, Saved, history, rows
  <2>2. \A k \in Messages : k # n => request'[k] = request[k]
    BY <2>1, RequestMoves
  <2>3. Underway(n)'
    BY <1>types, <2>1 DEF Underway, Continues
  <2>4. CASE m = n
    BY <2>3, <2>4 DEF InHand
  <2>5. CASE m # n
    <3>1. note[m] = "plain"
      BY <1>0, <1>types, <2>1, <2>5
    <3>2. InHand(m)
      BY <1>0, <2>1, <3>1 DEF Unread, Plain
    <3> QED
      BY <1>0, <2>1, <2>2, <2>5, <3>2, RequestHand
  <2> QED
    BY <2>4, <2>5
<1>4. ASSUME NEW n \in Messages, InjectSaves(n) \/ BotMarks(n) PROVE InHand(m)'
  <2>1. /\ UNCHANGED <<shown, passed, thread, status>>
        /\ note' = [note EXCEPT ![n] = "pending"]
        /\ Done(n)
    BY <1>4 DEF InjectSaves, BotMarks, Saved, history, rows
  <2>2. \A k \in Messages : k # n => request'[k] = request[k]
    BY <2>1, RequestMoves
  <2>3. m # n /\ note[m] = "plain"
    BY <1>0, <1>types, <2>1
  <2>4. InHand(m)
    BY <1>0, <2>1, <2>3 DEF Unread, Plain
  <2> QED
    BY <1>0, <2>1, <2>2, <2>3, <2>4, RequestHand
<1>5. ASSUME NEW n \in Messages, BotLooks(n) PROVE InHand(m)'
  <2>1. UNCHANGED <<note, shown, passed, thread, status>>
    BY <1>5 DEF BotLooks, messages, history, rows
  <2>2. \E pc \in {"botinserts", "botmarks"} : \E q : Asks(n, pc, q)
    BY <1>5 DEF BotLooks
  <2>3. \A k \in Messages : k # n => request'[k] = request[k]
    BY <2>2, RequestMoves
  <2>4. Underway(n)'
    BY <1>types, <2>2 DEF Underway, Asks
  <2> QED
    BY <1>1, <2>1, <2>3, <2>4, RequestHand
<1>6. ASSUME NEW n \in Messages, BotGivesUp(n) PROVE InHand(m)'
  <2>1. /\ UNCHANGED <<note, shown, thread, status>>
        /\ passed' = passed \cup {n} /\ Done(n)
    BY <1>6 DEF BotGivesUp, messages, rows
  <2>2. \A k \in Messages : k # n => request'[k] = request[k]
    BY <2>1, RequestMoves
  <2>3. m # n /\ InHand(m)
    BY <1>0, <2>1 DEF Unread, Plain
  <2> QED
    BY <1>0, <2>1, <2>2, <2>3, RequestHand
<1>7. ASSUME NEW n \in Messages, NEW r \in Runs, SendInserts(n, r) \/ BotInserts(n, r)
      PROVE  InHand(m)'
  BY <1>0, <1>7, InsertComing DEF SendInserts, BotInserts
<1>8. ASSUME NEW r \in Runs, ResumeInserts(r) PROVE InHand(m)'
  BY <1>0, <1>8, InsertComing DEF ResumeInserts
<1>9. ASSUME NEW r \in Runs, StopRun(r) PROVE FALSE
  BY <1>9 DEF StopRun, Excused, Spoiled, TypeOK, RowsOK
<1>10. ASSUME NEW r \in Runs, ResumeLooks(r) PROVE InHand(m)'
  <2>1. UNCHANGED <<note, shown, passed, thread, status, request>>
    BY <1>10 DEF ResumeLooks, messages, history, rows
  <2> QED
    BY <1>1, <2>1, HandStays DEF Live, Underway
<1> QED
  BY <1>2, <1>3, <1>4, <1>5, <1>6, <1>7, <1>8, <1>9, <1>10 DEF UserActs

LEMMA OthersHand ==
  ASSUME TypeOK, ThreadsPresent, OthersAct, \A k \in Unread : InHand(k), ~ Excused',
         NEW m \in Unread'
  PROVE  InHand(m)'
<1>0. m \in Messages /\ InHand(m)
  BY OthersMove DEF Unread, Plain
<1>1. UNCHANGED <<request, note, shown, passed>>
  BY OthersMove
<1>2. ASSUME NEW S, S \cap Runs # {}, status' = Ended(S) PROVE FALSE
  BY <1>2 DEF Ended, Excused, Spoiled
<1>3. ASSUME NEW dead \in SUBSET Runs, NEW found \in Runs \cup {NoRun}, WakeLooks(dead, found)
      PROVE  InHand(m)'
  <2>1. CASE found = NoRun /\ dead # {}
    BY <1>2, <1>3, <2>1 DEF WakeLooks
  <2>2. CASE found # NoRun \/ dead = {}
    <3>1. status' = status
      BY <1>3, <2>2 DEF WakeLooks, Ended, TypeOK, RowsOK
    <3> QED
      BY <1>0, <1>1, <1>3, <3>1, HandStays DEF WakeLooks, Live, Underway
  <2> QED
    BY <2>1, <2>2
<1>4. CASE Poll
  <2>1. Live # {} /\ Live \subseteq Runs /\ status' = Ended(Live)
    BY <1>4 DEF Poll, Live
  <2> QED
    BY <1>2, <2>1
<1>5. ASSUME NEW r \in Runs, WakeInserts(r) PROVE InHand(m)'
  <2>1. status[r] = "absent" /\ status'[r] = "queued"
        /\ thread' = [thread EXCEPT ![<<r, "own">>].pc = "begins"]
    BY <1>5 DEF WakeInserts, NextRow
  <2>2. \A t \in Threads : RunOf(t) = r => thread[t].pc = "none"
    BY <2>1 DEF ThreadsPresent, Alive, Present, Absent
  <2>3. \A t \in Threads : RunOf(t) = r => thread'[t].pc \in {"none", "begins"}
    BY <2>1, <2>2 DEF TypeOK, ThreadsOK
  <2>4. r \in Live'
    BY <2>1 DEF Live, ActiveStatuses
  <2>5. Coming(r)'
    BY <2>3, <2>4 DEF Coming, Building
  <2> QED
    BY <2>5 DEF InHand
<1> QED
  BY <1>3, <1>4, <1>5 DEF OthersAct

(* A thread that moves on and keeps what it carries, and the rows alive.   *)
LEMMA MoveHand ==
  ASSUME NEW t \in Threads, NEW m \in Messages, InHand(m),
         \A u \in Threads : u # t => thread'[u] = thread[u], UNCHANGED request,
         \A r \in Runs : Coming(r) => r \in Live',
         thread[t].pc \in Building => thread'[t].pc \in Building,
         Carries(t, m) => Carries(t, m)'
  PROVE  InHand(m)'
<1>1. \A u \in Threads : thread[u].pc \in Building => thread'[u].pc \in Building
  OBVIOUS
<1>2. \A u \in Threads : Carries(u, m) => Carries(u, m)'
  BY DEF Carries
<1> QED
  BY <1>1, <1>2, HandKept DEF Underway

(* The end of a run: nobody loses a message if the row completes.          *)
LEMMA EndHand ==
  ASSUME TypeOK, ThreadsPresent, StopsEnd, ~ Excused, ~ Excused', NEW t \in Threads,
         \/ Refuses(t) \/ Stops(t) \/ Fails(t) \/ Completes(t) \/ LoadFails(t),
         NEW m \in Messages, InHand(m)
  PROVE  InHand(m)'
<1>0. /\ thread[t].pc \in {"begins", "turn", "completes", "top"} /\ Alive(t)
      /\ thread' = [thread EXCEPT ![t] = NoThread] /\ UNCHANGED request
  BY DEF Refuses, Stops, Fails, Completes, Ends, LoadFails, Alive, users
<1>1. RunOf(t) \in Runs /\ status[RunOf(t)] # "absent"
  BY <1>0, ThreadInRows DEF ThreadsPresent, Present, Absent
<1>2. ~ stop[RunOf(t)] /\ status[RunOf(t)] \notin Spoiled /\ status'[RunOf(t)] \notin Spoiled
  BY <1>1 DEF StopsEnd, Excused
<1>3. status[RunOf(t)] \in {"queued", "running", "completed"}
  BY <1>1, <1>2 DEF TypeOK, RowsOK, KnownStatuses, ActiveStatuses, TerminalStatuses, Spoiled
<1>4. ASSUME NEW new, status' = [status EXCEPT ![RunOf(t)] = new],
             \/ ValidTransition(status[RunOf(t)], "error") /\ new = "error"
             \/ ~ ValidTransition(status[RunOf(t)], "error") /\ new = status[RunOf(t)]
      PROVE  UNCHANGED status
  <2>1. status'[RunOf(t)] = new
    BY <1>1, <1>4 DEF TypeOK, RowsOK
  <2>2. new = status[RunOf(t)]
    BY <1>2, <1>4, <2>1 DEF Spoiled
  <2> QED
    BY <1>1, <1>4, <2>2 DEF TypeOK, RowsOK
<1>5. CASE Refuses(t) \/ Stops(t)
  BY <1>2, <1>5 DEF Refuses, Stops
<1>6. ASSUME thread[t].pc \in {"begins", "turn"}, UNCHANGED status PROVE InHand(m)'
  <2>1. \A u \in Threads : u # t => thread'[u] = thread[u]
    BY <1>0 DEF TypeOK, ThreadsOK
  <2>2. thread'[t].pc = "none"
    BY <1>0 DEF TypeOK, ThreadsOK, NoThread
  <2>3. ~ Carries(t, m)
    BY <1>6 DEF Carries
  <2>4. \A r \in Runs : Coming(r) => r \in Live'
    BY <1>6 DEF Coming, Live
  <2> QED
    BY <1>0, <2>1, <2>2, <2>3, <2>4, MoveHand DEF Building
<1>7. CASE Fails(t)
  <2>1. status' = [status EXCEPT ![RunOf(t)] = Written(RunOf(t), "error")]
    BY <1>7 DEF Fails, Ends, SetStatus
  <2>2. \/ ValidTransition(status[RunOf(t)], "error") /\ Written(RunOf(t), "error") = "error"
        \/ /\ ~ ValidTransition(status[RunOf(t)], "error")
           /\ Written(RunOf(t), "error") = status[RunOf(t)]
    BY <1>2 DEF Written
  <2> QED
    BY <1>4, <1>6, <1>7, <2>1, <2>2 DEF Fails
<1>8. CASE LoadFails(t)
  <2>1. PICK new : /\ status' = [status EXCEPT ![RunOf(t)] = new]
                   /\ \/ ValidTransition(status[RunOf(t)], "error") /\ new = "error"
                      \/ ~ ValidTransition(status[RunOf(t)], "error") /\ new = status[RunOf(t)]
    BY <1>1, <1>8 DEF LoadFails, TypeOK, RowsOK
  <2> QED
    BY <1>4, <1>6, <1>8, <2>1 DEF LoadFails
<1>9. CASE Completes(t)
  <2>1. thread[t].pc = "completes" /\ ~ Coming(RunOf(t)) /\ ~ Carries(t, m)
    BY <1>9 DEF Completes, Coming, Building, Carries
  <2>2. \A s \in Runs : s # RunOf(t) => status'[s] = status[s]
    BY <1>9 DEF Completes, Ends, SetStatus, TypeOK, RowsOK
  <2>3. \A r \in Runs : Coming(r) => r \in Live'
    BY <2>1, <2>2 DEF Coming, Live
  <2>4. \A u \in Threads : u # t => thread'[u] = thread[u]
    BY <1>0 DEF TypeOK, ThreadsOK
  <2> QED
    BY <1>0, <2>1, <2>3, <2>4, MoveHand DEF Building
<1> QED
  BY <1>5, <1>7, <1>8, <1>9

(* A thread in the middle of its run.                                      *)
LEMMA TurnHand ==
  ASSUME TypeOK, \A k \in Unread : InHand(k), NEW t \in Threads,
         \/ Begins(t) \/ Builds(t) \/ OutOfSteps(t) \/ Reads(t) \/ Takes(t) \/ Tools(t)
         \/ NoProgress(t) \/ Answers(t) \/ Again(t),
         NEW m \in Unread'
  PROVE  InHand(m)'
<1>0. m \in Messages /\ note'[m] = "plain" /\ m \notin shown' /\ m \notin passed'
  BY DEF Unread, Plain
<1>1. thread \in [Threads -> ThreadRecord]
  BY DEF TypeOK, ThreadsOK, ThreadRecord
<1>2. UNCHANGED request /\ shown \subseteq shown' /\ passed \subseteq passed'
  BY DEF Begins, Builds, OutOfSteps, Reads, Takes, Tools, NoProgress, Answers, Again, users,
     history, Asked
<1>3. \A u \in Threads : u # t => thread'[u] = thread[u]
  BY <1>1 DEF Begins, Builds, OutOfSteps, Reads, Takes, Tools, NoProgress, Answers, Again,
     Moves, Asked, With
<1>4. ASSUME note[m] = "plain" PROVE InHand(m)
  BY <1>0, <1>2, <1>4 DEF Unread, Plain
<1>5. ASSUME InHand(m), UNCHANGED status, thread[t].pc \notin Building,
             Carries(t, m) => Carries(t, m)'
      PROVE  InHand(m)'
  <2>1. \A r \in Runs : Coming(r) => r \in Live'
    BY <1>5 DEF Coming, Live
  <2> QED
    BY <1>0, <1>2, <1>3, <1>5, <2>1, MoveHand
<1>6. CASE Begins(t)
  <2>1. thread[t].pc = "begins" /\ UNCHANGED note
    BY <1>6 DEF Begins, messages
  <2>2. PICK p : thread' = [thread EXCEPT ![t].pc = "builds", ![t].prompt = p]
    BY <1>6 DEF Begins
  <2>3. thread'[t].pc = "builds"
    BY <1>1, <2>2 DEF ThreadRecord
  <2>4. status' = [status EXCEPT ![RunOf(t)] = Written(RunOf(t), "running")]
        /\ Written(RunOf(t), "running") \in {"running", status[RunOf(t)]}
    BY <1>6 DEF Begins, SetStatus, Written
  <2>5. \A r \in Runs : Coming(r) => r \in Live'
    BY <2>4 DEF Coming, Live, TypeOK, RowsOK, ActiveStatuses
  <2>6. ~ Carries(t, m) /\ InHand(m)
    BY <1>0, <1>4, <2>1 DEF Carries
  <2> QED
    BY <1>0, <1>2, <1>3, <2>3, <2>5, <2>6, MoveHand DEF Building
<1>7. CASE Builds(t)
  <2> DEFINE over == IF thread[t].prompt = NoMsg THEN {} ELSE Latest(Plain)
             new == IF over = {} THEN {} ELSE {thread[t].prompt}
             convo == (Plain \ over) \cup new
  <2>1. /\ thread' = [thread EXCEPT ![t].pc = "top", ![t].convo = convo]
        /\ passed' = passed \cup (over \ new) /\ UNCHANGED note
    BY <1>7 DEF Builds, messages
  <2>2. m \in Plain
    BY <1>0, <2>1 DEF Plain
  <2>3. m \in convo
    BY <1>0, <2>1, <2>2
  <2> HIDE DEF convo
  <2>4. thread'[t].pc = "top" /\ thread'[t].convo = convo
    BY <1>1, <2>1 DEF ThreadRecord
  <2>5. Carries(t, m)'
    BY <2>3, <2>4 DEF Carries
  <2> QED
    BY <2>5 DEF InHand
<1>8. CASE OutOfSteps(t)
  <2>1. /\ thread[t].pc = "top" /\ UNCHANGED <<note, status, shown>>
        /\ passed' = passed \cup (thread[t].convo \ shown)
    BY <1>8 DEF OutOfSteps, messages, rows
  <2>2. ~ Carries(t, m)
    BY <1>0, <2>1 DEF Carries
  <2> QED
    BY <1>0, <1>4, <1>5, <2>1, <2>2 DEF Building
<1>9. CASE Reads(t)
  <2>1. thread[t].pc = "top" /\ UNCHANGED <<note, status>>
    BY <1>9 DEF Reads, messages, rows
  <2>2. CASE Pending = {}
    <3>1. shown' = shown \cup thread[t].convo
      BY <1>9, <2>2 DEF Reads, Asked
    <3>2. ~ Carries(t, m)
      BY <1>0, <3>1 DEF Carries
    <3> QED
      BY <1>0, <1>4, <1>5, <2>1, <3>2 DEF Building
  <2>3. CASE Pending # {}
    <3>1. thread' = [thread EXCEPT ![t].pc = "takes", ![t].got = Pending, ![t].steps = @ + 1]
      BY <1>9, <2>3 DEF Reads
    <3>2. thread'[t].pc = "takes" /\ thread'[t].convo = thread[t].convo
      BY <1>1, <3>1 DEF ThreadRecord
    <3>3. Carries(t, m) => Carries(t, m)'
      BY <3>2 DEF Carries
    <3> QED
      BY <1>0, <1>4, <1>5, <2>1, <3>3 DEF Building
  <2> QED
    BY <2>2, <2>3
<1>10. CASE Takes(t)
  <2>1. /\ thread[t].pc = "takes" /\ UNCHANGED status /\ Untag(thread[t].got)
        /\ shown' = shown \cup (thread[t].convo \cup thread[t].got)
    BY <1>10 DEF Takes, Asked, Heard, rows
  <2>2. m \notin thread[t].got /\ ~ Carries(t, m)
    BY <1>0, <2>1 DEF Carries
  <2>3. note[m] = "plain"
    BY <1>0, <2>1, <2>2, Untagged
  <2> QED
    BY <1>4, <1>5, <2>1, <2>2, <2>3 DEF Building
<1>11. CASE Tools(t) \/ NoProgress(t) \/ Answers(t)
  <2>1. thread[t].pc = "turn" /\ UNCHANGED <<note, status>>
    BY <1>11 DEF Tools, NoProgress, Answers, messages, rows
  <2>2. ~ Carries(t, m)
    BY <2>1 DEF Carries
  <2> QED
    BY <1>0, <1>4, <1>5, <2>1, <2>2 DEF Building
<1>12. CASE Again(t)
  <2>1. /\ thread[t].pc = "again" /\ UNCHANGED status /\ Untag(thread[t].got)
        /\ thread' = With(t, "top", Heard(t), thread[t].steps)
    BY <1>12 DEF Again, rows
  <2>2. thread'[t].pc = "top" /\ thread[t].got \subseteq thread'[t].convo
    BY <1>1, <2>1 DEF With, Heard
  <2>3. CASE m \in thread[t].got
    BY <2>2, <2>3 DEF InHand, Carries
  <2>4. CASE m \notin thread[t].got
    <3>1. note[m] = "plain" /\ ~ Carries(t, m)
      BY <1>0, <2>1, <2>4, Untagged DEF Carries
    <3> QED
      BY <1>4, <1>5, <2>1, <3>1 DEF Building
  <2> QED
    BY <2>3, <2>4
<1> QED
  BY <1>6, <1>7, <1>8, <1>9, <1>10, <1>11, <1>12

LEMMA ThreadsHand ==
  ASSUME TypeOK, UnreadInv, ~ Excused, ~ Excused', NEW t \in Threads, Steps(t) \/ LoadFails(t),
         NEW m \in Unread'
  PROVE  InHand(m)'
<1>1. CASE Refuses(t) \/ Stops(t) \/ Fails(t) \/ Completes(t) \/ LoadFails(t)
  <2>1. UNCHANGED <<note, shown, passed>>
    BY <1>1 DEF Refuses, Stops, Fails, Completes, Ends, LoadFails, messages, history
  <2>2. m \in Messages /\ InHand(m)
    BY <2>1 DEF UnreadInv, Unread, Plain
  <2> QED
    BY <1>1, <2>2, EndHand DEF UnreadInv
<1>2. CASE ~ (Refuses(t) \/ Stops(t) \/ Fails(t) \/ Completes(t) \/ LoadFails(t))
  BY <1>2, TurnHand DEF Steps, UnreadInv
<1> QED
  BY <1>1, <1>2

LEMMA QueueHand ==
  ASSUME TypeOK, \A k \in Unread : InHand(k), NEW r \in Runs, Claim(r) \/ Reap(r),
         NEW m \in Unread'
  PROVE  InHand(m)'
<1>0. m \in Messages /\ InHand(m) /\ UNCHANGED request
  BY QueueMoves DEF Unread, Plain
<1>1. Live \subseteq Live'
  BY DEF Claim, Reap, Live, TypeOK, RowsOK, ActiveStatuses
<1>2. CASE Reap(r)
  BY <1>0, <1>1, <1>2, HandStays DEF Reap, Underway
<1>3. CASE Claim(r)
  <2> DEFINE t == <<r, "pool">>
  <2>1. t \in Threads /\ thread[t].pc = "none" /\ thread' = [thread EXCEPT ![t].pc = "begins"]
    BY <1>3 DEF Claim, Moves, Alive, Threads
  <2> HIDE DEF t
  <2>2. /\ \A u \in Threads : u # t => thread'[u] = thread[u]
        /\ thread'[t].pc = "begins"
    BY <2>1 DEF TypeOK, ThreadsOK
  <2>3. ~ Carries(t, m)
    BY <2>1 DEF Carries
  <2>4. \A s \in Runs : Coming(s) => s \in Live'
    BY <1>1 DEF Coming
  <2> QED
    BY <1>0, <2>1, <2>2, <2>3, <2>4, MoveHand DEF Building
<1> QED
  BY <1>2, <1>3

LEMMA BackstopHand ==
  ASSUME TypeOK, ThreadsPresent, \A k \in Unread : InHand(k), ~ Excused',
         NEW c \in Callers, Looks(c) \/ Crash(c), NEW m \in Unread'
  PROVE  InHand(m)'
<1>0. m \in Messages
  BY DEF Unread, Plain
<1>1. CASE BackstopLooks(c) \/ BackstopReads(c)
  <2>1. UNCHANGED <<note, shown, passed, status, thread, request>>
    BY <1>1 DEF BackstopLooks, BackstopReads, messages, history, rows, users
  <2>2. InHand(m)
    BY <2>1 DEF Unread, Plain
  <2> QED
    BY <1>0, <2>1, <2>2, HandStays DEF Live, Underway
<1>2. ASSUME NEW r \in Runs, BackstopAdopts(c, r) PROVE InHand(m)'
  BY <1>0, <1>2, InsertComing DEF BackstopAdopts
<1>3. CASE Crash(c)
  <2>1. "cut" \notin lapses' /\ UNCHANGED status
    BY <1>3 DEF Excused, Crash, rows
  <2>2. c \in Threads /\ RunOf(c) \in Live /\ ThreadsOf(RunOf(c)) = {c}
    BY <1>3, <2>1 DEF Crash
  <2>3. \A t \in Threads : RunOf(t) = RunOf(c) => thread'[t].pc = "none"
    BY <1>3, <2>2 DEF Crash, ThreadsOf, Alive, NoThread
  <2>4. Coming(RunOf(c))'
    BY <2>1, <2>2, <2>3 DEF Coming, Building, Live
  <2> QED
    BY <2>2, <2>4 DEF InHand, Live
<1> QED
  BY <1>1, <1>2, <1>3 DEF Looks

LEMMA NextHand ==
  ASSUME TypeOK, UnreadInv, [Next]_vars
  PROVE  Excused' \/ \A m \in Unread' : InHand(m)'
<1> SUFFICES ASSUME ~ Excused', NEW m \in Unread' PROVE InHand(m)'
  OBVIOUS
<1>1. ~ Excused /\ \A k \in Unread : InHand(k)
  BY ExcusedStays DEF UnreadInv
<1>2. ThreadsPresent /\ StopsEnd
  BY DEF UnreadInv
<1>3. CASE UNCHANGED vars
  <2>1. UNCHANGED <<note, shown, passed, status, thread, request>>
    BY <1>3 DEF vars, messages, history, rows, users
  <2>2. m \in Messages /\ InHand(m)
    BY <1>1, <2>1 DEF Unread, Plain
  <2> QED
    BY <2>1, <2>2, HandStays DEF Live, Underway
<1>4. CASE UserActs
  BY <1>1, <1>2, <1>4, UserHand
<1>5. CASE OthersAct
  BY <1>1, <1>2, <1>5, OthersHand
<1>6. ASSUME NEW r \in Runs, Claim(r) \/ Reap(r) PROVE InHand(m)'
  BY <1>1, <1>6, QueueHand
<1>7. ASSUME NEW t \in Threads, Steps(t) \/ LoadFails(t) PROVE InHand(m)'
  BY <1>1, <1>7, ThreadsHand
<1>8. ASSUME NEW c \in Callers, Looks(c) \/ Crash(c) PROVE InHand(m)'
  BY <1>1, <1>2, <1>8, BackstopHand
<1> QED
  BY <1>3, <1>4, <1>5, <1>6, <1>7, <1>8 DEF Next

(* The other three parts.                                                  *)
LEMMA StopMoves ==
  ASSUME TypeOK, [Next]_vars
  PROVE  /\ \/ UNCHANGED stop
            \/ \E r \in Runs : StopRun(r) \/ WakeInserts(r)
         /\ \/ waking' = waking \/ waking' = NotWaking
            \/ \E dead \in SUBSET Runs, found \in Runs \cup {NoRun} : WakeLooks(dead, found)
<1>1. CASE UserActs
  <2>1. ASSUME NEW m \in Messages,
             \/ SendLooks(m) \/ SendSaves(m) \/ InjectSaves(m) \/ BotSaves(m)
             \/ BotLooks(m) \/ BotMarks(m) \/ BotExtras(m) \/ BotGivesUp(m)
             \/ \E r \in Runs : SendInserts(m, r) \/ InjectLooks(m, r) \/ BotInserts(m, r)
        PROVE  UNCHANGED <<stop, waking>>
    BY <2>1 DEF SendLooks, SendSaves, InjectSaves, BotSaves, BotLooks, BotMarks, BotExtras,
       BotGivesUp, SendInserts, InjectLooks, BotInserts, Insert, rows
  <2>2. ASSUME NEW r \in Runs, ResumeLooks(r) \/ ResumeInserts(r)
        PROVE  UNCHANGED <<stop, waking>>
    BY <2>2 DEF ResumeLooks, ResumeInserts, Insert, rows
  <2>3. ASSUME NEW r \in Runs, StopRun(r) PROVE UNCHANGED waking
    BY <2>3 DEF StopRun, users
  <2> QED
    BY <1>1, <2>1, <2>2, <2>3 DEF UserActs
<1>2. CASE OthersAct
  <2>1. ASSUME NEW dead, NEW found, WakeLooks(dead, found) PROVE UNCHANGED stop
    BY <2>1 DEF WakeLooks
  <2>2. ASSUME NEW r \in Runs, WakeInserts(r) PROVE waking' = NotWaking
    BY <2>2 DEF WakeInserts
  <2>3. Poll => UNCHANGED <<stop, waking>>
    BY DEF Poll, users
  <2> QED
    BY <1>2, <2>1, <2>2, <2>3 DEF OthersAct
<1>3. ASSUME NEW r \in Runs, Claim(r) \/ Reap(r) PROVE UNCHANGED <<stop, waking>>
  BY <1>3 DEF Claim, Reap, users
<1>4. ASSUME NEW t \in Threads, Steps(t) \/ LoadFails(t) PROVE UNCHANGED <<stop, waking>>
  <2>1. CASE Refuses(t) \/ Stops(t) \/ Fails(t) \/ Completes(t) \/ LoadFails(t) \/ Begins(t)
    BY <2>1 DEF Refuses, Stops, Fails, Completes, Ends, LoadFails, Begins, SetStatus, users
  <2>2. CASE Builds(t) \/ OutOfSteps(t) \/ Reads(t) \/ Takes(t) \/ Tools(t) \/ NoProgress(t)
             \/ Answers(t) \/ Again(t)
    BY <2>2 DEF Builds, OutOfSteps, Reads, Takes, Tools, NoProgress, Answers, Again, rows, users
  <2> QED
    BY <1>4, <2>1, <2>2 DEF Steps
<1>5. ASSUME NEW c \in Callers, Looks(c) \/ Crash(c) PROVE UNCHANGED <<stop, waking>>
  BY <1>5 DEF Looks, BackstopLooks, BackstopReads, BackstopAdopts, Insert, Crash, rows, users
<1>6. UNCHANGED vars => UNCHANGED <<stop, waking>>
  BY DEF vars, rows, users
<1> QED
  BY <1>1, <1>2, <1>3, <1>4, <1>5, <1>6 DEF Next

LEMMA NextStopsEnd ==
  ASSUME TypeOK, StopsEnd, FoundPresent, [Next]_vars
  PROVE  StopsEnd'
<1>1. CASE UNCHANGED stop
  BY <1>1, RowSteps DEF StopsEnd, RowStays
<1>2. ASSUME NEW r \in Runs, StopRun(r) PROVE StopsEnd'
  BY <1>2 DEF StopRun, StopsEnd, Spoiled, TypeOK, RowsOK
<1>3. ASSUME NEW r \in Runs, WakeInserts(r) PROVE StopsEnd'
  <2>1. /\ status[r] = "absent"
        /\ stop' = [s \in Runs |-> stop[s] \/ s = waking.found]
        /\ \A s \in Runs : s # r /\ s = waking.found => status'[s] = "stopped"
    BY <1>3 DEF WakeInserts, NextRow
  <2>2. waking.found # r
    BY <2>1, RunsAssumption DEF FoundPresent, Present, Absent
  <2>3. \A s \in Runs : stop[s] => status'[s] \in Spoiled
    BY RowSteps DEF StopsEnd, RowStays
  <2> QED
    BY <2>1, <2>2, <2>3 DEF StopsEnd, Spoiled
<1> QED
  BY <1>1, <1>2, <1>3, StopMoves

LEMMA NextFoundPresent ==
  ASSUME TypeOK, FoundPresent, [Next]_vars
  PROVE  FoundPresent'
<1>1. ASSUME waking' = waking PROVE FoundPresent'
  BY <1>1, PresentGrows DEF FoundPresent
<1>2. ASSUME waking' = NotWaking PROVE FoundPresent'
  BY <1>2 DEF FoundPresent, NotWaking
<1>3. ASSUME NEW dead \in SUBSET Runs, NEW found \in Runs \cup {NoRun}, WakeLooks(dead, found)
      PROVE  FoundPresent'
  <2>1. waking'.found = found /\ (found # NoRun => found \in Live)
    BY <1>3 DEF WakeLooks, LooksDead
  <2>2. Live \subseteq Present
    BY DEF Live, Present, Absent, ActiveStatuses
  <2> QED
    BY <2>1, <2>2, PresentGrows DEF FoundPresent
<1> QED
  BY <1>1, <1>2, <1>3, StopMoves

LEMMA ThreadStarts ==
  ASSUME TypeOK, [Next]_vars, NEW t \in Threads, thread'[t].pc # "none"
  PROVE  Alive(t) \/ Claim(RunOf(t)) \/ WakeInserts(RunOf(t))
<1>0. thread \in [Threads -> ThreadRecord]
  BY DEF TypeOK, ThreadsOK, ThreadRecord
<1>1. UNCHANGED thread => Alive(t)
  BY DEF Alive
<1>2. ASSUME NEW r \in Runs, NEW k \in {"pool", "own"},
             thread' = [thread EXCEPT ![<<r, k>>].pc = "begins"]
      PROVE  Alive(t) \/ RunOf(t) = r
  BY <1>0, <1>2 DEF Alive, RunOf, ThreadRecord, Threads
<1>3. CASE UserActs
  BY <1>1, <1>3, UserMoves
<1>4. CASE OthersAct
  <2>1. ASSUME NEW dead, NEW found, WakeLooks(dead, found) PROVE UNCHANGED thread
    BY <2>1 DEF WakeLooks
  <2>2. Poll => UNCHANGED thread
    BY DEF Poll
  <2>3. ASSUME NEW r \in Runs, WakeInserts(r) PROVE Alive(t) \/ RunOf(t) = r
    BY <1>2, <2>3 DEF WakeInserts
  <2> QED
    BY <1>1, <1>4, <2>1, <2>2, <2>3 DEF OthersAct
<1>5. ASSUME NEW r \in Runs, Claim(r) PROVE Alive(t) \/ RunOf(t) = r
  BY <1>2, <1>5 DEF Claim, Moves
<1>6. ASSUME NEW r \in Runs, Reap(r) PROVE UNCHANGED thread
  BY <1>6 DEF Reap
<1>7. ASSUME NEW u \in Threads, Steps(u) \/ LoadFails(u) PROVE Alive(t)
  <2>1. Alive(u)
    BY <1>7 DEF Steps, Refuses, Begins, Builds, OutOfSteps, Stops, Reads, Takes, Tools, Fails,
       NoProgress, Answers, Again, Completes, LoadFails, Alive
  <2>2. CASE Refuses(u) \/ Stops(u) \/ Fails(u) \/ Completes(u) \/ LoadFails(u)
    BY <1>0, <2>1, <2>2 DEF Refuses, Stops, Fails, Completes, Ends, LoadFails, Alive
  <2>3. CASE Begins(u) \/ Builds(u) \/ OutOfSteps(u) \/ Reads(u) \/ Takes(u) \/ Tools(u)
             \/ NoProgress(u) \/ Answers(u) \/ Again(u)
    BY <1>0, <2>1, <2>3 DEF Begins, Builds, OutOfSteps, Reads, Takes, Tools, NoProgress,
       Answers, Again, Moves, Asked, With, Alive
  <2> QED
    BY <1>7, <2>2, <2>3 DEF Steps
<1>8. ASSUME NEW c \in Callers, Looks(c) \/ Crash(c) PROVE Alive(t)
  BY <1>8 DEF Looks, BackstopLooks, BackstopReads, BackstopAdopts, Crash, NoThread, Alive
<1>9. CASE UNCHANGED vars
  BY <1>1, <1>9 DEF vars
<1> QED
  BY <1>1, <1>3, <1>4, <1>5, <1>6, <1>7, <1>8, <1>9 DEF Next, OthersAct

LEMMA NextThreadsPresent ==
  ASSUME TypeOK, ThreadsPresent, [Next]_vars
  PROVE  ThreadsPresent'
<1> SUFFICES ASSUME NEW t \in Threads, thread'[t].pc # "none" PROVE RunOf(t) \in Present'
  BY DEF ThreadsPresent, Alive
<1>1. CASE Alive(t)
  BY <1>1, PresentGrows DEF ThreadsPresent
<1>2. CASE Claim(RunOf(t)) \/ WakeInserts(RunOf(t))
  BY <1>2, ThreadInRows DEF Claim, WakeInserts, Present, Absent, TypeOK, RowsOK
<1> QED
  BY <1>1, <1>2, ThreadStarts

LEMMA NextUnread ==
  ASSUME TypeOK, UnreadInv, [Next]_vars
  PROVE  UnreadInv'
<1>1. ThreadsPresent' /\ StopsEnd' /\ FoundPresent'
  BY NextThreadsPresent, NextStopsEnd, NextFoundPresent DEF UnreadInv
<1> QED
  BY <1>1, NextHand DEF UnreadInv

LEMMA InitUnread == Init => UnreadInv
BY DEF Init, UnreadInv, ThreadsPresent, Alive, NoThread, StopsEnd, FoundPresent, NotWaking,
   Unread, Plain

(* When the conversation is quiet, every message of its history has been   *)
(* in front of the model: a run that builds its history reads or passes    *)
(* each of them, and a crash queues the run again.                         *)
THEOREM HistoryIsRead == Spec => []NothingLeftUnread
<1>1. UnreadInv => NothingLeftUnread
  <2> SUFFICES ASSUME UnreadInv, Quiet, ~ Excused PROVE Plain \subseteq shown \cup passed
    BY DEF NothingLeftUnread, Excused, Spoiled
  <2>1. \A m \in Messages : ~ InHand(m)
    BY DEF Quiet, InHand, Underway, Coming, Carries, Alive
  <2> QED
    BY <2>1 DEF UnreadInv, Unread, Plain
<1>2. TypeOK /\ UnreadInv /\ [Next]_vars => UnreadInv'
  BY NextUnread
<1> QED
  BY <1>1, <1>2, InitUnread, TypeCorrect, PTL DEF Spec
=============================================================================
