-------------------------- MODULE MCTaskScheduler --------------------------
(* Two tasks of one AI, days of two moments and weeks of two days.         *)
EXTENDS TaskScheduler

MCPriority == [j \in Jobs |-> j]

Plan(loop, mode, max, until) ==
  [enabled |-> loop, loop |-> loop, mode |-> mode, now |-> FALSE, every |-> 1, hour |-> 1,
   days |-> {1}, rounds |-> max, done |-> 0, until |-> until, at |-> NoTime]
Once == Plan(FALSE, "interval", 0, NoTime)
Interval == Plan(TRUE, "interval", 2, NoTime)
Daily3 == Plan(TRUE, "daily", 3, 3)
Weekly2 == Plan(TRUE, "weekly", 2, NoTime)

Scenario(first, tasks, commands, chats, crashes) ==
  [plans |-> [j \in Jobs |-> IF j = 1 THEN first ELSE Once],
   budget |-> [kind \in Kinds |->
                 CASE kind = "tasks" -> tasks [] kind = "commands" -> commands
                   [] kind = "chats" -> chats [] kind = "crashes" -> crashes]]

MCScenarios ==
  {Scenario(Once, 1, 2, 0, 0), Scenario(Once, 2, 1, 0, 0), Scenario(Once, 2, 0, 1, 0),
   Scenario(Once, 2, 0, 0, 1), Scenario(Interval, 1, 1, 0, 0), Scenario(Daily3, 1, 0, 1, 1), Scenario(Weekly2, 2, 0, 0, 0)}
=============================================================================
