--------------------------- MODULE MCChatSession ---------------------------
(* Two messages and one event: enough for a run, the message injected into *)
(* it and everything that may cross with the two.                          *)
EXTENDS ChatSession

MCRuns == 1 .. 4
MCMessages == 1 .. 2

MCBudget(clients, bots) ==
  [clients |-> clients, bots |-> bots, wakes |-> 0, doubles |-> 0, stops |-> 0,
   resumes |-> 0, faults |-> 0]
OneMessage  == { MCBudget(1, 0), MCBudget(0, 1) }
TwoMessages == { MCBudget(2, 0), MCBudget(1, 1), MCBudget(0, 2) }

MCBudgets ==
  UNION { { [b EXCEPT !.faults = 1], [b EXCEPT !.stops = 1] } : b \in TwoMessages }
  \cup { [b EXCEPT !.stops = 1, !.resumes = 1] : b \in OneMessage }
  \cup { [b EXCEPT !.wakes = 1, !.doubles = 1] : b \in OneMessage }
  \cup { [MCBudget(2, 0) EXCEPT !.wakes = 1] }
=============================================================================
