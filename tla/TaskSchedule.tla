---------------------------- MODULE TaskSchedule ----------------------------
(***************************************************************************)
(* When a task is due and when the next round of a recurring task begins.  *)
(* A time is a number of moments, Day of them make a day; the time zone    *)
(* and its changes are left out.  A schedule is as normalize_schedule      *)
(* leaves it: a daily or weekly one has its time of day and its days.      *)
(***************************************************************************)
EXTENDS Integers

CONSTANTS
  Day,      \* moments of a day
  Week,     \* days of a week, 7 in the code
  NoTime    \* stands for NULL

ASSUME ClockAssumption ==
  /\ Day \in Nat \ {0} /\ Week \in Nat \ {0}
  /\ NoTime \notin Nat

\* every: duration_minutes, hour: daily_time, days: weekly_days, rounds:
\* max_runs with 0 for no limit, until: end_at, at: schedule_at
Schedules ==
  {s \in [enabled : BOOLEAN, loop : BOOLEAN, mode : {"interval", "daily", "weekly"},
          now : BOOLEAN, every : Nat \ {0}, hour : 0 .. Day - 1, days : SUBSET (0 .. Week - 1),
          rounds : Nat, done : Nat, until : Nat \cup {NoTime}, at : Nat \cup {NoTime}] :
     s.mode = "weekly" => s.days # {}}

Weekday(t) == (t \div Day) % Week
Midnight(t) == t - (t % Day)

Earliest(S) == {x \in S : \A y \in S : x <= y}

\* Mutant: the occurrence that is due right now is found again.
DailyAgain(s, t) ==
  LET today == Midnight(t) + s.hour IN IF today < t THEN today + Day ELSE today

Daily(s, t) ==
  LET today == Midnight(t) + s.hour IN IF today <= t THEN today + Day ELSE today

\* This weekday may come up again in a week, hence the offset of a week.
Weekly(s, t) ==
  LET candidates == {Midnight(t) + s.hour + k * Day : k \in 0 .. Week}
  IN Earliest({c \in candidates : Weekday(c) \in s.days /\ c > t})

next_loop_occurrence(s, t) ==
  IF s.mode = "daily" THEN Daily(s, t)
  ELSE IF s.mode = "weekly" /\ Weekly(s, t) # {} THEN CHOOSE c \in Weekly(s, t) : TRUE
  ELSE t + s.every

\* What a task is created with.
finalize_schedule(s, t) ==
  IF ~ s.enabled THEN [s EXCEPT !.at = NoTime]
  ELSE IF s.now THEN [s EXCEPT !.at = t]
  ELSE IF ~ (s.loop /\ s.mode \in {"daily", "weekly"}) /\ s.at # NoTime THEN s
  ELSE [s EXCEPT !.at = next_loop_occurrence(s, t)]

\* Whether a round that has just been completed is followed by another.
Renewable(s, t) ==
  /\ s.enabled /\ s.loop
  /\ s.rounds > 0 => s.done + 1 < s.rounds
  /\ s.until # NoTime => next_loop_occurrence(s, t) <= s.until

build_next_loop_schedule(s, t) ==
  [s EXCEPT !.now = FALSE, !.done = @ + 1, !.at = next_loop_occurrence(s, t)]

is_time_ready(s, t) == s.enabled => t >= s.at
=============================================================================
