------------------------------- MODULE Workdays -------------------------------
(***************************************************************************)
(* Closing working days (src/routes/tasks.py, src/db/tasks.py): ending a   *)
(* day closes every earlier day the user left open, the oldest first, and  *)
(* rolls what is not done to the next working day that is not closed.      *)
(* Each day is closed in three transactions: the day is recorded, the      *)
(* closed days are read back, the tasks are moved.  A user may have several *)
(* requests in flight; a day is recorded for one user only.                *)
(***************************************************************************)
EXTENDS Integers, FiniteSets, FiniteSetsExt

CONSTANTS Users, Items,
          Tabs,        \* the user's windows, each with one request in flight
          UserOf,      \* [Tabs -> Users]
          Owner,       \* [Items -> Users]
          Week,        \* [Users -> SUBSET (0..7)]: the work_week preference
          LastDay,     \* bound: days in which tasks are created and days ended
          FirstWeekday,\* ISO weekday of day 1
          Horizon,     \* days looked ahead: 14 in the code
          MaxAsked     \* bound: requests of the users

Days == 1 .. LastDay
Dates == 1 .. LastDay + Horizon

VARIABLES date,    \* tasks.date
          done,    \* whether tasks.status is 'done'
          ended,   \* task_ended_days: the days with a row, and whose it is
          tab,     \* the request of each window
          rolled,  \* history: items last moved by ending a day, to another day
          closed,  \* history: <<user, day>> whose ending was answered
          lapsed,  \* history: <<user, day>> that when last ended was another's,
                   \* or that the user opened again since
          late,    \* history: windows about to move tasks to a day that another
                   \* window of the user has recorded since they read the days
          asked

history == <<rolled, closed, lapsed, late>>
vars == <<date, done, ended, tab, history, asked>>

Idle == [at |-> "idle"]
Mine(u) == {i \in Items : Owner[i] = u}
EndedOf(u) == {d \in DOMAIN ended : ended[d] = u}

(* A list with a 7 counts days the ISO way, else Sunday is 0. *)
IsoDay(d) == ((d + FirstWeekday - 2) % 7) + 1
IsWorkday(d, week) ==
  IF 7 \in week THEN IsoDay(d) \in week ELSE IsoDay(d) % 7 \in week

(* _next_available_workday: the day itself when there is none. *)
NextWorkdayClosedToo(d, closedDays, week) ==  \* does not skip closed days
  LET free == {n \in d + 1 .. d + Horizon : IsWorkday(n, week)}
  IN IF free = {} THEN d ELSE Min(free)

NextWorkday(d, closedDays, week) ==
  LET free == {n \in d + 1 .. d + Horizon : IsWorkday(n, week) /\ n \notin closedDays}
  IN IF free = {} THEN d ELSE Min(free)

Init ==
  /\ date \in [Items -> Days]
  /\ done = [i \in Items |-> FALSE]
  /\ ended = [d \in {} |-> 0]
  /\ tab = [b \in Tabs |-> Idle]
  /\ rolled = {} /\ closed = {} /\ lapsed = {} /\ late = {}
  /\ asked = 0

Ask == asked < MaxAsked /\ asked' = asked + 1

(* The days an end-day request closes: those of the user's tasks up to the *)
(* day asked for, and that day, unless they are closed; if all are, the day *)
(* asked for.                                                              *)
EndDay(b, d) ==
  /\ tab[b] = Idle /\ Ask
  /\ tab' = [tab EXCEPT ![b] =
       [at |-> "list", to |-> d,
        days |-> {date[i] : i \in {j \in Mine(UserOf[b]) : date[j] <= d}} \cup {d}]]
  /\ UNCHANGED <<date, done, ended, history>>

Listed(b) ==
  LET open == tab[b].days \ EndedOf(UserOf[b]) IN
  /\ tab[b].at = "list"
  /\ tab' = [tab EXCEPT ![b] =
       [at |-> "record", days |-> IF open = {} THEN {@.to} ELSE open]]
  /\ UNCHANGED <<date, done, ended, history, asked>>

(* TaskDB.end_day: INSERT ... ON CONFLICT DO NOTHING on the day alone. *)
Taken(d, u) == d \in DOMAIN ended

Record(b) ==
  LET d == Min(tab[b].days)
      u == UserOf[b]
  IN
  /\ tab[b].at = "record"
  /\ ended' = IF Taken(d, u) THEN ended
              ELSE [e \in DOMAIN ended \cup {d} |-> IF e = d THEN u ELSE ended[e]]
  /\ lapsed' = IF ended'[d] = u THEN lapsed \ {<<u, d>>} ELSE lapsed \cup {<<u, d>>}
  /\ late' = late \cup {c \in Tabs : UserOf[c] = u /\ tab[c].at = "move" /\ tab[c].to = d}
  /\ tab' = [tab EXCEPT ![b] = [at |-> "read", days |-> @.days]]
  /\ UNCHANGED <<date, done, rolled, closed, asked>>

ReadBack(b) ==
  LET d == Min(tab[b].days)
      u == UserOf[b]
  IN
  /\ tab[b].at = "read"
  /\ tab' = [tab EXCEPT ![b] =
       [at |-> "move", days |-> @.days, to |-> NextWorkday(d, EndedOf(u), Week[u])]]
  /\ UNCHANGED <<date, done, ended, history, asked>>

(* TaskDB.move_incomplete_tasks_on_or_before. *)
Moved(u, d) == {i \in Mine(u) : ~ done[i] /\ date[i] <= d}

Move(b) ==
  LET r == tab[b]
      d == Min(r.days)
      m == Moved(UserOf[b], d)
      rest == r.days \ {d}
  IN
  /\ r.at = "move"
  /\ date' = [i \in Items |-> IF i \in m THEN r.to ELSE date[i]]
  /\ rolled' = IF r.to = d \/ b \in late THEN rolled \ m ELSE rolled \cup m
  /\ late' = late \ {b}
  /\ closed' = closed \cup {<<UserOf[b], d>>}
  /\ tab' = [tab EXCEPT ![b] = IF rest = {} THEN Idle
                               ELSE [at |-> "record", days |-> rest]]
  /\ UNCHANGED <<done, ended, lapsed, asked>>

(* POST /api/tasks/unend-day. *)
UnendDay(b, d) ==
  LET u == UserOf[b] IN
  /\ tab[b] = Idle /\ Ask
  /\ ended' = [e \in DOMAIN ended \ (EndedOf(u) \cap {d}) |-> ended[e]]
  /\ closed' = closed \ {<<u, d>>}
  /\ lapsed' = lapsed \cup {<<u, d>>}
  /\ UNCHANGED <<date, done, tab, rolled, late>>

(* PUT /api/tasks/<id>: the user dates an item, finishes it or opens it     *)
(* again.                                                                   *)
EditItem(i, d, f) ==
  /\ Ask
  /\ date' = [date EXCEPT ![i] = d]
  /\ done' = [done EXCEPT ![i] = f]
  /\ rolled' = rolled \ {i}
  /\ UNCHANGED <<ended, tab, closed, lapsed, late>>

Next ==
  \/ \E b \in Tabs, d \in Days : EndDay(b, d) \/ UnendDay(b, d)
  \/ \E b \in Tabs : Listed(b) \/ Record(b) \/ ReadBack(b) \/ Move(b)
  \/ \E i \in Items, d \in Days, f \in BOOLEAN : EditItem(i, d, f)

Spec == Init /\ [][Next]_vars

-----------------------------------------------------------------------------
TypeOK ==
  /\ date \in [Items -> Dates]
  /\ done \in [Items -> BOOLEAN]
  /\ DOMAIN ended \subseteq Dates /\ \A d \in DOMAIN ended : ended[d] \in Users
  /\ \A b \in Tabs : tab[b] = Idle
                     \/ /\ tab[b].at \in {"list", "record", "read", "move"}
                        /\ tab[b].days \in (SUBSET Dates) \ {{}}
                        /\ tab[b].at \in {"list", "move"} => tab[b].to \in Dates
  /\ rolled \subseteq Items
  /\ closed \subseteq Users \X Dates /\ lapsed \subseteq Users \X Dates
  /\ late \subseteq Tabs

Quiet(u) == \A b \in Tabs : UserOf[b] = u => tab[b] = Idle

(* Work rolled over by ending days never waits on a day whose ending was    *)
(* answered to its user, once the user's requests are answered: the days    *)
(* ahead that are ended are skipped (src/db/tasks.py:757), and those ended  *)
(* later roll it on, whatever other windows do.  Two exceptions are the     *)
(* code's: a day another user ended first is not recorded for this one      *)
(* (src/postgres_client.py:412), and a request moves tasks to a day that    *)
(* another window ends after it read the days back.                         *)
RollsToAnOpenDay ==
  \A i \in rolled :
    Quiet(Owner[i]) /\ ~ done[i] => <<Owner[i], date[i]>> \notin closed \ lapsed
=============================================================================
