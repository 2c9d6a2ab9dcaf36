---------------------------------- MODULE Feed ----------------------------------
(***************************************************************************)
(* Notifications and a client of one user that polls for new ones          *)
(* (src/db/notifications.py, src/routes/jobs_system.py:728).  A            *)
(* notification's time is taken before its row is committed; a poll names  *)
(* the newest notification the client knows, and is answered the newest    *)
(* Limit of those with a later time.                                       *)
(***************************************************************************)
EXTENDS Integers, FiniteSets

CONSTANTS Notes, Limit, MaxTime, Never  \* "never": a client that has not been told anything

VARIABLES for,    \* whom a notification is for: "me", "all" or "other"
          time,   \* created_at; 0: not made yet
          stored, \* the notifications whose rows are committed
          clock, since,
          told,   \* the notifications the client was told, and how often
          late,   \* history: committed when the client knew one of their time or a later one
          crowded \* history: left out of an answer that was full

vars == <<for, time, stored, clock, since, told, late, crowded>>

Init ==
  /\ for \in [Notes -> {"me", "all", "other"}]
  /\ time = [n \in Notes |-> 0]
  /\ stored = {}
  /\ clock = 1
  /\ since = Never
  /\ told = [n \in Notes |-> 0]
  /\ late = {} /\ crowded = {}

Tick ==
  /\ clock < MaxTime
  /\ clock' = clock + 1
  /\ UNCHANGED <<for, time, stored, since, told, late, crowded>>

(* create: the time, then the row; a job, the maintenance and a request of  *)
(* the API make them, one not knowing of the other.                         *)
Make(n) ==
  /\ time[n] = 0
  /\ time' = [time EXCEPT ![n] = clock]
  /\ UNCHANGED <<for, stored, clock, since, told, late, crowded>>

Commit(n) ==
  /\ time[n] # 0 /\ n \notin stored
  /\ stored' = stored \cup {n}
  /\ late' = IF since # Never /\ time[n] <= time[since] THEN late \cup {n} ELSE late
  /\ UNCHANGED <<for, time, clock, since, told, crowded>>

(* user_id = %s OR user_id = '': the user's own and everyone's.             *)
VisibleOwn(n) == for[n] = "me"
Visible(n) == for[n] # "other"

(* list_recent.  Rows of the same time are in an order of the database's.   *)
Newer(n) == since = Never \/ time[n] > time[since]
Recent == {n \in stored : Visible(n) /\ Newer(n)}
Answers ==
  {page \in SUBSET Recent :
     /\ Cardinality(page) = IF Cardinality(Recent) < Limit THEN Cardinality(Recent) ELSE Limit
     /\ \A n \in page, m \in Recent \ page : time[n] >= time[m]}

Poll ==
  \E page \in Answers :
    /\ page # {}
    /\ told' = [n \in Notes |-> IF n \in page THEN told[n] + 1 ELSE told[n]]
    /\ \E n \in page : (\A m \in page : time[n] >= time[m]) /\ since' = n
    /\ crowded' = IF Cardinality(page) = Limit
                  THEN crowded \cup {n \in stored : told'[n] = 0 /\ time[n] <= time[since']} ELSE crowded
    /\ UNCHANGED <<for, time, stored, clock, late>>

Next == Tick \/ Poll \/ \E n \in Notes : Make(n) \/ Commit(n)

Spec == Init /\ [][Next]_vars

-----------------------------------------------------------------------------
(* A notification for the user or for everyone is told once, and no other   *)
(* is; one that never will be was left out of a full answer, or its row     *)
(* came after a notification of its time or later had been told             *)
(* (src/db/notifications.py:229).                                           *)
ToldOnce ==
  \A n \in Notes :
    /\ told[n] <= (IF for[n] = "other" THEN 0 ELSE 1)
    /\ (n \in stored /\ for[n] # "other" /\ told[n] = 0 /\ since # Never /\ time[n] <= time[since])
          => n \in late \cup crowded
=============================================================================
