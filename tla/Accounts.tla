------------------------------- MODULE Accounts -------------------------------
(***************************************************************************)
(* One user's account and logins (src/app.py, src/db/users.py,             *)
(* src/routes/users.py).  Several server processes see the user's          *)
(* requests; each tells the database at most every five minutes, and the   *)
(* database counts a login when the user comes back after half an hour.    *)
(* The statement that does so reads the row, then takes its lock and reads *)
(* it again.  An administrator creates, updates and deletes the account,   *)
(* and every start of a server seeds the default ones.                     *)
(***************************************************************************)
EXTENDS Integers, FiniteSets

CONSTANTS Servers,
          Throttle,    \* _LAST_LOGIN_TOUCH_SECONDS, min_interval_minutes; in ticks
          Gap,         \* session_gap_minutes, in ticks
          MaxTime,     \* bound: ticks
          MaxChanges,  \* bound: changes by an administrator, starts of a server
          MaxFaults    \* bound: statements that fail

VARIABLES seeded,   \* whether the user is one of the defaults of seed_defaults
          row,      \* the row of users; its life is counted from one creation
          touched,  \* _last_login_touched of each server
          touch,    \* the statement each server is running
          logins,   \* user_login_days
          clock, changes, faults,
          seen,     \* history: when the user last sent a request
          resumed,  \* history: requests after an idle gap, the first of each
          counted,  \* history: the times of the logins counted, and whether a
                    \* statement had failed since the one before
          back,     \* history: requests after most of a gap
          older,    \* history: servers that remember touching an account now deleted
          missed    \* history: whether a statement failed since the last login, or
                    \* such a server kept a request to itself

vars == <<seeded, row, touched, touch, logins, clock, changes, faults, seen, resumed, counted, back, older, missed>>

Never == -1
Longest == MaxTime + Gap
Gone == [life |-> 0, active |-> FALSE, last |-> Never]
Exists == row # Gone
Fresh(n) == [life |-> n, active |-> TRUE, last |-> Never]
Still == [at |-> "none"]

Init ==
  /\ seeded \in BOOLEAN
  /\ row = IF seeded THEN Fresh(1) ELSE Gone
  /\ touched = [p \in Servers |-> Never]
  /\ touch = [p \in Servers |-> Still]
  /\ logins = 0 /\ clock = 0 /\ changes = 0 /\ faults = 0
  /\ seen = Never /\ resumed = {} /\ counted = {} /\ back = {} /\ older = {} /\ missed = FALSE

Idle == IF seen = Never THEN Longest ELSE clock - seen

Returns(untold) ==
  /\ seen' = clock
  /\ resumed' = IF Idle > Gap /\ ~untold THEN resumed \cup {clock} ELSE resumed
  /\ back' = IF Idle > Gap - 2 * Throttle THEN back \cup {clock} ELSE back

(* touch_last_login: the row as the statement first reads it. *)
Begin(p, hit) ==
  /\ hit => faults < MaxFaults
  /\ faults' = faults + (IF hit THEN 1 ELSE 0)
  /\ missed' = (missed \/ hit)
  /\ touch' = IF hit THEN touch
              ELSE [touch EXCEPT ![p] = [at |-> "read", now |-> clock, prev |-> row.last, life |-> row.life]]

(* _touch_last_login: this server has not touched the row for a while. *)
Due(p) == touched[p] = Never \/ clock - touched[p] >= Throttle

(* The throttle is kept by user id, and outlives the account. *)
Withheld(p) == ~Due(p) /\ p \in older

(* _authenticate: a request with the key of an active user. *)
Request(p, hit) ==
  /\ touch[p] = Still
  /\ Exists /\ row.active
  /\ hit => Due(p)
  /\ touched' = IF Due(p) THEN [touched EXCEPT ![p] = clock] ELSE touched
  /\ IF Due(p) THEN Begin(p, hit) ELSE missed' = (missed \/ Withheld(p)) /\ UNCHANGED <<touch, faults>>
  /\ Returns(hit \/ Withheld(p))
  /\ older' = IF Due(p) THEN older \ {p} ELSE older
  /\ UNCHANGED <<seeded, row, logins, clock, changes, counted>>

(* _post_usage counts a call the same way, without asking when it last did. *)
CountCall(p, hit) ==
  /\ touch[p] = Still
  /\ Exists /\ row.active
  /\ Begin(p, hit)
  /\ Returns(hit)
  /\ UNCHANGED <<seeded, row, touched, logins, clock, changes, counted, older>>

(* The update, on the row as it is by then ... *)
TakesAlways(e) == row.life = e.life
Takes(e) == row.life = e.life /\ (row.last = Never \/ row.last < e.now - Throttle)

(* ... and the login, from the row as it was. *)
NewSession(e) == Takes(e) /\ (e.prev = Never \/ e.prev < e.now - Gap)

Finish(p) ==
  LET e == touch[p] IN
  /\ e.at = "read"
  /\ touch' = [touch EXCEPT ![p] = Still]
  /\ row' = IF Takes(e) THEN [row EXCEPT !.last = e.now] ELSE row
  /\ logins' = logins + (IF NewSession(e) THEN 1 ELSE 0)
  /\ counted' = IF NewSession(e) THEN counted \cup {[at |-> e.now, late |-> missed]} ELSE counted
  /\ missed' = (missed /\ ~NewSession(e))
  /\ UNCHANGED <<seeded, touched, clock, changes, faults, seen, resumed, back, older>>

Forget ==
  /\ resumed' = {} /\ counted' = {} /\ back' = {} /\ logins' = 0 /\ seen' = Never /\ missed' = FALSE
  /\ older' = {p \in Servers : touched[p] # Never}

(* UserDB.create, for an id nobody has; UserDB.delete; the history of an  *)
(* account starts with it.                                                *)
CreateUser ==
  /\ changes < MaxChanges /\ ~Exists
  /\ changes' = changes + 1
  /\ row' = Fresh(changes + 2)
  /\ Forget
  /\ UNCHANGED <<seeded, touched, touch, clock, faults>>

DeleteUser ==
  /\ changes < MaxChanges /\ Exists
  /\ changes' = changes + 1
  /\ row' = Gone
  /\ Forget
  /\ UNCHANGED <<seeded, touched, touch, clock, faults>>

(* UserDB.update, deactivate. *)
UpdateUser ==
  /\ changes < MaxChanges /\ Exists
  /\ changes' = changes + 1
  /\ row' = [row EXCEPT !.active = ~@]
  /\ UNCHANGED <<seeded, touched, touch, logins, clock, faults, seen, resumed, counted, back, older, missed>>

(* A server starts anew: the default users are there, and active.          *)
Seeded == IF ~seeded THEN row ELSE IF Exists THEN [row EXCEPT !.active = TRUE] ELSE Fresh(changes + 2)

Start(p) ==
  /\ changes < MaxChanges
  /\ changes' = changes + 1
  /\ row' = Seeded
  /\ touched' = [touched EXCEPT ![p] = Never]
  /\ touch' = [touch EXCEPT ![p] = Still]
  /\ resumed' = IF touch[p] = Still THEN resumed ELSE {}
  /\ missed' = (missed \/ touch[p] # Still)
  /\ older' = older \ {p}
  /\ UNCHANGED <<seeded, logins, clock, faults, seen, counted, back>>

(* A statement takes less than two ticks. *)
Tick ==
  /\ clock < MaxTime
  /\ \A p \in Servers : touch[p].at = "read" => touch[p].now = clock
  /\ clock' = clock + 1
  /\ UNCHANGED <<seeded, row, touched, touch, logins, changes, faults, seen, resumed, counted, back, older, missed>>

Next ==
  \/ \E p \in Servers, hit \in BOOLEAN : Request(p, hit) \/ CountCall(p, hit)
  \/ \E p \in Servers : Finish(p) \/ Start(p)
  \/ CreateUser \/ DeleteUser \/ UpdateUser \/ Tick

Spec == Init /\ [][Next]_vars

-----------------------------------------------------------------------------
(* Nobody was seen, touched or counted in the future.                       *)
TypeOK ==
  /\ row.last \in Never .. clock /\ row.active \in BOOLEAN
  /\ touched \in [Servers -> Never .. clock]
  /\ seen \in Never .. clock /\ resumed \subseteq 0 .. clock
  /\ \A c \in counted : c.at \in 0 .. clock

(* The logins counted are the times the user came back: two are more than a *)
(* gap apart whichever servers saw them, a return is counted, by one of the *)
(* servers that saw it, and nobody is counted who had been there within a   *)
(* gap, less what the row lags behind; but a server that has just touched   *)
(* an account deleted since keeps the first requests of the next one to     *)
(* itself (src/db/users.py:81).                                             *)
LoginsAreResumptions ==
  /\ logins = Cardinality(counted)
  /\ \A c, d \in counted : c = d \/ c.at - d.at > Gap \/ d.at - c.at > Gap
  /\ (\A p \in Servers : touch[p] = Still) =>
       \A t \in resumed : \E c \in counted : c.at \in t .. t + 1
  /\ \A c \in counted : c.late \/ \E t \in back : c.at \in t .. t + 1
=============================================================================
