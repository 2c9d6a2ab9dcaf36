-------------------------------- MODULE Startup --------------------------------
(***************************************************************************)
(* Servers starting on one database (src/postgres_client.py, src/app.py):  *)
(* under an advisory lock and in one transaction each creates what is      *)
(* missing, applies the migrations that are not stamped, and then replays  *)
(* every schema migration; a deadlock with servers at work is tried again. *)
(* Replaying is meant to change nothing that users have changed since.     *)
(***************************************************************************)
EXTENDS Integers, Sequences, FiniteSets

CONSTANTS Servers,
          None,
          MaxAttempts,   \* max_attempts of init_schema
          MaxDeadlocks,  \* bound: deadlocks
          MaxCrashes,    \* bound: servers that die
          MaxUses        \* bound: things users and jobs do

VARIABLES pc,        \* what each server is doing
          attempt,   \* its attempt at the schema
          lock,      \* who holds the advisory lock
          has,       \* the schema migrations whose effect is in the database
          stamped,   \* schema_migrations
          logs,      \* the old activity log: "old", "copied", "both" once users
                     \* have added to the new one
          armed,     \* a task armed in the old column: its row in the new table
          creator,   \* who each node of the knowledge graph is said to be from
          accounts,  \* users: the rows of the default users and of another
          deadlocks, crashes, uses,
          chosen,    \* history: what a user last said of the task
          said,      \* history: what users last made of an account
          reset,     \* history: the accounts seeded since then
          backfills, \* history: how often nodes were given to the administrator
          deferred   \* history: whether that had to wait for an administrator

vars == <<pc, attempt, lock, has, stamped, logs, armed, creator, accounts, deadlocks, crashes, uses,
          chosen, said, reset, backfills, deferred>>

history == <<chosen, said, reset, backfills, deferred>>

(* _SCHEMA_MIGRATIONS: their versions, in the order they are applied, and    *)
(* what some do beyond adding columns, tables, indexes and constraints.     *)
Plain(v) == [version |-> v, does |-> "add"]
Early == <<Plain(1), Plain(2), Plain(3), [version |-> 4, does |-> "copy logs"], Plain(5), Plain(6), Plain(7),
           Plain(8), Plain(9), Plain(10)>>
Middle == <<Plain(11), [version |-> 2, does |-> "move armed"], Plain(8)>>
Late == <<Plain(12), Plain(13), Plain(14), Plain(15), Plain(16), Plain(17), Plain(18), Plain(19), Plain(20),
          Plain(23)>>
Schema == Early \o Middle \o Late
Data == {21, 22}
Versions == {Schema[i].version : i \in DOMAIN Schema} \cup Data

(* A database as some earlier version left it: what it stamped it has, but *)
(* for the migrations later given a number already used.                   *)
Reused == {i \in DOMAIN Schema : \E j \in 1 .. i - 1 : Schema[j].version = Schema[i].version}
Left(k, newer) == {i \in DOMAIN Schema : Schema[i].version <= k} \ newer

Nodes == {"early", "later"}
Absent == "absent"

(* An account's role and is_active, as far as starting looks at them; the   *)
(* name and address of a default user are written along with them.         *)
Defaults == {"ahmed", "lex"}
People == Defaults \cup {"other"}
Gone == [role |-> Absent, active |-> FALSE]
Rows == [role : {"admin", "operator"}, active : BOOLEAN]
Default(u) == [role |-> IF u = "ahmed" THEN "admin" ELSE "operator", active |-> TRUE]
Admins == {u \in People : accounts[u].role = "admin"}

Init ==
  /\ pc = [p \in Servers |-> "down"]
  /\ attempt = [p \in Servers |-> 1]
  /\ lock = None
  /\ \E k \in {0, 2, 7, 11, 23}, newer \in SUBSET Reused :
       /\ stamped = {v \in Versions : v <= k}
       /\ has = Left(k, newer)
       /\ \E early \in {Absent, ""} : creator = [n \in Nodes |-> IF n = "early" /\ k < 21 THEN early ELSE Absent]
  /\ logs = (IF 4 \in stamped THEN "copied" ELSE "old")
  /\ armed = IF \E i \in has : Schema[i].does = "move armed" THEN "armed" ELSE Absent
  /\ \E there \in SUBSET People :  \* seeded together, and only lex deleted since
       /\ "lex" \in there => "ahmed" \in there
       /\ accounts = [u \in People |-> IF u \notin there THEN Gone
                                   ELSE IF u \in Defaults THEN Default(u)
                                   ELSE [role |-> "admin", active |-> TRUE]]
  /\ deadlocks = 0 /\ crashes = 0 /\ uses = 0
  /\ chosen = None /\ said = [u \in People |-> None] /\ reset = {}
  /\ backfills = 0 /\ deferred = FALSE

(* pg_advisory_lock, held by the session. *)
TakeLock(p) ==
  /\ pc[p] = "down" /\ lock = None
  /\ lock' = p
  /\ pc' = [pc EXCEPT ![p] = "migrating"]
  /\ UNCHANGED <<attempt, has, stamped, logs, armed, creator, accounts, deadlocks, crashes, uses, history>>

(* What the statements of schema migrations do to rows: copy the old log    *)
(* once, and the tasks armed in the old column unless they have a row.      *)
LogsAfter(run) == IF \E i \in run : Schema[i].does = "copy logs" THEN (IF logs = "old" THEN "copied" ELSE logs) ELSE logs
ArmedOverwritten(run) == IF \E i \in run : Schema[i].does = "move armed" THEN "armed" ELSE armed
ArmedAfter(run) ==
  IF (\E i \in run : Schema[i].does = "move armed") /\ armed = Absent THEN "armed" ELSE armed

(* _run_pending_migrations, and what _reconcile_additive_schema replays. *)
PendingSchema == {i \in DOMAIN Schema : Schema[i].version \notin stamped}
Replayed == DOMAIN Schema

(* _backfill_kg_node_creators, once: there is nobody to give nodes to yet,  *)
(* nothing to give, or all that have no creator are the administrator's.    *)
Unclaimed == {n \in Nodes : creator[n] = ""}
BackfillDue == 21 \notin stamped
Waits == BackfillDue /\ Unclaimed # {} /\ Admins = {}

Migrate(p) ==
  /\ pc[p] = "migrating" /\ lock = p
  /\ has' = has \cup PendingSchema \cup Replayed
  /\ logs' = LogsAfter(PendingSchema \cup Replayed)
  /\ armed' = ArmedAfter(PendingSchema \cup Replayed)
  /\ stamped' = Versions \ (IF Waits THEN {21} ELSE {})
  /\ creator' = IF BackfillDue /\ Admins # {} THEN [n \in Nodes |-> IF n \in Unclaimed THEN "admin" ELSE creator[n]]
                ELSE creator
  /\ backfills' = backfills + (IF BackfillDue /\ Admins # {} /\ Unclaimed # {} THEN 1 ELSE 0)
  /\ deferred' = (deferred \/ Waits)
  /\ pc' = [pc EXCEPT ![p] = "migrated"]
  /\ UNCHANGED <<attempt, lock, accounts, deadlocks, crashes, uses, chosen, said, reset>>

(* The statements deadlock with a server at work: everything is undone,     *)
(* the lock is given back after a pause, and there are only so many tries.  *)
Deadlock(p) ==
  /\ pc[p] = "migrating"
  /\ deadlocks < MaxDeadlocks
  /\ deadlocks' = deadlocks + 1
  /\ pc' = [pc EXCEPT ![p] = IF attempt[p] = MaxAttempts THEN "failed" ELSE "pausing"]
  /\ UNCHANGED <<attempt, lock, has, stamped, logs, armed, creator, accounts, crashes, uses, history>>

(* The finally clause of an attempt, however it ended. *)
Release(p) ==
  /\ pc[p] \in {"migrated", "pausing", "failed"} /\ lock = p
  /\ lock' = None
  /\ pc' = [pc EXCEPT ![p] = IF @ = "migrated" THEN "seeding" ELSE "down"]
  /\ attempt' = [attempt EXCEPT ![p] = IF pc[p] = "pausing" THEN @ + 1 ELSE 1]
  /\ UNCHANGED <<has, stamped, logs, armed, creator, accounts, deadlocks, crashes, uses, history>>

(* UserDB.seed_defaults, before any request: the default users are inserted *)
(* or set back to what they are by default.  If it fails the server serves  *)
(* all the same.                                                           *)
Seed(p) ==
  /\ pc[p] = "seeding"
  /\ \/ /\ accounts' = [u \in People |-> IF u \in Defaults THEN Default(u) ELSE accounts[u]]
        /\ reset' = reset \cup Defaults
     \/ UNCHANGED <<accounts, reset>>
  /\ pc' = [pc EXCEPT ![p] = "serving"]
  /\ UNCHANGED <<attempt, lock, has, stamped, logs, armed, creator, deadlocks, crashes, uses,
                 chosen, said, backfills, deferred>>

(* A server dies; the database forgets its session and its transaction. *)
Crash(p) ==
  /\ pc[p] # "down" /\ crashes < MaxCrashes
  /\ crashes' = crashes + 1
  /\ pc' = [pc EXCEPT ![p] = "down"]
  /\ attempt' = [attempt EXCEPT ![p] = 1]
  /\ lock' = IF lock = p THEN None ELSE lock
  /\ UNCHANGED <<has, stamped, logs, armed, creator, accounts, deadlocks, uses, history>>

(* What goes on while a server serves: the task is armed or disarmed, the   *)
(* log is written, a job adds a node nobody is the creator of.              *)
Use(p) ==
  /\ pc[p] = "serving" /\ uses < MaxUses
  /\ uses' = uses + 1
  /\ \/ \E ready \in {"armed", "disarmed"} : armed' = ready /\ chosen' = ready /\ UNCHANGED <<logs, creator>>
     \/ logs' = "both" /\ UNCHANGED <<armed, chosen, creator>>
     \/ creator["later"] = Absent /\ creator' = [creator EXCEPT !["later"] = ""] /\ UNCHANGED <<logs, armed, chosen>>
  /\ UNCHANGED <<pc, attempt, lock, has, stamped, accounts, deadlocks, crashes, said, reset, backfills, deferred>>

(* An administrator creates, changes or deletes an account, or its user     *)
(* does; nobody deletes the primary administrator.                         *)
MayChange(v, u) == accounts[v].active /\ (accounts[v].role = "admin" \/ v = u)

ChangeAccount(p, u, to) ==
  /\ pc[p] = "serving" /\ uses < MaxUses
  /\ \E v \in People : MayChange(v, u)
  /\ to = Gone => u # "ahmed" /\ accounts[u] # Gone
  /\ uses' = uses + 1
  /\ accounts' = [accounts EXCEPT ![u] = to]
  /\ said' = [said EXCEPT ![u] = to] /\ reset' = reset \ {u}
  /\ UNCHANGED <<pc, attempt, lock, has, stamped, logs, armed, creator, deadlocks, crashes,
                 chosen, backfills, deferred>>

Next == \E p \in Servers :
  \/ TakeLock(p) \/ Migrate(p) \/ Deadlock(p) \/ Release(p) \/ Seed(p) \/ Crash(p) \/ Use(p)
  \/ \E u \in People, to \in Rows \cup {Gone} : ChangeAccount(p, u, to)

Spec == Init /\ [][Next]_vars

-----------------------------------------------------------------------------
(* One server at a time is at the schema, and holds the lock.               *)
TypeOK ==
  /\ pc \in [Servers -> {"down", "migrating", "migrated", "pausing", "failed", "seeding", "serving"}]
  /\ \A p \in Servers : pc[p] \in {"migrating", "migrated", "pausing", "failed"} <=> lock = p
  /\ attempt \in [Servers -> 1 .. MaxAttempts]
  /\ has \subseteq DOMAIN Schema /\ stamped \subseteq Versions
  /\ armed \in {Absent, "armed", "disarmed"} /\ logs \in {"old", "copied", "both"}
  /\ accounts \in [People -> Rows \cup {Gone}]

(* Whatever version left the database, a server that serves finds all the  *)
(* schema: also what a migration brought whose number was already stamped  *)
(* (src/postgres_client.py:1513).                                          *)
ServesCurrentSchema ==
  \A p \in Servers : pc[p] \in {"seeding", "serving"} => has = DOMAIN Schema /\ logs # "old" /\ armed # Absent

(* What starting again undoes of what users did: a task disarmed stays so   *)
(* though the old column still has it armed; nodes are given to the         *)
(* administrator once, and nodes jobs add later are not, unless a start     *)
(* found no administrator (src/postgres_client.py:1422); an account is what *)
(* its users made it, except that the default ones, changed, deactivated or *)
(* deleted, are set back by each start whose seeding succeeds               *)
(* (src/db/users.py:219).                                                   *)
StartsChangeNothing ==
  /\ chosen # None => armed = chosen
  /\ backfills <= 1
  /\ creator["later"] = "admin" => deferred
  /\ \A u \in People : said[u] # None =>
       IF u \in reset THEN u \in Defaults /\ accounts[u] = Default(u) ELSE accounts[u] = said[u]
=============================================================================
