------------------------------ MODULE TaskClaims ------------------------------
(***************************************************************************)
(* Tasks as work for Colosseum, the pool of headless runners: a task in a  *)
(* queued phase that is armed is offered to runners, claimed by one of     *)
(* them, reported on, reviewed by people and queued again                  *)
(* (src/routes/tasks.py, src/db/tasks.py).                                 *)
(*                                                                         *)
(* The routes are not transactions: most read the task in one transaction  *)
(* and write it in one or two others.  A request is therefore a record     *)
(* `req[a]' holding what its route has read and which step comes next; an  *)
(* actor has one request in flight.  Comments, runs and the run            *)
(* configuration are JSON values written back as a whole.                  *)
(***************************************************************************)
EXTENDS Naturals, FiniteSets

CONSTANTS Tasks, Runners, People,
          Writable,      \* the statuses a PUT writes in this instance
          Plans,         \* sets of routes: a behaviour keeps to one of them
          Entries,       \* comments and runs, each posted at most once
          Rank           \* [Tasks -> Nat]: priority, 0 the highest

Phases == {"approved", "review", "ready", "grooming"}
Statuses == Phases \cup {"todo", "in-progress", "human-review", "done", "blocked"}

(* What the configuration says of the work, as far as the routes look at it: *)
(* nothing, a repository and a provider, research with a provider, or       *)
(* development without a repository.                                         *)
Kinds == {"empty", "development", "research", "no repository"}
Configs == [kind : Kinds, runs : SUBSET Entries]

Actors == Runners \cup People

ASSUME TasksAssumption ==
  /\ Writable \subseteq Statuses
  /\ Rank \in [Tasks -> Nat]
  /\ Runners \cap People = {}

VARIABLES status,    \* tasks.status
          comments,  \* tasks.comments, as the set of its entries
          ready,     \* colosseum_tasks.ready, FALSE without a row
          config,    \* colosseum_tasks.config, empty without a row
          offer,     \* what a runner was offered last: a set of at most one task
          req,       \* the request of each actor
          plan,      \* the routes in use
          running,   \* history: the runners executing a task, from claim to report
          overridden,\* history: those of them whose task someone else moved on
          stale,     \* history: reviewers whose task's status was written since they read it
          filed,     \* history: the runs whose POST was answered
          crossed    \* history: those written while another request had the list

history == <<running, overridden, stale, filed, crossed>>
vars == <<status, comments, ready, config, offer, req, plan, history>>

Idle == [at |-> "idle"]
InFlight(t) == {a \in Actors : req[a] # Idle /\ req[a].task = t}
Start(a, r) == req[a] = Idle /\ req' = [req EXCEPT ![a] = r]
End(a) == req' = [req EXCEPT ![a] = Idle]
Uses(op) == op \in plan

(* History of a status written: reviews under way have read an older one.   *)
Deciding(t) == {p \in People : req[p].at = "decide" /\ req[p].task = t}
Wrote(a, t) == stale' = (stale \cup Deciding(t)) \ {a}
Override(a, t, over) ==
  overridden' = [overridden EXCEPT ![t] = (IF over THEN running[t] ELSE @) \ {a}]

(* An entry nobody has posted yet. *)
Posted == UNION {UNION {config[t].runs, comments[t], filed[t]} : t \in Tasks}
            \cup {req[a].entry : a \in {b \in Actors : "entry" \in DOMAIN req[b]}}
Fresh == Entries \ Posted

(* _has_usable_colosseum_config and _is_offerable. *)
Usable(c) == c.kind \in {"development", "research"}
Offerable(c) == c.kind # "no repository"

(* Offers are sorted by phase, then by priority. *)
PhaseRank(s) == CASE s = "approved" -> 0 [] s = "review" -> 1
                  [] s = "ready" -> 2 [] s = "grooming" -> 3
Sooner(t, u) == \/ PhaseRank(status[t]) < PhaseRank(status[u])
                \/ /\ PhaseRank(status[t]) = PhaseRank(status[u])
                   /\ Rank[t] < Rank[u]

Init ==
  /\ status \in [Tasks -> {"todo", "ready"}]
  /\ comments = [t \in Tasks |-> {}]
  /\ ready = [t \in Tasks |-> FALSE]
  /\ config \in [Tasks -> [kind : Kinds, runs : {{}}]]
  /\ offer = [r \in Runners |-> {}]
  /\ req = [a \in Actors |-> Idle]
  /\ running = [t \in Tasks |-> {}] /\ overridden = [t \in Tasks |-> {}]
  /\ stale = {}
  /\ filed = [t \in Tasks |-> {}] /\ crossed = {}
  /\ plan \in Plans

-----------------------------------------------------------------------------
(* PUT /api/tasks/<id> with a status: the task is updated in one           *)
(* transaction, then armed or disarmed in another, from the status         *)
(* requested and the configuration read after the first.                   *)

Arms(s, c) == s \in {"ready", "approved"} /\ Usable(c)

(* A runner reports on its task with it, and anyone may send it at any time. *)
PutStatus(a, t, s) ==
  /\ Uses("put")
  /\ Start(a, [at |-> "arm", task |-> t, ready |-> Arms(s, config[t])])
  /\ status' = [status EXCEPT ![t] = s]
  /\ running' = [running EXCEPT ![t] = @ \ {a}]
  /\ Override(a, t, TRUE)
  /\ Wrote(a, t)
  /\ UNCHANGED <<comments, ready, config, offer, filed, crossed>>

(* TaskDB.set_colosseum_ready_state. *)
SetReadyState(a) ==
  /\ req[a].at = "arm"
  /\ ready' = [ready EXCEPT ![req[a].task] = req[a].ready]
  /\ End(a)
  /\ UNCHANGED <<status, comments, config, offer, history>>

(* POST .../colosseum-ready-state. *)
ToggleReady(p, t, b) ==
  /\ Uses("toggle")
  /\ Start(p, [at |-> "arm", task |-> t, ready |-> b])
  /\ UNCHANGED <<status, comments, ready, config, offer, history>>

-----------------------------------------------------------------------------
(* GET /api/tasks/colosseum/next, and POST /api/tasks/<id>/claim. *)

Queue == {t \in Tasks : status[t] \in Phases /\ ready[t] /\ Offerable(config[t])}

NextTask(r) ==
  /\ Uses("claim") /\ req[r] = Idle
  /\ \E t \in Queue :
       /\ \A u \in Queue : ~ Sooner(u, t)
       /\ offer' = [offer EXCEPT ![r] = {t}]
  /\ UNCHANGED <<status, comments, ready, config, req, history>>

(* The claim's row lock and predicate on the status: what the runner was    *)
(* offered may have moved on since.                                         *)
ClaimableAlways(t) == TRUE  \* the claim's UPDATE without its predicate

Claimable(t) == status[t] \in Phases

Claim(r, t) ==
  /\ t \in offer[r] /\ req[r] = Idle
  /\ offer' = [offer EXCEPT ![r] = {}]
  /\ \/ /\ Claimable(t)
        /\ status' = [status EXCEPT ![t] = "in-progress"]
        /\ ready' = [ready EXCEPT ![t] = FALSE]
        /\ running' = [running EXCEPT ![t] = @ \cup {r}]
        /\ Override(r, t, FALSE)
        /\ Wrote(r, t)
     \/ ~ Claimable(t) /\ UNCHANGED <<status, ready, running, overridden, stale>>
  /\ UNCHANGED <<comments, config, req, filed, crossed>>

-----------------------------------------------------------------------------
(* POST .../approval: the task is read, then its status and comments are    *)
(* written, then it is armed.                                               *)

Decided(reject, c) ==
  IF reject THEN "ready" ELSE IF c.kind = "research" THEN "done" ELSE "approved"

ReviewLookAny(p, t, reject) ==  \* without looking at the status
  /\ Uses("approve")
  /\ \E e \in Fresh :
       Start(p, [at |-> "decide", task |-> t, entry |-> e,
                 status |-> Decided(reject, config[t]),
                 comments |-> comments[t] \cup {e}])
  /\ UNCHANGED <<status, comments, ready, config, offer, history>>

ReviewLook(p, t, reject) ==
  /\ Uses("approve") /\ status[t] = "human-review"
  /\ \E e \in Fresh :
       Start(p, [at |-> "decide", task |-> t, entry |-> e,
                 status |-> Decided(reject, config[t]),
                 comments |-> comments[t] \cup {e}])
  /\ UNCHANGED <<status, comments, ready, config, offer, history>>

ReviewWrite(p) ==
  LET r == req[p] IN
  /\ r.at = "decide"
  /\ status' = [status EXCEPT ![r.task] = r.status]
  /\ comments' = [comments EXCEPT ![r.task] = r.comments]
  /\ req' = [req EXCEPT ![p] = [at |-> "arm", task |-> r.task,
                                ready |-> r.status \in {"ready", "approved"}]]
  /\ Override(p, r.task, p \in stale)
  /\ Wrote(p, r.task)
  /\ UNCHANGED <<ready, config, offer, running, filed, crossed>>

(* POST .../comments: the list is read, then written back. *)
CommentLook(p, t) ==
  /\ Uses("comment")
  /\ \E e \in Fresh : Start(p, [at |-> "comment", task |-> t, entry |-> e,
                                comments |-> comments[t] \cup {e}])
  /\ UNCHANGED <<status, comments, ready, config, offer, history>>

CommentWrite(p) ==
  /\ req[p].at = "comment"
  /\ comments' = [comments EXCEPT ![req[p].task] = req[p].comments]
  /\ End(p)
  /\ UNCHANGED <<status, ready, config, offer, history>>

-----------------------------------------------------------------------------
(* The configuration.  Posting a run reads the runs in one transaction and  *)
(* patches them in another, which itself reads the configuration and writes *)
(* it back without a lock; so does arming a task with a configuration.      *)

RunLook(a, t) ==
  /\ Uses("run")
  /\ \E e \in Fresh : Start(a, [at |-> "patch", task |-> t, entry |-> e,
                                runs |-> config[t].runs \cup {e}])
  /\ UNCHANGED <<status, comments, ready, config, offer, history>>

PatchRead(a) ==
  LET r == req[a] IN
  /\ r.at = "patch"
  /\ req' = [req EXCEPT ![a] =
       [at |-> "write", task |-> r.task, entry |-> r.entry, arm |-> FALSE,
        config |-> [kind |-> config[r.task].kind, runs |-> r.runs]]]
  /\ UNCHANGED <<status, comments, ready, config, offer, history>>

(* PUT .../colosseum-metadata and POST .../colosseum-ready merge new fields *)
(* into the configuration they read.                                        *)
ConfigReadNone(p, t, kind, arm) ==  \* the new fields in place of the old
  /\ Uses("config")
  /\ arm => status[t] \notin {"done", "blocked"}
  /\ Start(p, [at |-> "write", task |-> t, arm |-> arm,
               config |-> [kind |-> kind, runs |-> {}]])
  /\ UNCHANGED <<status, comments, ready, config, offer, history>>

ConfigRead(p, t, kind, arm) ==
  /\ Uses("config")
  /\ arm => status[t] \notin {"done", "blocked"}
  /\ Start(p, [at |-> "write", task |-> t, arm |-> arm,
               config |-> [kind |-> kind, runs |-> config[t].runs]])
  /\ UNCHANGED <<status, comments, ready, config, offer, history>>

Writers(t) == {a \in Actors : req[a].at \in {"patch", "write"} /\ req[a].task = t}

ConfigWrite(a) ==
  LET r == req[a]
      run == IF "entry" \in DOMAIN r THEN {r.entry} ELSE {}
  IN
  /\ r.at = "write"
  /\ config' = [config EXCEPT ![r.task] = r.config]
  /\ ready' = [ready EXCEPT ![r.task] = r.arm \/ @]
  /\ filed' = [filed EXCEPT ![r.task] = @ \cup run]
  /\ crossed' = IF Writers(r.task) \subseteq {a} THEN crossed ELSE crossed \cup run
  /\ End(a)
  /\ UNCHANGED <<status, comments, offer, running, overridden, stale>>

-----------------------------------------------------------------------------
RunnerStep(r) ==
  \/ NextTask(r)
  \/ \E t \in Tasks : Claim(r, t)

PersonStep(p) ==
  \/ \E t \in Tasks, b \in BOOLEAN : ToggleReady(p, t, b) \/ ReviewLook(p, t, b)
  \/ \E t \in Tasks : CommentLook(p, t)
  \/ \E t \in Tasks, k \in Kinds, b \in BOOLEAN : ConfigRead(p, t, k, b)
  \/ ReviewWrite(p) \/ CommentWrite(p)

AnyStep(a) ==
  \/ \E t \in Tasks, s \in Writable : PutStatus(a, t, s)
  \/ \E t \in Tasks : RunLook(a, t)
  \/ SetReadyState(a) \/ PatchRead(a) \/ ConfigWrite(a)

Next ==
  /\ \/ \E r \in Runners : RunnerStep(r)
     \/ \E p \in People : PersonStep(p)
     \/ \E a \in Actors : AnyStep(a)
  /\ UNCHANGED plan

Spec == Init /\ [][Next]_vars

-----------------------------------------------------------------------------
Requests ==
  {Idle}
    \cup [at : {"arm"}, task : Tasks, ready : BOOLEAN]
    \cup [at : {"decide"}, task : Tasks, entry : Entries, status : Statuses,
          comments : SUBSET Entries]
    \cup [at : {"comment"}, task : Tasks, entry : Entries, comments : SUBSET Entries]
    \cup [at : {"patch"}, task : Tasks, entry : Entries, runs : SUBSET Entries]
    \cup [at : {"write"}, task : Tasks, arm : BOOLEAN, config : Configs]
    \cup [at : {"write"}, task : Tasks, entry : Entries, arm : BOOLEAN, config : Configs]

(* Rows and requests have their types. *)
TypeOK ==
  /\ status \in [Tasks -> Statuses]
  /\ comments \in [Tasks -> SUBSET Entries]
  /\ ready \in [Tasks -> BOOLEAN]
  /\ config \in [Tasks -> Configs]
  /\ offer \in [Runners -> SUBSET Tasks]
  /\ req \in [Actors -> Requests]
  /\ running \in [Tasks -> SUBSET Runners] /\ overridden \in [Tasks -> SUBSET Runners]
  /\ stale \subseteq People
  /\ filed \in [Tasks -> SUBSET Entries] /\ crossed \subseteq Entries
  /\ plan \in Plans

(* Claims exclude one another (the claim's guard, src/db/tasks.py:518, is   *)
(* the status alone): offers go stale, and reports and reviews queue the    *)
(* task again, yet a second runner executes it only if someone else wrote   *)
(* the status while the first did, or a review was decided on a status      *)
(* written since it was read.                                               *)
OneRunner ==
  \A t \in Tasks : \A r, s \in running[t] \ overridden[t] : r = s

(* A run that was filed stays filed, although every write of the            *)
(* configuration puts back a whole list read one or two transactions        *)
(* earlier (src/db/tasks.py:505): it is lost only if another such request   *)
(* had read the list when it was written.                                   *)
RunsKept == \A t \in Tasks : filed[t] \ crossed \subseteq config[t].runs
=============================================================================
