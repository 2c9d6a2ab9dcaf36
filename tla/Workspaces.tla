------------------------------- MODULE Workspaces -------------------------------
(***************************************************************************)
(* Workspaces, the tasks they hold and the agents' sessions attached to    *)
(* them (src/db/workspaces.py, src/db/workspace_session_links.py,          *)
(* src/db/tasks.py, src/routes/workspaces.py).                             *)
(*                                                                         *)
(* A task is known to people by its number, "T-42", drawn from a counter   *)
(* in a transaction of its own before the task is inserted.  A session may *)
(* be attached under several names of its provider; it is resolved without *)
(* looking at the provider.                                                *)
(***************************************************************************)
EXTENDS Naturals, FiniteSets

CONSTANTS Spaces, Tasks, Users,
          Sessions, Providers,
          MaxDraws   \* bound: numbers drawn and attachments made

VARIABLES owner,    \* workspaces: the user of each that exists
          tasks,    \* tasks: workspace, number and user of each that exists
          deps,     \* task_deps
          counter,  \* counters.task_seq
          links,    \* workspace_session_links: by provider and session
          clock,    \* the time of the last attachment
          req,      \* the request of each user
          named,    \* history: the first task that bore a number
          last      \* history: what each session was attached to last, or detached from

vars == <<owner, tasks, deps, counter, links, clock, req, named, last>>

Idle == [at |-> "idle"]
Nowhere == "nowhere"
Open == DOMAIN owner
Known == DOMAIN tasks
Start(u, r) == req[u] = Idle /\ req' = [req EXCEPT ![u] = r]
End(u) == req' = [req EXCEPT ![u] = Idle]
Mine(u, t) == t \in Known /\ tasks[t].user = u
With(f, x, v) == [y \in DOMAIN f \cup {x} |-> IF y = x THEN v ELSE f[y]]
Without(f, S) == [y \in DOMAIN f \ S |-> f[y]]
Empty == [x \in {} |-> x]

Init ==
  /\ owner = Empty /\ tasks = Empty /\ deps = {}
  /\ counter = 0
  /\ links = Empty /\ clock = 0
  /\ req = [u \in Users |-> Idle]
  /\ named = Empty
  /\ last = [s \in Sessions |-> Nowhere]

-----------------------------------------------------------------------------
CreateSpace(u, w) ==
  /\ req[u] = Idle /\ w \notin Open
  /\ owner' = With(owner, w, u)
  /\ UNCHANGED <<tasks, deps, counter, links, clock, req, named, last>>

(* DELETE /api/workspaces/<id>: one's own, and refused by the foreign keys  *)
(* while tasks or links refer to it.  The route then calls a method with an *)
(* argument it does not take, so it answers an error in every case.  Merge  *)
(* requests refer to workspaces too, and may refuse a deletion in the same  *)
(* way; a refused one changes nothing.                                      *)
Referred(w) == (\E t \in Known : tasks[t].space = w) \/ (\E k \in DOMAIN links : links[k].space = w)

DeleteSpace(u, w) ==
  /\ req[u] = Idle /\ w \in Open /\ owner[w] = u
  /\ ~ Referred(w)
  /\ owner' = Without(owner, {w})
  /\ UNCHANGED <<tasks, deps, counter, links, clock, req, named, last>>

-----------------------------------------------------------------------------
(* TaskDB.create: _next_seq commits before the row is inserted. *)
MaxNumber == IF Known = {} THEN 0 ELSE CHOOSE n \in 0 .. MaxDraws :
               /\ \E t \in Known : tasks[t].seq = n
               /\ \A t \in Known : tasks[t].seq <= n
NextSeqOfRows == 1 + MaxNumber  \* the highest number in use, plus one

NextSeq == counter + 1

CreateNumber(u, t, w, D) ==
  /\ counter + clock < MaxDraws
  /\ Start(u, [at |-> "insert", task |-> t, space |-> w, on |-> D, seq |-> NextSeq])
  /\ counter' = counter + 1
  /\ UNCHANGED <<owner, tasks, deps, links, clock, named, last>>

(* An identifier already in use keeps its number and changes hands.  What   *)
(* the foreign keys refuse leaves nothing but the number drawn.             *)
CreateInsert(u) ==
  LET r == req[u]
      t == r.task
      seq == IF t \in Known THEN tasks[t].seq ELSE r.seq
  IN
  /\ r.at = "insert"
  /\ \/ /\ r.space \in Open /\ r.on \subseteq Known \cup {t}
        /\ tasks' = With(tasks, t, [space |-> r.space, seq |-> seq, user |-> u])
        /\ deps' = deps \cup ({t} \X r.on)
        /\ named' = IF seq \in DOMAIN named THEN named ELSE With(named, seq, t)
     \/ /\ ~ (r.space \in Open /\ r.on \subseteq Known \cup {t})
        /\ UNCHANGED <<tasks, deps, named>>
  /\ End(u)
  /\ UNCHANGED <<owner, counter, links, clock, last>>

(* Dependencies go with either task. *)
DeleteTask(u, t) ==
  /\ req[u] = Idle /\ Mine(u, t)
  /\ tasks' = Without(tasks, {t})
  /\ deps' = {d \in deps : t \notin {d[1], d[2]}}
  /\ UNCHANGED <<owner, counter, links, clock, req, named, last>>

(* POST and DELETE /api/tasks/<id>/deps: both tasks are looked up first;   *)
(* neither their workspaces nor cycles are looked at.                      *)
LinkLook(u, t, d) ==
  /\ Mine(u, t) /\ Mine(u, d)
  /\ Start(u, [at |-> "depend", task |-> t, on |-> d])
  /\ UNCHANGED <<owner, tasks, deps, counter, links, clock, named, last>>

LinkWrite(u) ==
  LET r == req[u] IN
  /\ r.at = "depend"
  /\ deps' = IF Mine(u, r.task) /\ r.on \in Known THEN deps \cup {<<r.task, r.on>>} ELSE deps
  /\ End(u)
  /\ UNCHANGED <<owner, tasks, counter, links, clock, named, last>>

UnlinkLook(u, t, d) ==
  /\ Mine(u, t) /\ <<t, d>> \in deps
  /\ Start(u, [at |-> "free", task |-> t, on |-> d])
  /\ UNCHANGED <<owner, tasks, deps, counter, links, clock, named, last>>

UnlinkWrite(u) ==
  LET r == req[u] IN
  /\ r.at = "free"
  /\ deps' = IF Mine(u, r.task) THEN deps \ {<<r.task, r.on>>} ELSE deps
  /\ End(u)
  /\ UNCHANGED <<owner, tasks, counter, links, clock, named, last>>

-----------------------------------------------------------------------------
(* WorkspaceSessionLinkDB.upsert: one row for each provider and session. *)
KeepsTime(p, s) == IF <<p, s>> \in DOMAIN links THEN links[<<p, s>>].time ELSE clock + 1
AttachedAt(p, s) == clock + 1

Attach(w, p, s) ==
  /\ counter + clock < MaxDraws /\ w \in Open
  /\ clock' = clock + 1
  /\ links' = With(links, <<p, s>>, [space |-> w, time |-> AttachedAt(p, s)])
  /\ last' = [last EXCEPT ![s] = w]
  /\ UNCHANGED <<owner, tasks, deps, counter, req, named>>

(* delete_from_workspace: whatever the provider. *)
Detach(w, s) ==
  LET gone == {k \in DOMAIN links : k[2] = s /\ links[k].space = w} IN
  /\ gone # {}
  /\ links' = Without(links, gone)
  /\ last' = [last EXCEPT ![s] = IF @ = w THEN Nowhere ELSE @]
  /\ UNCHANGED <<owner, tasks, deps, counter, clock, req, named>>

(* resolve: the link attached last, whatever the provider. *)
OfSession(s) == {k \in DOMAIN links : k[2] = s}
Resolved(s) ==
  IF OfSession(s) = {} THEN Nowhere
  ELSE links[CHOOSE k \in OfSession(s) :
               \A l \in OfSession(s) : links[l].time <= links[k].time].space

Next ==
  \/ \E u \in Users, w \in Spaces : CreateSpace(u, w) \/ DeleteSpace(u, w)
  \/ \E u \in Users, t \in Tasks, w \in Spaces, D \in {{}} \cup {{t2} : t2 \in Tasks} :
       CreateNumber(u, t, w, D)
  \/ \E u \in Users, t, d \in Tasks : LinkLook(u, t, d) \/ UnlinkLook(u, t, d)
  \/ \E u \in Users, t \in Tasks : DeleteTask(u, t)
  \/ \E u \in Users : CreateInsert(u) \/ LinkWrite(u) \/ UnlinkWrite(u)
  \/ \E w \in Spaces, p \in Providers, s \in Sessions : Attach(w, p, s)
  \/ \E w \in Spaces, s \in Sessions : Detach(w, s)

Spec == Init /\ [][Next]_vars

-----------------------------------------------------------------------------
TypeOK ==
  /\ Open \subseteq Spaces /\ \A w \in Open : owner[w] \in Users
  /\ Known \subseteq Tasks
  /\ \A t \in Known : tasks[t] \in [space : Open, seq : 1 .. counter, user : Users]
  /\ deps \subseteq Known \X Known
  /\ counter + clock \in 0 .. MaxDraws
  /\ DOMAIN links \subseteq Providers \X Sessions
  /\ \A k \in DOMAIN links : links[k] \in [space : Open, time : 1 .. clock]
  /\ DOMAIN named \subseteq 1 .. counter

(* A number, once a task has borne it, never comes to name another task,    *)
(* although tasks are deleted, created again under the same identifier and  *)
(* refused after their number was drawn (src/db/tasks.py:72).               *)
NumbersNameOneTask == \A t \in Known : named[tasks[t].seq] = t

(* A session resolves to the workspace it was attached to last, under       *)
(* whatever provider, until it is detached from it                          *)
(* (src/db/workspace_session_links.py:19).                                  *)
ResolvesToLast == \A s \in Sessions : last[s] # Nowhere => Resolved(s) = last[s]
=============================================================================
