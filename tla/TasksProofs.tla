--------------------------- MODULE TasksProofs --------------------------------
(***************************************************************************)
(* Theorems about TaskClaims: for any tasks, runners, people, routes and   *)
(* entries, claims exclude one another but for what others write, and a    *)
(* filed run is lost to a request that overlapped only.  About Workdays:   *)
(* work rolls over to an open day.  About Workspaces: a number names one   *)
(* task, and a session is where it was attached last.                      *)
(***************************************************************************)
EXTENDS MCTasks, WellFoundedInduction, TLAPS

-----------------------------------------------------------------------------
(* What a request in flight carries. *)
LEMMA RequestTypes ==
  ASSUME NEW r \in Requests
  PROVE  /\ r # Idle => r.task \in Tasks
         /\ r.at = "arm" => r.ready \in BOOLEAN
         /\ r.at = "decide" => r.status \in Statuses /\ r.comments \in SUBSET Entries
         /\ r.at = "comment" => r.comments \in SUBSET Entries
         /\ r.at = "patch" => r.runs \in SUBSET Entries /\ r.entry \in Entries
         /\ r.at = "write" => r.config \in Configs /\ r.arm \in BOOLEAN
         /\ r.at = "write" /\ "entry" \in DOMAIN r => r.entry \in Entries
  BY DEF Requests, Idle

LEMMA TypeInit == Init => TypeOK
  BY DEF Init, TypeOK, Configs, Statuses, Requests, Idle, Phases

LEMMA TypeStep == ASSUME TypeOK, [Next]_vars PROVE TypeOK'
<1> USE DEF TypeOK, history, Override, Wrote, Deciding
<1>1. ASSUME NEW a \in Actors, NEW t \in Tasks, NEW s \in Statuses, PutStatus(a, t, s), UNCHANGED plan PROVE TypeOK'
  BY <1>1 DEF PutStatus, Start, Requests, Arms
<1>2. ASSUME NEW a \in Actors, SetReadyState(a), UNCHANGED plan PROVE TypeOK'
  BY <1>2, RequestTypes DEF SetReadyState, End, Requests, Idle
<1>3. ASSUME NEW p \in People, NEW t \in Tasks, NEW b \in BOOLEAN, ToggleReady(p, t, b), UNCHANGED plan PROVE TypeOK'
  BY <1>3 DEF ToggleReady, Start, Requests, Actors
<1>4. ASSUME NEW r \in Runners, NextTask(r), UNCHANGED plan PROVE TypeOK'
  BY <1>4 DEF NextTask, Queue
<1>5. ASSUME NEW r \in Runners, NEW t \in Tasks, Claim(r, t), UNCHANGED plan PROVE TypeOK'
  <2>1. CASE Claimable(t) /\ status' = [status EXCEPT ![t] = "in-progress"]
              /\ ready' = [ready EXCEPT ![t] = FALSE] /\ running' = [running EXCEPT ![t] = @ \cup {r}]
              /\ Override(r, t, FALSE) /\ Wrote(r, t)
    BY <1>5, <2>1 DEF Claim, Statuses
  <2>2. CASE UNCHANGED <<status, ready, running, overridden, stale>>
    BY <1>5, <2>2 DEF Claim
  <2> QED BY <1>5, <2>1, <2>2 DEF Claim
<1>6. ASSUME NEW p \in People, NEW t \in Tasks, NEW b \in BOOLEAN, ReviewLook(p, t, b), UNCHANGED plan PROVE TypeOK'
  <2>1. Decided(b, config[t]) \in Statuses
    BY DEF Decided, Statuses, Phases
  <2>2. PICK e \in Fresh : Start(p, [at |-> "decide", task |-> t, entry |-> e, status |-> Decided(b, config[t]),
                                     comments |-> comments[t] \cup {e}])
    BY <1>6 DEF ReviewLook
  <2>3. e \in Entries
    BY DEF Fresh
  <2>4. [at |-> "decide", task |-> t, entry |-> e, status |-> Decided(b, config[t]),
         comments |-> comments[t] \cup {e}] \in Requests
    BY <2>1, <2>3 DEF Requests
  <2> QED BY <1>6, <2>2, <2>4 DEF ReviewLook, Start, Actors
<1>7. ASSUME NEW p \in People, ReviewWrite(p), UNCHANGED plan PROVE TypeOK'
  <2>1. req[p] \in Requests /\ req[p].at = "decide" /\ req[p] # Idle
    BY <1>7 DEF ReviewWrite, Actors, Idle
  <2>2. [at |-> "arm", task |-> req[p].task, ready |-> req[p].status \in {"ready", "approved"}] \in Requests
    BY <2>1, RequestTypes DEF Requests
  <2> QED BY <1>7, <2>1, <2>2, RequestTypes DEF ReviewWrite, Actors
<1>8. ASSUME NEW p \in People, NEW t \in Tasks, CommentLook(p, t), UNCHANGED plan PROVE TypeOK'
  <2>1. PICK e \in Fresh : Start(p, [at |-> "comment", task |-> t, entry |-> e, comments |-> comments[t] \cup {e}])
    BY <1>8 DEF CommentLook
  <2>2. [at |-> "comment", task |-> t, entry |-> e, comments |-> comments[t] \cup {e}] \in Requests
    BY DEF Requests, Fresh
  <2> QED BY <1>8, <2>1, <2>2 DEF CommentLook, Start, Actors
<1>9. ASSUME NEW p \in People, CommentWrite(p), UNCHANGED plan PROVE TypeOK'
  BY <1>9, RequestTypes DEF CommentWrite, End, Requests, Idle, Actors
<1>10. ASSUME NEW r \in Actors, NEW t \in Tasks, RunLook(r, t), UNCHANGED plan PROVE TypeOK'
  <2>1. PICK e \in Fresh : Start(r, [at |-> "patch", task |-> t, entry |-> e, runs |-> config[t].runs \cup {e}])
    BY <1>10 DEF RunLook
  <2>2. [at |-> "patch", task |-> t, entry |-> e, runs |-> config[t].runs \cup {e}] \in Requests
    BY DEF Requests, Fresh, Configs
  <2> QED BY <1>10, <2>1, <2>2 DEF RunLook, Start, Actors
<1>11. ASSUME NEW a \in Actors, PatchRead(a), UNCHANGED plan PROVE TypeOK'
  <2>1. req[a] \in Requests /\ req[a].at = "patch" /\ req[a] # Idle
    BY <1>11 DEF PatchRead, Idle
  <2>2. [kind |-> config[req[a].task].kind, runs |-> req[a].runs] \in Configs
    BY <2>1, RequestTypes DEF Configs
  <2>3. [at |-> "write", task |-> req[a].task, entry |-> req[a].entry, arm |-> FALSE,
         config |-> [kind |-> config[req[a].task].kind, runs |-> req[a].runs]] \in Requests
    BY <2>1, <2>2, RequestTypes DEF Requests
  <2> QED BY <1>11, <2>3 DEF PatchRead
<1>12. ASSUME NEW p \in People, NEW t \in Tasks, NEW k \in Kinds, NEW b \in BOOLEAN, ConfigRead(p, t, k, b), UNCHANGED plan
       PROVE TypeOK'
  <2>1. [kind |-> k, runs |-> config[t].runs] \in Configs
    BY DEF Configs
  <2>2. [at |-> "write", task |-> t, arm |-> b, config |-> [kind |-> k, runs |-> config[t].runs]] \in Requests
    BY <2>1 DEF Requests
  <2> QED BY <1>12, <2>2 DEF ConfigRead, Start, Actors
<1>13. ASSUME NEW a \in Actors, ConfigWrite(a), UNCHANGED plan PROVE TypeOK'
  <2>1. req[a] \in Requests /\ req[a].at = "write" /\ req[a] # Idle
    BY <1>13 DEF ConfigWrite, Idle
  <2>2. Idle \in Requests
    BY DEF Requests
  <2>3. (IF "entry" \in DOMAIN req[a] THEN {req[a].entry} ELSE {}) \subseteq Entries
    BY <2>1, RequestTypes
  <2>4. PICK run : run = IF "entry" \in DOMAIN req[a] THEN {req[a].entry} ELSE {}
    OBVIOUS
  <2>5. /\ config' = [config EXCEPT ![req[a].task] = req[a].config]
        /\ ready' = [ready EXCEPT ![req[a].task] = req[a].arm \/ @]
        /\ filed' = [filed EXCEPT ![req[a].task] = @ \cup run]
        /\ crossed' = IF Writers(req[a].task) \subseteq {a} THEN crossed ELSE crossed \cup run
        /\ req' = [req EXCEPT ![a] = Idle]
        /\ UNCHANGED <<status, comments, offer, running, overridden, stale>>
    BY <1>13, <2>4 DEF ConfigWrite, End
  <2>6. req[a].task \in Tasks /\ req[a].config \in Configs /\ req[a].arm \in BOOLEAN
    BY <2>1, RequestTypes
  <2>7. ready' \in [Tasks -> BOOLEAN]
    BY <2>5, <2>6, Zenon
  <2>8. filed' \in [Tasks -> SUBSET Entries] /\ crossed' \subseteq Entries
    BY <2>3, <2>4, <2>5, <2>6
  <2> QED BY <1>13, <2>2, <2>5, <2>6, <2>7, <2>8
<1>14. CASE UNCHANGED vars
  BY <1>14 DEF vars
<1>15. ASSUME NEW r \in Runners, RunnerStep(r), UNCHANGED plan PROVE TypeOK'
  BY <1>15, <1>4, <1>5 DEF RunnerStep
<1>16. ASSUME NEW p \in People, PersonStep(p), UNCHANGED plan PROVE TypeOK'
  <2>2. CASE \E t \in Tasks, b \in BOOLEAN : ToggleReady(p, t, b) \/ ReviewLook(p, t, b)
    BY <1>16, <2>2, <1>3, <1>6
  <2>3. CASE \E t \in Tasks : CommentLook(p, t)
    BY <1>16, <2>3, <1>8
  <2>4. CASE \E t \in Tasks, k \in Kinds, b \in BOOLEAN : ConfigRead(p, t, k, b)
    BY <1>16, <2>4, <1>12
  <2>5. CASE ReviewWrite(p) \/ CommentWrite(p)
    BY <1>16, <2>5, <1>7, <1>9
  <2> QED BY <1>16, <2>2, <2>3, <2>4, <2>5, Zenon DEF PersonStep
<1>17. ASSUME NEW a \in Actors, AnyStep(a), UNCHANGED plan PROVE TypeOK'
  BY <1>17, <1>1, <1>2, <1>10, <1>11, <1>13, TasksAssumption DEF AnyStep
<1> QED
  BY <1>14, <1>15, <1>16, <1>17, Zenon DEF Next

-----------------------------------------------------------------------------
(* Rows, requests and the history of runs keep their types (src/db/tasks.py). *)
THEOREM TypeCorrect == Spec => []TypeOK
<1>1. TypeOK /\ [Next]_vars => TypeOK'
  BY TypeStep
<1> QED
  BY <1>1, TypeInit, PTL DEF Spec

-----------------------------------------------------------------------------
(* A task that is executed is in progress, unless someone else moved it    *)
(* on; and one a review is about to decide waits for it, unless its status *)
(* was written since.                                                      *)
Busy == \A t \in Tasks : status[t] # "in-progress" => running[t] \subseteq overridden[t]
Reviewed == \A p \in People : req[p].at = "decide" /\ p \notin stale => status[req[p].task] = "human-review"
OneInv == TypeOK /\ OneRunner /\ Busy /\ Reviewed

LEMMA OneInit == Init => OneInv
<1> SUFFICES ASSUME Init PROVE OneInv
  OBVIOUS
<1> QED BY TypeInit DEF Init, OneInv, OneRunner, Busy, Reviewed, Idle, Actors

(* What a written status leaves: the reviews not out of date are of other  *)
(* tasks.                                                                  *)
LEMMA OthersReviewed ==
  ASSUME OneInv, TypeOK', NEW a \in Actors, NEW t \in Tasks, Wrote(a, t), req'[a].at # "decide",
         \A b \in Actors \ {a} : req'[b] = req[b], \A u \in Tasks \ {t} : status'[u] = status[u]
  PROVE  Reviewed'
<1> SUFFICES ASSUME NEW p \in People, req'[p].at = "decide", p \notin stale'
             PROVE  status'[req'[p].task] = "human-review"
  BY DEF Reviewed
<1>1. p # a /\ p \in Actors /\ req'[p] = req[p]
  BY DEF Actors
<1>2. p \notin stale /\ p \notin Deciding(t)
  BY <1>1 DEF Wrote
<1>3. req[p].task # t /\ req[p].task \in Tasks
  BY <1>1, <1>2, RequestTypes DEF Deciding, OneInv, TypeOK, Idle
<1> QED
  BY <1>1, <1>2, <1>3 DEF OneInv, Reviewed

LEMMA OneStep == ASSUME OneInv, [Next]_vars PROVE OneInv'
<1> USE DEF OneInv
<1>0. TypeOK'
  BY TypeStep
<1>1. ASSUME NEW a \in Actors, NEW t \in Tasks, NEW s \in Statuses, PutStatus(a, t, s) PROVE OneInv'
  <2>1. /\ running'[t] = running[t] \ {a} /\ overridden'[t] = running[t] \ {a}
        /\ \A u \in Tasks \ {t} : running'[u] = running[u] /\ overridden'[u] = overridden[u] /\ status'[u] = status[u]
    BY <1>1 DEF PutStatus, Override, TypeOK
  <2>2. req'[a].at = "arm" /\ \A b \in Actors \ {a} : req'[b] = req[b]
    BY <1>1 DEF PutStatus, Start, TypeOK
  <2>3. Reviewed'
    BY <1>0, <1>1, <2>1, <2>2, OthersReviewed DEF PutStatus
  <2> QED BY <1>0, <2>1, <2>3 DEF OneRunner, Busy
<1>2. ASSUME NEW r \in Runners, NEW t \in Tasks, Claim(r, t) PROVE OneInv'
  <2>1. CASE UNCHANGED <<status, ready, running, overridden, stale>>
    BY <1>0, <1>2, <2>1 DEF Claim, OneRunner, Busy, Reviewed
  <2>2. CASE Claimable(t) /\ status' = [status EXCEPT ![t] = "in-progress"]
             /\ running' = [running EXCEPT ![t] = @ \cup {r}] /\ Override(r, t, FALSE) /\ Wrote(r, t)
    <3>1. running[t] \subseteq overridden[t]
      BY <2>2 DEF Claimable, Phases, Busy
    <3>2. /\ running'[t] = running[t] \cup {r} /\ overridden'[t] = overridden[t] \ {r} /\ status'[t] = "in-progress"
          /\ \A u \in Tasks \ {t} : running'[u] = running[u] /\ overridden'[u] = overridden[u] /\ status'[u] = status[u]
      BY <2>2 DEF Override, TypeOK
    <3>3. req' = req /\ r \in Actors /\ req[r] = Idle
      BY <1>2 DEF Claim, Actors
    <3>4. Reviewed'
      BY <1>0, <2>2, <3>2, <3>3, OthersReviewed DEF Idle
    <3> QED BY <1>0, <3>1, <3>2, <3>4 DEF OneRunner, Busy
  <2> QED BY <1>2, <2>1, <2>2 DEF Claim
<1>3. ASSUME NEW p \in People, ReviewWrite(p) PROVE OneInv'
  <2>0. PICK t : t = req[p].task
    OBVIOUS
  <2>1. p \in Actors /\ req[p] \in Requests /\ req[p].at = "decide" /\ t \in Tasks
    BY <1>3, <2>0, RequestTypes DEF ReviewWrite, Actors, Idle, TypeOK
  <2>2. p \notin stale => running[t] \subseteq overridden[t]
    BY <2>0, <2>1 DEF Busy, Reviewed
  <2>3. /\ running' = running /\ running[t] \ overridden'[t] \subseteq {}
        /\ \A u \in Tasks \ {t} : overridden'[u] = overridden[u] /\ status'[u] = status[u]
    <3>1. Override(p, t, p \in stale) /\ running' = running /\ status' = [status EXCEPT ![t] = req[p].status]
      BY <1>3, <2>0 DEF ReviewWrite
    <3>2. p \notin Runners
      BY TasksAssumption
    <3>3. overridden'[t] = (IF p \in stale THEN running[t] ELSE overridden[t]) \ {p}
      BY <2>1, <3>1 DEF Override, TypeOK
    <3>4. running[t] \subseteq Runners
      BY <2>1 DEF TypeOK
    <3>5. \A u \in Tasks \ {t} : overridden'[u] = overridden[u] /\ status'[u] = status[u]
      BY <2>1, <3>1 DEF Override, TypeOK
    <3> QED BY <2>2, <3>1, <3>2, <3>3, <3>4, <3>5
  <2>4. req'[p].at = "arm" /\ (\A b \in Actors \ {p} : req'[b] = req[b]) /\ Wrote(p, t)
    BY <1>3, <2>0, <2>1 DEF ReviewWrite, TypeOK
  <2>5. Reviewed'
    BY <1>0, <2>1, <2>3, <2>4, OthersReviewed
  <2> QED BY <1>0, <2>3, <2>5 DEF OneRunner, Busy
<1>4. ASSUME NEW p \in People, NEW t \in Tasks, NEW b \in BOOLEAN, ReviewLook(p, t, b) PROVE OneInv'
  <2>1. status[t] = "human-review" /\ status' = status /\ UNCHANGED <<running, overridden, stale>>
    BY <1>4 DEF ReviewLook, history
  <2>2. req'[p].task = t /\ \A x \in People \ {p} : req'[x] = req[x]
    BY <1>4 DEF ReviewLook, Start, TypeOK, Actors
  <2> QED BY <1>0, <2>1, <2>2 DEF OneRunner, Busy, Reviewed
<1>5. ASSUME NEW a \in Actors, UNCHANGED <<status, running, overridden, stale>>, req'[a].at # "decide",
             \A b \in Actors \ {a} : req'[b] = req[b]
      PROVE  OneInv'
  BY <1>0, <1>5 DEF OneRunner, Busy, Reviewed, Actors
<1>6. ASSUME NEW p \in People, NEW t \in Tasks, NEW b \in BOOLEAN, ToggleReady(p, t, b) PROVE OneInv'
  BY <1>5, <1>6 DEF ToggleReady, Start, TypeOK, Actors, history
<1>7. ASSUME NEW p \in People, NEW t \in Tasks, CommentLook(p, t) PROVE OneInv'
  <2>1. PICK e \in Fresh : Start(p, [at |-> "comment", task |-> t, entry |-> e, comments |-> comments[t] \cup {e}])
    BY <1>7 DEF CommentLook
  <2>2. req'[p].at # "decide" /\ \A b \in Actors \ {p} : req'[b] = req[b]
    BY <2>1 DEF Start, TypeOK, Actors
  <2> QED BY <1>5, <1>7, <2>2 DEF CommentLook, Actors, history
<1>8. ASSUME NEW p \in People, NEW t \in Tasks, NEW k \in Kinds, NEW b \in BOOLEAN, ConfigRead(p, t, k, b) PROVE OneInv'
  BY <1>5, <1>8 DEF ConfigRead, Start, TypeOK, Actors, history
<1>9. ASSUME NEW a \in Actors, NEW t \in Tasks, RunLook(a, t) PROVE OneInv'
  <2>1. PICK e \in Fresh : Start(a, [at |-> "patch", task |-> t, entry |-> e, runs |-> config[t].runs \cup {e}])
    BY <1>9 DEF RunLook
  <2>2. req'[a].at # "decide" /\ \A b \in Actors \ {a} : req'[b] = req[b]
    BY <2>1 DEF Start, TypeOK
  <2> QED BY <1>5, <1>9, <2>2 DEF RunLook, history
<1>10. ASSUME NEW p \in People, CommentWrite(p) PROVE OneInv'
  BY <1>5, <1>10 DEF CommentWrite, End, Idle, TypeOK, Actors, history
<1>11. ASSUME NEW a \in Actors, SetReadyState(a) \/ PatchRead(a) \/ ConfigWrite(a) PROVE OneInv'
  BY <1>5, <1>11 DEF SetReadyState, PatchRead, ConfigWrite, End, Idle, TypeOK, history
<1>12. ASSUME NEW r \in Runners, NextTask(r) PROVE OneInv'
  BY <1>0, <1>12 DEF NextTask, OneRunner, Busy, Reviewed, history
<1>13. CASE UNCHANGED vars
  BY <1>0, <1>13 DEF vars, history, OneRunner, Busy, Reviewed
<1>14. ASSUME NEW r \in Runners, RunnerStep(r) PROVE OneInv'
  BY <1>14, <1>2, <1>12 DEF RunnerStep
<1>15. ASSUME NEW p \in People, PersonStep(p) PROVE OneInv'
  <2>1. CASE \E t \in Tasks, b \in BOOLEAN : ToggleReady(p, t, b) \/ ReviewLook(p, t, b)
    BY <2>1, <1>4, <1>6
  <2>2. CASE \E t \in Tasks : CommentLook(p, t)
    BY <2>2, <1>7
  <2>3. CASE \E t \in Tasks, k \in Kinds, b \in BOOLEAN : ConfigRead(p, t, k, b)
    BY <2>3, <1>8
  <2>4. CASE ReviewWrite(p) \/ CommentWrite(p)
    BY <2>4, <1>3, <1>10
  <2> QED BY <1>15, <2>1, <2>2, <2>3, <2>4, Zenon DEF PersonStep
<1>16. ASSUME NEW a \in Actors, AnyStep(a) PROVE OneInv'
  BY <1>16, <1>1, <1>9, <1>11, TasksAssumption DEF AnyStep
<1> QED
  BY <1>13, <1>14, <1>15, <1>16 DEF Next

(* Claims exclude one another (src/db/tasks.py:518): two runners execute a  *)
(* task only if someone else wrote its status meanwhile, or a review was    *)
(* decided on a status written since it was read.                           *)
THEOREM ClaimsExclude == Spec => []OneRunner
<1>1. OneInv /\ [Next]_vars => OneInv'
  BY OneStep
<1>2. OneInv => OneRunner
  BY DEF OneInv
<1> QED
  BY <1>1, <1>2, OneInit, PTL DEF Spec

-----------------------------------------------------------------------------
(* What a request is about to write back lacks nothing that was filed,     *)
(* but for what was filed since it read the list; and it has its own run.  *)
Complete(t, runs) == filed[t] \ crossed \subseteq runs
Posting(a) ==
  /\ req[a].at = "patch" => Complete(req[a].task, req[a].runs) /\ req[a].entry \in req[a].runs
  /\ req[a].at = "write" =>
       Complete(req[a].task, req[a].config.runs) /\ ("entry" \in DOMAIN req[a] => req[a].entry \in req[a].config.runs)
RunsInv == TypeOK /\ RunsKept /\ \A a \in Actors : Posting(a)

LEMMA RunsInit == Init => RunsInv
  BY TypeInit DEF Init, RunsInv, RunsKept, Posting, Idle

(* What leaves runs and their posting alone. *)
LEMMA RunsUntouched ==
  ASSUME RunsInv, TypeOK', UNCHANGED <<config, filed, crossed>>,
         \A a \in Actors : req'[a] = req[a] \/ req'[a].at \notin {"patch", "write"}
  PROVE  RunsInv'
<1>1. RunsKept'
  BY DEF RunsInv, RunsKept
<1>2. \A a \in Actors : Posting(a)'
  BY DEF RunsInv, Posting, Complete
<1> QED
  BY <1>1, <1>2 DEF RunsInv

LEMMA RunsStep == ASSUME RunsInv, [Next]_vars PROVE RunsInv'
<1>0. TypeOK' /\ TypeOK
  BY TypeStep DEF RunsInv
<1>1. ASSUME NEW a \in Actors, NEW t \in Tasks, NEW s, PutStatus(a, t, s) PROVE RunsInv'
  BY <1>0, <1>1, RunsUntouched DEF PutStatus, Start, TypeOK
<1>2. ASSUME NEW r \in Runners, NEW t \in Tasks, Claim(r, t) PROVE RunsInv'
  BY <1>0, <1>2, RunsUntouched DEF Claim
<1>3. ASSUME NEW r \in Runners, NextTask(r) PROVE RunsInv'
  BY <1>0, <1>3, RunsUntouched DEF NextTask, history
<1>4. ASSUME NEW a \in Actors, UNCHANGED <<config, filed, crossed>>, req'[a].at \notin {"patch", "write"},
             \A b \in Actors \ {a} : req'[b] = req[b]
      PROVE  RunsInv'
  BY <1>0, <1>4, RunsUntouched
<1>5. ASSUME NEW p \in People, NEW t \in Tasks, NEW b \in BOOLEAN, ReviewLook(p, t, b) PROVE RunsInv'
  BY <1>0, <1>4, <1>5 DEF ReviewLook, Start, TypeOK, Actors, history
<1>6. ASSUME NEW p \in People, NEW t \in Tasks, NEW b \in BOOLEAN, ToggleReady(p, t, b) PROVE RunsInv'
  BY <1>0, <1>4, <1>6 DEF ToggleReady, Start, TypeOK, Actors, history
<1>7. ASSUME NEW p \in People, NEW t \in Tasks, CommentLook(p, t) PROVE RunsInv'
  <2>1. PICK e \in Fresh : Start(p, [at |-> "comment", task |-> t, entry |-> e, comments |-> comments[t] \cup {e}])
    BY <1>7 DEF CommentLook
  <2>2. req'[p].at = "comment" /\ \A b \in Actors \ {p} : req'[b] = req[b]
    BY <1>0, <2>1 DEF Start, TypeOK, Actors
  <2> QED BY <1>4, <1>7, <2>2 DEF CommentLook, Actors, history
<1>8. ASSUME NEW p \in People, ReviewWrite(p) \/ CommentWrite(p) PROVE RunsInv'
  BY <1>0, <1>4, <1>8 DEF ReviewWrite, CommentWrite, End, Idle, TypeOK, Actors, history
<1>9. ASSUME NEW a \in Actors, SetReadyState(a) PROVE RunsInv'
  BY <1>0, <1>4, <1>9 DEF SetReadyState, End, Idle, TypeOK, history
<1>10. ASSUME NEW a \in Actors, NEW t \in Tasks, RunLook(a, t) PROVE RunsInv'
  <2>1. PICK e \in Fresh : Start(a, [at |-> "patch", task |-> t, entry |-> e, runs |-> config[t].runs \cup {e}])
    BY <1>10 DEF RunLook
  <2>2. /\ req'[a] = [at |-> "patch", task |-> t, entry |-> e, runs |-> config[t].runs \cup {e}]
        /\ \A b \in Actors \ {a} : req'[b] = req[b]
    BY <1>0, <2>1 DEF Start, TypeOK
  <2>3. UNCHANGED <<config, filed, crossed>>
    BY <1>10 DEF RunLook, history
  <2>4. Posting(a)'
    BY <2>2, <2>3 DEF Posting, Complete, RunsInv, RunsKept
  <2>5. \A b \in Actors \ {a} : Posting(b)'
    BY <2>2, <2>3 DEF Posting, Complete, RunsInv
  <2> QED BY <1>0, <2>3, <2>4, <2>5 DEF RunsInv, RunsKept
<1>11. ASSUME NEW a \in Actors, PatchRead(a) PROVE RunsInv'
  <2>1. /\ req[a].at = "patch"
        /\ req'[a] = [at |-> "write", task |-> req[a].task, entry |-> req[a].entry, arm |-> FALSE,
                      config |-> [kind |-> config[req[a].task].kind, runs |-> req[a].runs]]
        /\ \A b \in Actors \ {a} : req'[b] = req[b]
        /\ UNCHANGED <<config, filed, crossed>>
    BY <1>0, <1>11 DEF PatchRead, TypeOK, history
  <2>2. Posting(a)'
    BY <2>1 DEF RunsInv, Posting, Complete
  <2>3. \A b \in Actors \ {a} : Posting(b)'
    BY <2>1 DEF Posting, Complete, RunsInv
  <2> QED BY <1>0, <2>1, <2>2, <2>3 DEF RunsInv, RunsKept
<1>12. ASSUME NEW p \in People, NEW t \in Tasks, NEW k \in Kinds, NEW b \in BOOLEAN, ConfigRead(p, t, k, b)
       PROVE  RunsInv'
  <2>1. /\ req'[p] = [at |-> "write", task |-> t, arm |-> b, config |-> [kind |-> k, runs |-> config[t].runs]]
        /\ \A x \in Actors \ {p} : req'[x] = req[x]
        /\ UNCHANGED <<config, filed, crossed>>
    BY <1>0, <1>12 DEF ConfigRead, Start, TypeOK, Actors, history
  <2>2. Posting(p)'
    BY <2>1 DEF Posting, Complete, RunsInv, RunsKept
  <2>3. \A x \in Actors \ {p} : Posting(x)'
    BY <2>1 DEF Posting, Complete, RunsInv
  <2> QED BY <1>0, <2>1, <2>2, <2>3 DEF RunsInv, RunsKept
<1>13. ASSUME NEW a \in Actors, ConfigWrite(a) PROVE RunsInv'
  <2>0. PICK t, runs, run : t = req[a].task /\ runs = req[a].config.runs
                            /\ run = IF "entry" \in DOMAIN req[a] THEN {req[a].entry} ELSE {}
    OBVIOUS
  <2>1. req[a].at = "write" /\ t \in Tasks
    BY <1>0, <1>13, <2>0, RequestTypes DEF ConfigWrite, TypeOK, Idle
  <2>2. req'[a] = Idle /\ \A b \in Actors \ {a} : req'[b] = req[b]
    BY <1>0, <1>13 DEF ConfigWrite, End, TypeOK
  <2>3. \A u \in Tasks \ {t} : config'[u] = config[u] /\ filed'[u] = filed[u]
    BY <1>0, <1>13, <2>0 DEF ConfigWrite, TypeOK
  <2>4. config'[t].runs = runs /\ filed'[t] = filed[t] \cup run
    BY <1>0, <1>13, <2>0, <2>1 DEF ConfigWrite, TypeOK
  <2>5. crossed' = IF Writers(t) \subseteq {a} THEN crossed ELSE crossed \cup run
    BY <1>13, <2>0 DEF ConfigWrite
  <2>6. Complete(t, runs) /\ run \subseteq runs
    BY <2>0, <2>1 DEF RunsInv, Posting
  <2>7. \A u \in Tasks : filed'[u] \ crossed' \subseteq config'[u].runs
    BY <2>3, <2>4, <2>5, <2>6 DEF RunsInv, RunsKept, Complete
  <2>8. ASSUME NEW b \in Actors \ {a}, req[b].at \in {"patch", "write"}, NEW R, Complete(req[b].task, R)
        PROVE  Complete(req[b].task, R)'
    <3>1. CASE req[b].task = t
      <4>1. ~(Writers(t) \subseteq {a})
        BY <2>8, <3>1 DEF Writers
      <4>2. PICK u : u = req[b].task
        OBVIOUS
      <4>3. Complete(t, R)'
        BY <2>4, <2>5, <2>8, <3>1, <4>1 DEF Complete
      <4> QED BY <2>2, <3>1, <4>3 DEF Complete
    <3>2. CASE req[b].task # t
      <4>1. req[b].task \in Tasks /\ req'[b] = req[b]
        BY <1>0, <2>2, <2>8, RequestTypes DEF TypeOK, Idle
      <4> QED BY <2>3, <2>5, <2>8, <3>2, <4>1 DEF Complete
    <3> QED BY <3>1, <3>2
  <2>9. \A b \in Actors \ {a} : Posting(b)'
    <3> SUFFICES ASSUME NEW b \in Actors \ {a} PROVE Posting(b)'
      OBVIOUS
    <3>1. Posting(b) /\ req'[b] = req[b]
      BY <2>2 DEF RunsInv
    <3>2. req[b].at = "patch" => Complete(req[b].task, req[b].runs)'
      <4> SUFFICES ASSUME req[b].at = "patch" PROVE Complete(req[b].task, req[b].runs)'
        OBVIOUS
      <4>1. PICK R : R = req[b].runs
        OBVIOUS
      <4>2. Complete(req[b].task, R)
        BY <3>1, <4>1 DEF Posting
      <4>3. Complete(req[b].task, R)'
        BY <2>8, <4>2
      <4> QED BY <3>1, <4>1, <4>3 DEF Complete
    <3>3. req[b].at = "write" => Complete(req[b].task, req[b].config.runs)'
      <4> SUFFICES ASSUME req[b].at = "write" PROVE Complete(req[b].task, req[b].config.runs)'
        OBVIOUS
      <4>1. PICK R : R = req[b].config.runs
        OBVIOUS
      <4>2. Complete(req[b].task, R)
        BY <3>1, <4>1 DEF Posting
      <4>3. Complete(req[b].task, R)'
        BY <2>8, <4>2
      <4> QED BY <3>1, <4>1, <4>3 DEF Complete
    <3> QED BY <3>1, <3>2, <3>3 DEF Posting, Complete
  <2>10. Posting(a)'
    BY <2>2 DEF Posting, Idle
  <2> QED BY <1>0, <2>7, <2>9, <2>10 DEF RunsInv, RunsKept
<1>14. CASE UNCHANGED vars
  BY <1>0, <1>14, RunsUntouched DEF vars, history
<1>15. ASSUME NEW r \in Runners, RunnerStep(r) PROVE RunsInv'
  BY <1>15, <1>2, <1>3 DEF RunnerStep
<1>16. ASSUME NEW p \in People, PersonStep(p) PROVE RunsInv'
  <2>1. CASE \E t \in Tasks, b \in BOOLEAN : ToggleReady(p, t, b) \/ ReviewLook(p, t, b)
    BY <2>1, <1>5, <1>6
  <2>2. CASE \E t \in Tasks : CommentLook(p, t)
    BY <2>2, <1>7
  <2>3. CASE \E t \in Tasks, k \in Kinds, b \in BOOLEAN : ConfigRead(p, t, k, b)
    BY <2>3, <1>12
  <2>4. CASE ReviewWrite(p) \/ CommentWrite(p)
    BY <2>4, <1>8
  <2> QED BY <1>16, <2>1, <2>2, <2>3, <2>4, Zenon DEF PersonStep
<1>17. ASSUME NEW a \in Actors, AnyStep(a) PROVE RunsInv'
  BY <1>17, <1>1, <1>9, <1>10, <1>11, <1>13 DEF AnyStep
<1> QED
  BY <1>14, <1>15, <1>16, <1>17 DEF Next

(* A run that was filed stays filed (src/db/tasks.py:505), whoever posts    *)
(* runs and edits configurations at once, unless another such request had   *)
(* read the list when it was written.                                       *)
THEOREM FiledRunsStay == Spec => []RunsKept
<1>1. RunsInv /\ [Next]_vars => RunsInv'
  BY RunsStep
<1>2. RunsInv => RunsKept
  BY DEF RunsInv
<1> QED
  BY <1>1, <1>2, RunsInit, PTL DEF Spec

-----------------------------------------------------------------------------
(* Working days: Day, an instance of Workdays.                             *)

(* Windows and items have users.                                           *)
DaysSensible ==
  /\ UserOf \in [Tabs -> Users] /\ Owner \in [Items -> Users]
  /\ LastDay \in Nat /\ Horizon \in Nat

(* A window's request is at one of these.                                  *)
Steps == {"list", "record", "read", "move"}

(* The types of items, days and requests.                                  *)
DayTypes ==
  /\ date \in [Items -> Day!Dates] /\ done \in [Items -> BOOLEAN]
  /\ DOMAIN ended \subseteq Day!Days /\ \A d \in DOMAIN ended : ended[d] \in Users
  /\ \A b \in Tabs : tab[b] # Day!Idle =>
       /\ tab[b].at \in Steps
       /\ tab[b].days \subseteq Day!Days /\ tab[b].days # {}
       /\ tab[b].at = "list" => tab[b].to \in Day!Days
       /\ tab[b].at = "move" => tab[b].to \in Day!Dates
  /\ DOMAIN tab = Tabs
  /\ rolled \subseteq Items /\ late \subseteq Tabs
  /\ closed \subseteq Users \X Day!Dates /\ lapsed \subseteq Users \X Day!Dates

(* A window that has ended a day is about to move what waits there.        *)
Moves(b, i) ==
  /\ UserOf[b] = Owner[i] /\ tab[b] # Day!Idle /\ tab[b].at \in {"read", "move"}
  /\ date[i] <= Day!Min(tab[b].days)

(* What was rolled over waits on an open day, or will be moved again.      *)
Waits ==
  \A i \in rolled : ~done[i] =>
    date[i] \notin Day!EndedOf(Owner[i]) \/ \E b \in Tabs : Moves(b, i)

(* The day it moves to stays open, or is the day itself, unless another    *)
(* window has recorded it.                                                 *)
Ahead ==
  \A b \in Tabs : tab[b] # Day!Idle /\ tab[b].at = "move" =>
    \/ tab[b].to \notin Day!EndedOf(UserOf[b])
    \/ tab[b].to = Day!Min(tab[b].days)
    \/ b \in late

(* A day whose ending was answered, or will be, has its row, unless it is  *)
(* another user's or was opened again.                                     *)
HasRow(u, d) == d \in Day!EndedOf(u) \/ <<u, d>> \in lapsed
Recorded ==
  /\ \A u \in Users, d \in Day!Dates : <<u, d>> \in closed => HasRow(u, d)
  /\ \A b \in Tabs : tab[b] # Day!Idle /\ tab[b].at \in {"read", "move"} =>
       HasRow(UserOf[b], Day!Min(tab[b].days))

(* What every step keeps.                                                  *)
DayInv == DayTypes /\ Waits /\ Ahead /\ Recorded

(* Numbers have a least.                                                   *)
LEMMA LeastNumber ==
  ASSUME NEW T, T \subseteq Nat, T # {}
  PROVE  Day!Min(T) \in T /\ \A m \in T : Day!Min(T) <= m
<1>1. PICK n \in T : \A m \in T : ~(<<m, n>> \in OpToRel(<, Nat))
  BY NatLessThanWellFounded, WFMin
<1>2. \A m \in T : ~(m < n)
  BY <1>1 DEF OpToRel
<1>3. \A m \in T : n <= m
  BY <1>2
<1> QED
  BY <1>3 DEF Day!Min

(* The first of a window's days, and where the work of a day goes.         *)
LEMMA FirstDay ==
  ASSUME DaysSensible, DayTypes, NEW b \in Tabs, tab[b] # Day!Idle
  PROVE  /\ Day!Min(tab[b].days) \in tab[b].days /\ Day!Min(tab[b].days) \in Day!Days
         /\ Day!Min(tab[b].days) \in Nat
<1>1. tab[b].days \subseteq Nat /\ tab[b].days # {} /\ tab[b].days \subseteq Day!Days
  BY DEF DayTypes, Day!Days
<1> QED
  BY <1>1, LeastNumber

(* It is later and open, or else the day itself.                           *)
LEMMA NextDay ==
  ASSUME DaysSensible, NEW d \in Day!Days, NEW C, NEW w, NEW n, n = Day!NextWorkday(d, C, w)
  PROVE  n \in Day!Dates /\ (n \notin C \/ n = d)
<1> DEFINE free == {m \in d + 1 .. d + Horizon : Day!IsWorkday(m, w) /\ m \notin C}
<1>1. d \in Nat /\ 1 <= d /\ d <= LastDay /\ d + 1 \in Nat /\ d + Horizon <= LastDay + Horizon /\ LastDay \in Nat /\ Horizon \in Nat
  BY DEF Day!Days, DaysSensible
<1>2. CASE free = {}
  <2>1. n = d
    BY <1>2 DEF Day!NextWorkday
  <2> QED
    BY <1>1, <2>1 DEF Day!Dates
<1>3. CASE free # {}
  <2>1. n = Day!Min(free)
    BY <1>3 DEF Day!NextWorkday
  <2>2. free \subseteq Nat
    BY <1>1
  <2>3. n \in free
    <3> HIDE DEF free
    <3> QED
      BY <1>3, <2>1, <2>2, LeastNumber
  <2>4. n \in d + 1 .. d + Horizon /\ n \notin C
    BY <2>3
  <2>5. n \in 1 .. LastDay + Horizon
    BY <1>1, <2>4
  <2> QED
    BY <2>4, <2>5 DEF Day!Dates
<1> QED
  BY <1>2, <1>3

(* What a step of one window leaves to the others.                         *)
LEMMA OtherTabs ==
  ASSUME DayInv, NEW b \in Tabs, NEW r, tab' = [tab EXCEPT ![b] = r]
  PROVE  /\ DOMAIN tab' = Tabs /\ tab'[b] = r
         /\ \A c \in Tabs : c # b => tab'[c] = tab[c]
BY DEF DayInv, DayTypes

(* A window asks to end a day;                                             *)
LEMMA EndDayKeeps ==
  ASSUME DaysSensible, DayInv, NEW b \in Tabs, NEW d \in Day!Days, Day!EndDay(b, d)
  PROVE  DayInv'
<1> USE DEF DayInv
<1>1. PICK r : r = [at |-> "list", to |-> d,
                    days |-> {date[i] : i \in {j \in Day!Mine(UserOf[b]) : date[j] <= d}} \cup {d}]
  OBVIOUS
<1>2. tab[b] = Day!Idle /\ tab' = [tab EXCEPT ![b] = r] /\ UNCHANGED <<date, done, ended, rolled, closed, lapsed, late>>
  BY <1>1 DEF Day!EndDay, Day!history
<1>3. tab'[b] = r /\ DOMAIN tab' = Tabs /\ \A c \in Tabs : c # b => tab'[c] = tab[c]
  BY <1>2, OtherTabs
<1>4. r.at = "list" /\ r.days \subseteq Day!Days /\ r.days # {} /\ r.to \in Day!Days
  <2>1. \A i \in Items : date[i] <= d => date[i] \in Day!Days
    <3> SUFFICES ASSUME NEW i \in Items, date[i] <= d PROVE date[i] \in Day!Days
      OBVIOUS
    <3>1. date[i] \in 1 .. LastDay + Horizon /\ d \in 1 .. LastDay /\ LastDay \in Nat /\ Horizon \in Nat
      BY DEF DayTypes, Day!Dates, Day!Days, DaysSensible
    <3>2. date[i] \in 1 .. LastDay
      BY <3>1
    <3> QED
      BY <3>2 DEF Day!Days
  <2> QED
    BY <1>1, <2>1 DEF Day!Mine
<1>5. DayTypes'
  BY <1>2, <1>3, <1>4 DEF DayTypes, Steps
<1>6. \A u : Day!EndedOf(u)' = Day!EndedOf(u)
  BY <1>2 DEF Day!EndedOf
<1>7. \A c \in Tabs, i \in Items : Moves(c, i) => Moves(c, i)'
  BY <1>2, <1>3 DEF Moves
<1>8. Waits'
  BY <1>2, <1>6, <1>7 DEF Waits, DayTypes
<1>9. Ahead'
  BY <1>2, <1>3, <1>4, <1>6 DEF Ahead
<1>10. Recorded'
  BY <1>2, <1>3, <1>4, <1>6 DEF Recorded, HasRow
<1> QED
  BY <1>5, <1>8, <1>9, <1>10

(* lists the days to end;                                                  *)
LEMMA ListedKeeps ==
  ASSUME DaysSensible, DayInv, NEW b \in Tabs, Day!Listed(b)
  PROVE  DayInv'
<1> USE DEF DayInv
<1>1. PICK open : open = tab[b].days \ Day!EndedOf(UserOf[b])
  OBVIOUS
<1>2. PICK r : r = [at |-> "record", days |-> IF open = {} THEN {tab[b].to} ELSE open]
  OBVIOUS
<1>3. tab[b].at = "list" /\ tab' = [tab EXCEPT ![b] = r] /\ UNCHANGED <<date, done, ended, rolled, closed, lapsed, late>>
  BY <1>1, <1>2 DEF Day!Listed, Day!history, DayTypes
<1>4. tab'[b] = r /\ DOMAIN tab' = Tabs /\ \A c \in Tabs : c # b => tab'[c] = tab[c]
  BY <1>3, OtherTabs
<1>5. tab[b] # Day!Idle
  BY <1>3 DEF Day!Idle
<1>6. r.at = "record" /\ r.days \subseteq Day!Days /\ r.days # {}
  BY <1>1, <1>2, <1>3, <1>5 DEF DayTypes
<1>7. DayTypes'
  BY <1>3, <1>4, <1>6 DEF DayTypes, Steps
<1>8. \A u : Day!EndedOf(u)' = Day!EndedOf(u)
  BY <1>3 DEF Day!EndedOf
<1>9. \A c \in Tabs, i \in Items : Moves(c, i) => Moves(c, i)'
  BY <1>3, <1>4 DEF Moves
<1>10. Waits'
  BY <1>3, <1>8, <1>9 DEF Waits, DayTypes
<1>11. Ahead'
  BY <1>3, <1>4, <1>6, <1>8 DEF Ahead
<1>12. Recorded'
  BY <1>3, <1>4, <1>6, <1>8 DEF Recorded, HasRow
<1> QED
  BY <1>7, <1>10, <1>11, <1>12

(* a day is recorded: what waits there will be moved;                      *)
LEMMA RecordKeeps ==
  ASSUME DaysSensible, DayInv, NEW b \in Tabs, Day!Record(b)
  PROVE  DayInv'
<1> USE DEF DayInv
<1>1. PICK d, r : d = Day!Min(tab[b].days) /\ r = [at |-> "read", days |-> tab[b].days]
  OBVIOUS
<1>2. /\ tab[b].at = "record" /\ tab' = [tab EXCEPT ![b] = r]
      /\ ended' = IF Day!Taken(d, UserOf[b]) THEN ended
                  ELSE [e \in DOMAIN ended \cup {d} |-> IF e = d THEN UserOf[b] ELSE ended[e]]
      /\ lapsed' = IF ended'[d] = UserOf[b] THEN lapsed \ {<<UserOf[b], d>>} ELSE lapsed \cup {<<UserOf[b], d>>}
      /\ late' = late \cup {c \in Tabs : UserOf[c] = UserOf[b] /\ tab[c].at = "move" /\ tab[c].to = d}
      /\ UNCHANGED <<date, done, rolled, closed>>
  BY <1>1 DEF Day!Record, DayTypes
<1>3. tab'[b] = r /\ DOMAIN tab' = Tabs /\ \A c \in Tabs : c # b => tab'[c] = tab[c]
  BY <1>2, OtherTabs
<1>4. tab[b] # Day!Idle
  BY <1>2 DEF Day!Idle
<1>5. r.at = "read" /\ r.days = tab[b].days /\ r # Day!Idle
  BY <1>1 DEF Day!Idle
<1>6. d \in Day!Days /\ d \in Nat /\ UserOf[b] \in Users
  BY <1>1, <1>4, FirstDay DEF DaysSensible
<1>7. DOMAIN ended' \subseteq Day!Days /\ \A e \in DOMAIN ended' : ended'[e] \in Users
  BY <1>2, <1>6 DEF DayTypes
<1>7a. d \in Day!Dates
  BY <1>6 DEF Day!Days, Day!Dates, DaysSensible
<1>8. DayTypes'
  BY <1>2, <1>3, <1>4, <1>5, <1>6, <1>7, <1>7a DEF DayTypes, Steps
<1>9. \A u : Day!EndedOf(u)' \subseteq Day!EndedOf(u) \cup (IF u = UserOf[b] THEN {d} ELSE {})
  BY <1>2 DEF Day!EndedOf
<1>10. ASSUME NEW i \in rolled, ~done[i]
       PROVE  date[i] \notin Day!EndedOf(Owner[i])' \/ \E c \in Tabs : Moves(c, i)'
  <2>1. CASE date[i] \notin Day!EndedOf(Owner[i])
    <3>1. CASE Owner[i] = UserOf[b] /\ date[i] = d
      <4>1. d <= d
        BY <1>6
      <4>2. Moves(b, i)'
        BY <1>1, <1>2, <1>3, <1>5, <3>1, <4>1 DEF Moves
      <4> QED
        BY <4>2
    <3> QED
      BY <1>9, <2>1, <3>1
  <2>2. CASE \E c \in Tabs : Moves(c, i)
    <3>1. PICK c \in Tabs : Moves(c, i)
      BY <2>2
    <3>2. c # b
      BY <1>2, <3>1 DEF Moves
    <3> QED
      BY <1>2, <1>3, <3>1, <3>2 DEF Moves
  <2> QED
    BY <1>10, <2>1, <2>2 DEF Waits
<1>11. Waits'
  BY <1>2, <1>10 DEF Waits
<1>12. Ahead'
  <2> SUFFICES ASSUME NEW c \in Tabs, tab'[c] # Day!Idle, tab'[c].at = "move"
               PROVE  tab'[c].to \notin Day!EndedOf(UserOf[c])' \/ tab'[c].to = Day!Min(tab'[c].days) \/ c \in late'
    BY DEF Ahead
  <2>1. c # b /\ tab'[c] = tab[c]
    BY <1>3, <1>5
  <2>2. CASE UserOf[c] = UserOf[b] /\ tab[c].to = d
    BY <1>2, <2>1, <2>2
  <2> QED
    BY <1>2, <1>9, <2>1, <2>2 DEF Ahead
<1>13. \A u \in Users, e \in Day!Dates : HasRow(u, e) => HasRow(u, e)'
  <2> SUFFICES ASSUME NEW u \in Users, NEW e \in Day!Dates, HasRow(u, e) PROVE HasRow(u, e)'
    OBVIOUS
  <2>1. CASE e \in Day!EndedOf(u)
    BY <1>2, <2>1 DEF HasRow, Day!EndedOf, Day!Taken
  <2>2. CASE <<u, e>> \in lapsed /\ <<u, e>> \in lapsed'
    BY <2>2 DEF HasRow
  <2>3. CASE <<u, e>> \in lapsed /\ <<u, e>> \notin lapsed'
    <3>1. ended'[d] = UserOf[b] /\ u = UserOf[b] /\ e = d
      BY <1>2, <2>3
    <3>2. d \in DOMAIN ended'
      BY <1>2 DEF Day!Taken
    <3> QED
      BY <3>1, <3>2 DEF HasRow, Day!EndedOf
  <2> QED
    BY <2>1, <2>2, <2>3 DEF HasRow
<1>14. HasRow(UserOf[b], d)'
  <2>1. d \in DOMAIN ended'
    BY <1>2 DEF Day!Taken
  <2> QED
    BY <1>2, <2>1 DEF HasRow, Day!EndedOf
<1>15. Recorded'
  <2>1. ASSUME NEW c \in Tabs, tab'[c] # Day!Idle, tab'[c].at \in {"read", "move"}
        PROVE  HasRow(UserOf[c], Day!Min(tab[c].days))'
    <3>1. CASE c = b
      <4>1. tab'[c].days = tab[c].days
        BY <1>3, <1>5, <3>1
      <4>2. Day!Min(tab'[c].days) = d
        BY <1>1, <3>1, <4>1
      <4> QED
        BY <1>14, <3>1, <4>2 DEF HasRow
    <3>2. CASE c # b
      <4>1. tab[c] = tab'[c] /\ UserOf[c] \in Users
        BY <1>3, <3>2 DEF DaysSensible
      <4>2. Day!Min(tab[c].days) \in Day!Days /\ HasRow(UserOf[c], Day!Min(tab[c].days))
        BY <2>1, <4>1, FirstDay DEF Recorded
      <4>3. Day!Min(tab[c].days) \in Day!Dates
        BY <4>2 DEF Day!Days, Day!Dates, DaysSensible
      <4>4. PICK e : e = Day!Min(tab[c].days)
        OBVIOUS
      <4>5. HasRow(UserOf[c], e)'
        BY <1>13, <4>1, <4>2, <4>3, <4>4
      <4> QED
        BY <4>1, <4>4, <4>5 DEF HasRow
    <3> QED
      BY <3>1, <3>2
  <2>2. \A u \in Users, e \in Day!Dates : <<u, e>> \in closed' => HasRow(u, e)'
    BY <1>2, <1>13 DEF Recorded
  <2> QED
    BY <2>1, <2>2 DEF Recorded, HasRow
<1> QED
  BY <1>8, <1>11, <1>12, <1>15

(* the days ended are read back: the day found stays open;                 *)
LEMMA ReadBackKeeps ==
  ASSUME DaysSensible, DayInv, NEW b \in Tabs, Day!ReadBack(b)
  PROVE  DayInv'
<1> USE DEF DayInv
<1>1. PICK d, n : d = Day!Min(tab[b].days) /\ n = Day!NextWorkday(d, Day!EndedOf(UserOf[b]), Week[UserOf[b]])
  OBVIOUS
<1>2. PICK r : r = [at |-> "move", days |-> tab[b].days, to |-> n]
  OBVIOUS
<1>3. tab[b].at = "read" /\ tab' = [tab EXCEPT ![b] = r] /\ UNCHANGED <<date, done, ended, rolled, closed, lapsed, late>>
  BY <1>1, <1>2 DEF Day!ReadBack, Day!history, DayTypes
<1>4. tab'[b] = r /\ DOMAIN tab' = Tabs /\ \A c \in Tabs : c # b => tab'[c] = tab[c]
  BY <1>3, OtherTabs
<1>5. tab[b] # Day!Idle
  BY <1>3 DEF Day!Idle
<1>6. r.at = "move" /\ r.days = tab[b].days /\ r.to = n /\ r # Day!Idle
  BY <1>2 DEF Day!Idle
<1>7. n \in Day!Dates /\ (n \notin Day!EndedOf(UserOf[b]) \/ n = d)
  BY <1>1, <1>5, FirstDay, NextDay
<1>8. DayTypes'
  BY <1>3, <1>4, <1>5, <1>6, <1>7 DEF DayTypes, Steps
<1>9. \A u : Day!EndedOf(u)' = Day!EndedOf(u)
  BY <1>3 DEF Day!EndedOf
<1>10. \A c \in Tabs, i \in Items : Moves(c, i) => Moves(c, i)'
  BY <1>3, <1>4, <1>6 DEF Moves
<1>11. Waits'
  BY <1>3, <1>9, <1>10 DEF Waits, DayTypes
<1>12. Ahead'
  BY <1>1, <1>3, <1>4, <1>6, <1>7, <1>9 DEF Ahead
<1>13. Recorded'
  BY <1>3, <1>4, <1>5, <1>6, <1>9 DEF Recorded, HasRow
<1> QED
  BY <1>8, <1>11, <1>12, <1>13

(* what is not done moves to it.                                           *)
LEMMA MoveKeeps ==
  ASSUME DaysSensible, DayInv, NEW b \in Tabs, Day!Move(b)
  PROVE  DayInv'
<1> USE DEF DayInv
<1>1. PICK d, m, rest, to : /\ d = Day!Min(tab[b].days) /\ m = Day!Moved(UserOf[b], d)
                            /\ rest = tab[b].days \ {d} /\ to = tab[b].to
  OBVIOUS
<1>2. PICK r : r = IF rest = {} THEN Day!Idle ELSE [at |-> "record", days |-> rest]
  OBVIOUS
<1>3. /\ tab[b].at = "move" /\ tab' = [tab EXCEPT ![b] = r]
      /\ date' = [i \in Items |-> IF i \in m THEN to ELSE date[i]]
      /\ rolled' = IF to = d \/ b \in late THEN rolled \ m ELSE rolled \cup m
      /\ late' = late \ {b}
      /\ closed' = closed \cup {<<UserOf[b], d>>}
      /\ UNCHANGED <<done, ended, lapsed>>
  BY <1>1, <1>2 DEF Day!Move
<1>4. tab'[b] = r /\ DOMAIN tab' = Tabs /\ \A c \in Tabs : c # b => tab'[c] = tab[c]
  BY <1>3, OtherTabs
<1>5. tab[b] # Day!Idle
  BY <1>3 DEF Day!Idle
<1>6. d \in Day!Days /\ d \in Nat /\ UserOf[b] \in Users /\ d \in Day!Dates
  <2>1. d \in Day!Days /\ d \in Nat /\ UserOf[b] \in Users
    BY <1>1, <1>5, FirstDay DEF DaysSensible
  <2> QED
    BY <2>1 DEF Day!Days, Day!Dates, DaysSensible
<1>7. to \in Day!Dates /\ (to \notin Day!EndedOf(UserOf[b]) \/ to = d \/ b \in late)
  BY <1>1, <1>3, <1>5 DEF DayTypes, Ahead
<1>8. \A i \in m : i \in Items /\ Owner[i] = UserOf[b] /\ date[i] <= d
  BY <1>1 DEF Day!Moved, Day!Mine
<1>9. \A i \in Items : Owner[i] = UserOf[b] /\ ~done[i] /\ date[i] <= d => i \in m
  BY <1>1 DEF Day!Moved, Day!Mine
<1>10. r = Day!Idle \/ (r.at = "record" /\ r.days \subseteq Day!Days /\ r.days # {})
  BY <1>1, <1>2, <1>5 DEF DayTypes
<1>11. DayTypes'
  BY <1>3, <1>4, <1>6, <1>7, <1>8, <1>10 DEF DayTypes, Steps
<1>12. \A u : Day!EndedOf(u)' = Day!EndedOf(u)
  BY <1>3 DEF Day!EndedOf
<1>13. ASSUME NEW i \in rolled', ~done[i]
       PROVE  date'[i] \notin Day!EndedOf(Owner[i]) \/ \E c \in Tabs : Moves(c, i)'
  <2>0. i \in Items
    BY <1>3, <1>8 DEF DayTypes
  <2>1. CASE i \in m
    <3>1. to # d /\ b \notin late /\ date'[i] = to
      BY <1>3, <1>13, <2>0, <2>1
    <3> QED
      BY <1>7, <1>8, <2>1, <3>1
  <2>2. CASE i \notin m
    <3>1. i \in rolled /\ date'[i] = date[i]
      BY <1>3, <1>13, <2>0, <2>2
    <3>2. CASE date[i] \notin Day!EndedOf(Owner[i])
      BY <3>1, <3>2
    <3>3. CASE \E c \in Tabs : Moves(c, i)
      <4>1. PICK c \in Tabs : Moves(c, i)
        BY <3>3
      <4>2. c # b
        BY <1>1, <1>9, <1>13, <2>0, <2>2, <4>1 DEF Moves
      <4>3. Moves(c, i)'
        BY <1>4, <3>1, <4>1, <4>2 DEF Moves
      <4> QED
        BY <4>3
    <3> QED
      BY <1>13, <3>1, <3>2, <3>3 DEF Waits
  <2> QED
    BY <2>1, <2>2
<1>14. Waits'
  BY <1>3, <1>12, <1>13 DEF Waits
<1>15. Ahead'
  BY <1>3, <1>4, <1>10, <1>12 DEF Ahead
<1>16. HasRow(UserOf[b], d)
  BY <1>1, <1>3, <1>5 DEF Recorded
<1>17. Recorded'
  BY <1>3, <1>4, <1>10, <1>12, <1>16 DEF Recorded, HasRow
<1> QED
  BY <1>11, <1>14, <1>15, <1>17

(* A day is opened again;                                                  *)
LEMMA UnendKeeps ==
  ASSUME DaysSensible, DayInv, NEW b \in Tabs, NEW d \in Day!Days, Day!UnendDay(b, d)
  PROVE  DayInv'
<1> USE DEF DayInv
<1>1. /\ ended' = [e \in DOMAIN ended \ (Day!EndedOf(UserOf[b]) \cap {d}) |-> ended[e]]
      /\ closed' = closed \ {<<UserOf[b], d>>} /\ lapsed' = lapsed \cup {<<UserOf[b], d>>}
      /\ UNCHANGED <<date, done, tab, rolled, late>>
  BY DEF Day!UnendDay
<1>2. DayTypes'
  BY <1>1 DEF DayTypes, DaysSensible, Day!Days, Day!Dates
<1>3. \A u : Day!EndedOf(u)' \subseteq Day!EndedOf(u)
  BY <1>1 DEF Day!EndedOf
<1>4. \A c \in Tabs, i \in Items : Moves(c, i)' <=> Moves(c, i)
  BY <1>1 DEF Moves
<1>5. Waits'
  BY <1>1, <1>3, <1>4 DEF Waits, DayTypes
<1>6. Ahead'
  BY <1>1, <1>3 DEF Ahead
<1>7. \A u, e : HasRow(u, e) => HasRow(u, e)'
  BY <1>1 DEF HasRow, Day!EndedOf
<1>8. Recorded'
  <2>1. \A u \in Users, e \in Day!Dates : <<u, e>> \in closed' => HasRow(u, e)'
    BY <1>1, <1>7 DEF Recorded
  <2>2. ASSUME NEW c \in Tabs, tab[c] # Day!Idle, tab[c].at \in {"read", "move"}
        PROVE  HasRow(UserOf[c], Day!Min(tab[c].days))'
    <3>1. HasRow(UserOf[c], Day!Min(tab[c].days))
      BY <2>2 DEF Recorded
    <3>2. PICK e : e = Day!Min(tab[c].days)
      OBVIOUS
    <3>3. HasRow(UserOf[c], e)'
      BY <1>7, <3>1, <3>2
    <3> QED
      BY <1>1, <3>2, <3>3 DEF HasRow
  <2> QED
    BY <1>1, <2>1, <2>2 DEF Recorded, HasRow
<1> QED
  BY <1>2, <1>5, <1>6, <1>8

(* a user dates an item.                                                   *)
LEMMA EditKeeps ==
  ASSUME DaysSensible, DayInv, NEW i \in Items, NEW d \in Day!Days, NEW f \in BOOLEAN, Day!EditItem(i, d, f)
  PROVE  DayInv'
<1> USE DEF DayInv
<1>1. /\ date' = [date EXCEPT ![i] = d] /\ done' = [done EXCEPT ![i] = f] /\ rolled' = rolled \ {i}
      /\ UNCHANGED <<ended, tab, closed, lapsed, late>>
  BY DEF Day!EditItem
<1>2. d \in Day!Dates
  BY DEF DaysSensible, Day!Days, Day!Dates
<1>3. DayTypes'
  BY <1>1, <1>2 DEF DayTypes
<1>4. \A u : Day!EndedOf(u)' = Day!EndedOf(u)
  BY <1>1 DEF Day!EndedOf
<1>5. \A j \in rolled' : j \in rolled /\ date'[j] = date[j] /\ done'[j] = done[j]
  BY <1>1 DEF DayTypes
<1>6. \A c \in Tabs, j \in rolled' : Moves(c, j) => Moves(c, j)'
  BY <1>1, <1>5 DEF Moves
<1>7. Waits'
  BY <1>4, <1>5, <1>6 DEF Waits
<1>8. Ahead'
  BY <1>1, <1>4 DEF Ahead
<1>9. Recorded'
  BY <1>1, <1>4 DEF Recorded, HasRow
<1> QED
  BY <1>3, <1>7, <1>8, <1>9

(* Every step keeps the invariant ...                                      *)
LEMMA DayKeeps == DaysSensible /\ DayInv /\ [Day!Next]_(Day!vars) => DayInv'
<1> SUFFICES ASSUME DaysSensible, DayInv, [Day!Next]_(Day!vars) PROVE DayInv'
  OBVIOUS
<1>1. CASE UNCHANGED Day!vars
  BY <1>1 DEF Day!vars, Day!history, DayInv, DayTypes, Waits, Ahead, Moves, Day!EndedOf, Recorded, HasRow
<1> QED
  BY <1>1, EndDayKeeps, ListedKeeps, RecordKeeps, ReadBackKeeps, MoveKeeps, UnendKeeps, EditKeeps DEF Day!Next

(* ... which holds before any day is ended.                                *)
LEMMA DayInit == DaysSensible /\ Day!Init => DayInv
<1> SUFFICES ASSUME DaysSensible, Day!Init PROVE DayInv
  OBVIOUS
<1>1. Day!Days \subseteq Day!Dates
  BY DEF DaysSensible, Day!Days, Day!Dates
<1>2. \A b \in Tabs : tab[b] = Day!Idle
  BY DEF Day!Init
<1>3. DayTypes
  BY <1>1, <1>2 DEF Day!Init, DayTypes
<1> QED
  BY <1>2, <1>3 DEF Day!Init, DayInv, Waits, Ahead, Recorded

(* Whatever days are ended, opened again and ended at once by several      *)
(* windows of several users, work rolled over never waits on a day whose   *)
(* ending was answered to its user, for any work week (src/db/tasks.py:757), *)
(* but for days recorded for another user and days that another window     *)
(* records after a request has read them back.                             *)
THEOREM WorkRollsToAnOpenDay ==
  ASSUME DaysSensible
  PROVE  Day!Spec => []RollsToAnOpenDay
<1>1. Day!Init => DayInv
  BY DayInit
<1>2. DayInv /\ [Day!Next]_(Day!vars) => DayInv'
  BY DayKeeps
<1>3. DayInv => RollsToAnOpenDay
  <2> SUFFICES ASSUME DayInv PROVE RollsToAnOpenDay
    OBVIOUS
  <2> USE DEF DayInv
  <2>1. Day!Days \subseteq Day!Dates
    BY DEF DaysSensible, Day!Days, Day!Dates
  <2>2. Day!TypeOK
    BY <2>1 DEF Day!TypeOK, DayTypes, Steps
  <2>3. Day!RollsToAnOpenDay
    <3> SUFFICES ASSUME NEW i \in rolled, Day!Quiet(Owner[i]), ~done[i]
                 PROVE  <<Owner[i], date[i]>> \notin closed \ lapsed
      BY DEF Day!RollsToAnOpenDay
    <3>1. date[i] \notin Day!EndedOf(Owner[i])
      BY DEF Day!Quiet, Waits, Moves
    <3>2. Owner[i] \in Users /\ date[i] \in Day!Dates
      BY DEF DayTypes, DaysSensible
    <3> QED
      BY <3>1, <3>2 DEF Recorded, HasRow
  <2> QED
    BY <2>2, <2>3 DEF RollsToAnOpenDay
<1> QED
  BY <1>1, <1>2, <1>3, PTL DEF Day!Spec

-----------------------------------------------------------------------------
(* Workspaces: Space, an instance of Workspaces.                           *)

(* The rows of the tables refer to one another.                            *)
SpaceTypes ==
  /\ counter \in Nat /\ clock \in Nat /\ counter + clock <= MaxDraws
  /\ Space!Open \subseteq Spaces /\ \A w \in Space!Open : owner[w] \in Users
  /\ Space!Known \subseteq Numbered
  /\ \A t \in Space!Known : rows[t] \in [space : Space!Open, seq : 1 .. counter, user : Users]
  /\ deps \subseteq Space!Known \X Space!Known
  /\ DOMAIN links \subseteq Providers \X Sessions
  /\ \A k \in DOMAIN links : links[k] \in [space : Space!Open, time : 1 .. clock]
  /\ DOMAIN wreq = Users /\ DOMAIN last = Sessions

(* A number drawn and not used yet is nobody's, and drawn once.            *)
Drawn ==
  /\ \A u \in Users : wreq[u].at = "insert" =>
       /\ wreq[u].task \in Numbered /\ wreq[u].seq \in 1 .. counter /\ wreq[u].seq \notin DOMAIN named
       /\ wreq[u].on \subseteq Numbered
  /\ \A u, v \in Users : wreq[u].at = "insert" /\ wreq[v].at = "insert" /\ wreq[u].seq = wreq[v].seq => u = v

(* Every task in the table is the one its number has named.                *)
Names ==
  /\ DOMAIN named \subseteq 1 .. counter
  /\ \A t \in Space!Known : rows[t].seq \in DOMAIN named /\ named[rows[t].seq] = t

(* Attachments have their own times, and the latest of a session is there. *)
Newest(s, k) == k \in DOMAIN links /\ k[2] = s /\ \A l \in DOMAIN links : l[2] = s => links[l].time <= links[k].time

(* ... and is where the session was attached last.                         *)
Latest ==
  /\ \A k, l \in DOMAIN links : links[k].time = links[l].time => k = l
  /\ \A s \in Sessions : last[s] # Space!Nowhere => \E k \in DOMAIN links : Newest(s, k) /\ links[k].space = last[s]

(* What every step keeps.                                                  *)
SpaceInv == SpaceTypes /\ Drawn /\ Names /\ Latest

(* A request that carries no number is begun or ends.                      *)
LEMMA NoNumber ==
  ASSUME SpaceInv, NEW u \in Users, NEW r, r.at # "insert", wreq' = [wreq EXCEPT ![u] = r],
         UNCHANGED <<counter, named>>
  PROVE  Drawn' /\ DOMAIN wreq' = Users
<1> USE DEF SpaceInv
<1>1. DOMAIN wreq' = Users /\ wreq'[u] = r /\ \A v \in Users : v # u => wreq'[v] = wreq[v]
  BY DEF SpaceTypes
<1> QED
  BY <1>1 DEF Drawn

(* A workspace is created, or deleted when nothing refers to it.           *)
LEMMA CreateSpaceKeeps ==
  ASSUME SpaceInv, NEW u \in Users, NEW w \in Spaces, Space!CreateSpace(u, w) \/ Space!DeleteSpace(u, w)
  PROVE  SpaceInv'
<1> USE DEF SpaceInv
<1>1. UNCHANGED <<rows, deps, counter, links, clock, wreq, named, last>>
  BY DEF Space!CreateSpace, Space!DeleteSpace
<1>2. Space!Open' \subseteq Spaces /\ \A x \in Space!Open' : owner'[x] \in Users
  <2>1. CASE Space!CreateSpace(u, w)
    BY <2>1 DEF Space!CreateSpace, Space!Open, SpaceTypes, Space!With
  <2>2. CASE Space!DeleteSpace(u, w)
    BY <2>2 DEF Space!DeleteSpace, Space!Open, SpaceTypes, Space!Without
  <2> QED
    BY <2>1, <2>2
<1>3. \A x \in Space!Open : x \in Space!Open' \/ ~Space!Referred(x)
  <2>1. CASE Space!CreateSpace(u, w)
    BY <2>1 DEF Space!CreateSpace, Space!Open, Space!With
  <2>2. CASE Space!DeleteSpace(u, w)
    BY <2>2 DEF Space!DeleteSpace, Space!Open, Space!Without
  <2> QED
    BY <2>1, <2>2
<1>4. \A t \in Space!Known : rows[t] \in [space : Space!Open', seq : 1 .. counter, user : Users]
  <2> SUFFICES ASSUME NEW t \in Space!Known PROVE rows[t] \in [space : Space!Open', seq : 1 .. counter, user : Users]
    OBVIOUS
  <2>1. rows[t] \in [space : Space!Open, seq : 1 .. counter, user : Users]
    BY DEF SpaceTypes
  <2>2. rows[t].space \in Space!Open'
    BY <1>3, <2>1 DEF Space!Referred
  <2> QED
    BY <2>1, <2>2
<1>5. \A k \in DOMAIN links : links[k] \in [space : Space!Open', time : 1 .. clock]
  <2> SUFFICES ASSUME NEW k \in DOMAIN links PROVE links[k] \in [space : Space!Open', time : 1 .. clock]
    OBVIOUS
  <2>1. links[k] \in [space : Space!Open, time : 1 .. clock]
    BY DEF SpaceTypes
  <2>2. links[k].space \in Space!Open'
    BY <1>3, <2>1 DEF Space!Referred
  <2> QED
    BY <2>1, <2>2
<1>6. Space!Known' = Space!Known
  BY <1>1 DEF Space!Known
<1>7. SpaceTypes'
  BY <1>1, <1>2, <1>4, <1>5, <1>6 DEF SpaceTypes
<1> QED
  BY <1>1, <1>6, <1>7 DEF Drawn, Names, Latest, Newest

(* Nothing but a request changes: what it looked at stays as it is.        *)
LEMMA LookKeeps ==
  ASSUME SpaceInv, NEW u \in Users, NEW t \in Numbered, NEW d \in Numbered,
         Space!LinkLook(u, t, d) \/ Space!UnlinkLook(u, t, d)
  PROVE  SpaceInv'
<1> USE DEF SpaceInv
<1>1. UNCHANGED <<owner, rows, deps, counter, links, clock, named, last>>
  BY DEF Space!LinkLook, Space!UnlinkLook
<1>2. \E r : r.at # "insert" /\ wreq' = [wreq EXCEPT ![u] = r]
  <2>1. CASE Space!LinkLook(u, t, d)
    <3>1. PICK r : r = [at |-> "depend", task |-> t, on |-> d]
      OBVIOUS
    <3> QED
      BY <2>1, <3>1 DEF Space!LinkLook, Space!Start
  <2>2. CASE Space!UnlinkLook(u, t, d)
    <3>1. PICK r : r = [at |-> "free", task |-> t, on |-> d]
      OBVIOUS
    <3> QED
      BY <2>2, <3>1 DEF Space!UnlinkLook, Space!Start
  <2> QED
    BY <2>1, <2>2
<1>3. Drawn' /\ DOMAIN wreq' = Users
  BY <1>1, <1>2, NoNumber
<1> QED
  BY <1>1, <1>3 DEF SpaceTypes, Names, Latest, Newest, Space!Open, Space!Known

(* A dependency is added or removed.                                       *)
LEMMA LinkKeeps ==
  ASSUME SpaceInv, NEW u \in Users, Space!LinkWrite(u) \/ Space!UnlinkWrite(u)
  PROVE  SpaceInv'
<1> USE DEF SpaceInv
<1>1. UNCHANGED <<owner, rows, counter, links, clock, named, last>> /\ wreq' = [wreq EXCEPT ![u] = Space!Idle]
  BY DEF Space!LinkWrite, Space!UnlinkWrite, Space!End
<1>2. Space!Idle.at # "insert"
  BY DEF Space!Idle
<1>3. Drawn' /\ DOMAIN wreq' = Users
  BY <1>1, <1>2, NoNumber
<1>4. deps' \subseteq Space!Known \X Space!Known
  BY DEF Space!LinkWrite, Space!UnlinkWrite, Space!Mine, SpaceTypes
<1> QED
  BY <1>1, <1>3, <1>4 DEF SpaceTypes, Names, Latest, Newest, Space!Open, Space!Known

(* A request draws a number: it is new.                                    *)
LEMMA DrawKeeps ==
  ASSUME MaxDraws \in Nat, SpaceInv, NEW u \in Users, NEW t \in Numbered, NEW w \in Spaces, NEW D \in SUBSET Numbered,
         Space!CreateNumber(u, t, w, D)
  PROVE  SpaceInv'
<1> USE DEF SpaceInv
<1>1. PICK r : r = [at |-> "insert", task |-> t, space |-> w, on |-> D, seq |-> counter + 1]
  OBVIOUS
<1>2. /\ counter + clock < MaxDraws /\ wreq' = [wreq EXCEPT ![u] = r] /\ counter' = counter + 1
      /\ UNCHANGED <<owner, rows, deps, links, clock, named, last>>
  BY <1>1 DEF Space!CreateNumber, Space!Start, Space!NextSeq
<1>3. r.task = t /\ r.on = D /\ r.seq = counter + 1
  BY <1>1
<1>4. DOMAIN wreq' = Users /\ wreq'[u] = r /\ \A v \in Users : v # u => wreq'[v] = wreq[v]
  BY <1>2 DEF SpaceTypes
<1>5. counter \in Nat /\ counter' \in Nat /\ clock \in Nat /\ counter' + clock <= MaxDraws
      /\ counter + 1 \in 1 .. counter' /\ counter + 1 \notin 1 .. counter /\ 1 .. counter \subseteq 1 .. counter'
  BY <1>2 DEF SpaceTypes
<1>6. Space!Open' = Space!Open /\ Space!Known' = Space!Known
  BY <1>2 DEF Space!Open, Space!Known
<1>7. \A x \in Space!Known : rows[x] \in [space : Space!Open, seq : 1 .. counter', user : Users]
  BY <1>5 DEF SpaceTypes
<1>8. SpaceTypes'
  BY <1>2, <1>4, <1>5, <1>6, <1>7 DEF SpaceTypes
<1>9. counter + 1 \notin DOMAIN named
  BY <1>5 DEF Names
<1>10. Drawn'
  <2>1. ASSUME NEW v \in Users, wreq'[v].at = "insert"
        PROVE  /\ wreq'[v].task \in Numbered /\ wreq'[v].seq \in 1 .. counter' /\ wreq'[v].seq \notin DOMAIN named
               /\ wreq'[v].on \subseteq Numbered
               /\ wreq'[v].seq = counter + 1 <=> v = u
    <3>1. CASE v = u
      BY <1>3, <1>4, <1>5, <1>9, <3>1
    <3>2. CASE v # u
      <4>1. /\ wreq[v].task \in Numbered /\ wreq[v].seq \in 1 .. counter /\ wreq[v].seq \notin DOMAIN named
            /\ wreq[v].on \subseteq Numbered
        BY <1>4, <2>1, <3>2 DEF Drawn
      <4>2. wreq[v].seq # counter + 1
        BY <1>5, <4>1
      <4> QED
        BY <1>4, <1>5, <3>2, <4>1, <4>2
    <3> QED
      BY <3>1, <3>2
  <2> QED
    BY <1>2, <1>4, <2>1 DEF Drawn
<1>11. Names'
  BY <1>2, <1>5, <1>6 DEF Names
<1>12. Latest'
  BY <1>2 DEF Latest, Newest
<1> QED
  BY <1>8, <1>10, <1>11, <1>12

(* The number drawn becomes the task's, unless it has one, or is refused.  *)
LEMMA InsertKeeps ==
  ASSUME SpaceInv, NEW u \in Users, Space!CreateInsert(u)
  PROVE  SpaceInv'
<1> USE DEF SpaceInv
<1>1. PICK r, t, seq : r = wreq[u] /\ t = r.task /\ seq = IF t \in Space!Known THEN rows[t].seq ELSE r.seq
  OBVIOUS
<1>2. /\ r.at = "insert" /\ wreq' = [wreq EXCEPT ![u] = Space!Idle]
      /\ UNCHANGED <<owner, counter, links, clock, last>>
  BY <1>1 DEF Space!CreateInsert, Space!End
<1>3. \/ /\ r.space \in Space!Open /\ r.on \subseteq Space!Known \cup {t}
         /\ rows' = Space!With(rows, t, [space |-> r.space, seq |-> seq, user |-> u])
         /\ deps' = deps \cup ({t} \X r.on)
         /\ named' = IF seq \in DOMAIN named THEN named ELSE Space!With(named, seq, t)
      \/ UNCHANGED <<rows, deps, named>>
  BY <1>1 DEF Space!CreateInsert
<1>4. DOMAIN wreq' = Users /\ wreq'[u].at = "idle" /\ \A v \in Users : v # u => wreq'[v] = wreq[v]
  BY <1>2 DEF SpaceTypes, Space!Idle
<1>5. t \in Numbered /\ r.seq \in 1 .. counter /\ r.seq \notin DOMAIN named
  BY <1>1, <1>2 DEF Drawn
<1>6. Latest'
  BY <1>2 DEF Latest, Newest
<1>7. Space!Open' = Space!Open
  BY <1>2 DEF Space!Open
<1>8. CASE UNCHANGED <<rows, deps, named>>
  <2>1. SpaceTypes' /\ Names'
    BY <1>2, <1>4, <1>7, <1>8 DEF SpaceTypes, Names, Space!Known
  <2>2. Drawn'
    BY <1>2, <1>4, <1>8 DEF Drawn
  <2> QED
    BY <1>6, <2>1, <2>2
<1>9. CASE /\ r.space \in Space!Open /\ r.on \subseteq Space!Known \cup {t}
           /\ rows' = Space!With(rows, t, [space |-> r.space, seq |-> seq, user |-> u])
           /\ deps' = deps \cup ({t} \X r.on)
           /\ named' = IF seq \in DOMAIN named THEN named ELSE Space!With(named, seq, t)
  <2>1. PICK e : e = [space |-> r.space, seq |-> seq, user |-> u]
    OBVIOUS
  <2>2. Space!Known' = Space!Known \cup {t} /\ rows'[t] = e /\ \A x \in Space!Known : x # t => rows'[x] = rows[x]
    BY <1>9, <2>1 DEF Space!Known, Space!With
  <2>3. seq \in 1 .. counter
    BY <1>1, <1>5 DEF SpaceTypes
  <2>4. e \in [space : Space!Open, seq : 1 .. counter, user : Users] /\ e.seq = seq
    BY <1>9, <2>1, <2>3
  <2>5. DOMAIN named' = DOMAIN named \cup {seq} /\ \A n \in DOMAIN named : named'[n] = named[n]
    BY <1>9 DEF Space!With
  <2>6. named'[seq] = t
    <3>1. CASE t \in Space!Known
      <4>1. seq \in DOMAIN named /\ named[seq] = t
        BY <1>1, <3>1 DEF Names
      <4> QED
        BY <2>5, <4>1
    <3>2. CASE t \notin Space!Known
      <4>1. seq = r.seq
        BY <1>1, <3>2
      <4> QED
        BY <1>5, <1>9, <4>1 DEF Space!With
    <3> QED
      BY <3>1, <3>2
  <2>7. SpaceTypes'
    BY <1>2, <1>4, <1>5, <1>7, <1>9, <2>2, <2>4 DEF SpaceTypes
  <2>8. Names'
    BY <1>2, <2>2, <2>3, <2>4, <2>5, <2>6 DEF Names
  <2>9. Drawn'
    <3>1. ASSUME NEW v \in Users, wreq'[v].at = "insert" PROVE v # u /\ wreq[v].at = "insert" /\ wreq[v].seq # seq
      <4>1. v # u /\ wreq[v].at = "insert" /\ wreq[v].seq \notin DOMAIN named
        BY <1>4, <3>1 DEF Drawn
      <4>2. CASE t \in Space!Known
        BY <1>1, <4>1, <4>2 DEF Names
      <4>3. CASE t \notin Space!Known
        BY <1>1, <1>2, <4>1, <4>3 DEF Drawn
      <4> QED
        BY <4>1, <4>2, <4>3
    <3> QED
      BY <1>2, <1>4, <2>5, <3>1 DEF Drawn
  <2> QED
    BY <1>6, <2>7, <2>8, <2>9
<1> QED
  BY <1>3, <1>8, <1>9

(* A task goes; its number goes on naming it.                              *)
LEMMA DeleteTaskKeeps ==
  ASSUME SpaceInv, NEW u \in Users, NEW t \in Numbered, Space!DeleteTask(u, t)
  PROVE  SpaceInv'
<1> USE DEF SpaceInv
<1>1. /\ rows' = Space!Without(rows, {t}) /\ deps' = {d \in deps : t \notin {d[1], d[2]}}
      /\ UNCHANGED <<owner, counter, links, clock, wreq, named, last>>
  BY DEF Space!DeleteTask
<1>2. Space!Known' = Space!Known \ {t} /\ (\A x \in Space!Known' : rows'[x] = rows[x]) /\ Space!Open' = Space!Open
  BY <1>1 DEF Space!Known, Space!Open, Space!Without
<1>3. deps' \subseteq Space!Known' \X Space!Known'
  BY <1>1, <1>2 DEF SpaceTypes
<1>4. SpaceTypes' /\ Names'
  BY <1>1, <1>2, <1>3 DEF SpaceTypes, Names
<1> QED
  BY <1>1, <1>4 DEF Drawn, Latest, Newest

(* A session is attached, later than ever before,                          *)
LEMMA AttachKeeps ==
  ASSUME MaxDraws \in Nat, SpaceInv, NEW w \in Spaces, NEW p \in Providers, NEW s \in Sessions, Space!Attach(w, p, s)
  PROVE  SpaceInv'
<1> USE DEF SpaceInv
<1>1. PICK k, e : k = <<p, s>> /\ e = [space |-> w, time |-> clock + 1]
  OBVIOUS
<1>2. /\ counter + clock < MaxDraws /\ w \in Space!Open /\ clock' = clock + 1
      /\ links' = Space!With(links, k, e) /\ last' = [last EXCEPT ![s] = w]
      /\ UNCHANGED <<owner, rows, deps, counter, wreq, named>>
  BY <1>1 DEF Space!Attach, Space!AttachedAt
<1>3. DOMAIN links' = DOMAIN links \cup {k} /\ links'[k] = e /\ \A l \in DOMAIN links : l # k => links'[l] = links[l]
  BY <1>2 DEF Space!With
<1>4. k[2] = s /\ e.space = w /\ e.time = clock + 1 /\ k \in Providers \X Sessions
  BY <1>1
<1>5. counter \in Nat /\ clock \in Nat /\ clock' \in Nat /\ counter + clock' <= MaxDraws
      /\ clock + 1 \in 1 .. clock' /\ 1 .. clock \subseteq 1 .. clock'
  BY <1>2 DEF SpaceTypes
<1>6. Space!Open' = Space!Open /\ Space!Known' = Space!Known
  BY <1>2 DEF Space!Open, Space!Known
<1>7. e \in [space : Space!Open, time : 1 .. clock']
  BY <1>1, <1>2, <1>5
<1>8. \A l \in DOMAIN links : links[l] \in [space : Space!Open, time : 1 .. clock'] /\ links[l].time \in Nat /\ links[l].time <= clock
  <2> SUFFICES ASSUME NEW l \in DOMAIN links
               PROVE  links[l] \in [space : Space!Open, time : 1 .. clock'] /\ links[l].time \in Nat /\ links[l].time <= clock
    OBVIOUS
  <2>1. links[l] \in [space : Space!Open, time : 1 .. clock]
    BY DEF SpaceTypes
  <2>2. links[l].time \in 1 .. clock
    BY <2>1
  <2> QED
    BY <1>5, <2>1, <2>2
<1>9. SpaceTypes'
  BY <1>2, <1>3, <1>4, <1>5, <1>6, <1>7, <1>8 DEF SpaceTypes
<1>10. \A l \in DOMAIN links : links[l].time # clock + 1 /\ links[l].time <= clock + 1
  BY <1>5, <1>8
<1>11. \A j, l \in DOMAIN links' : links'[j].time = links'[l].time => j = l
  BY <1>3, <1>4, <1>10 DEF Latest
<1>12. ASSUME NEW x \in Sessions, last'[x] # Space!Nowhere
       PROVE  \E l \in DOMAIN links' : Newest(x, l)' /\ links'[l].space = last'[x]
  <2>1. CASE x = s
    <3>1. last'[x] = w
      BY <1>2, <2>1 DEF SpaceTypes
    <3>2. clock + 1 <= clock + 1
      BY <1>5
    <3>3. Newest(s, k)'
      BY <1>3, <1>4, <1>10, <3>2 DEF Newest
    <3> QED
      BY <1>3, <1>4, <2>1, <3>1, <3>3
  <2>2. CASE x # s
    <3>1. last'[x] = last[x]
      BY <1>2, <2>2 DEF SpaceTypes
    <3>2. PICK l \in DOMAIN links : Newest(x, l) /\ links[l].space = last[x]
      BY <1>12, <3>1 DEF Latest
    <3>3. l # k /\ links'[l] = links[l]
      BY <1>3, <1>4, <2>2, <3>2 DEF Newest
    <3>4. Newest(x, l)'
      BY <1>3, <1>4, <2>2, <3>2, <3>3 DEF Newest
    <3> QED
      BY <1>3, <3>1, <3>2, <3>3, <3>4
  <2> QED
    BY <2>1, <2>2
<1>13. Latest'
  BY <1>11, <1>12 DEF Latest
<1>14. Drawn' /\ Names'
  BY <1>2, <1>6 DEF Drawn, Names
<1> QED
  BY <1>9, <1>13, <1>14

(* or detached, by all providers at once.                                  *)
LEMMA DetachKeeps ==
  ASSUME SpaceInv, NEW w \in Spaces, NEW s \in Sessions, Space!Detach(w, s)
  PROVE  SpaceInv'
<1> USE DEF SpaceInv
<1>1. PICK gone : gone = {k \in DOMAIN links : k[2] = s /\ links[k].space = w}
  OBVIOUS
<1>2. /\ links' = Space!Without(links, gone) /\ last' = [last EXCEPT ![s] = IF @ = w THEN Space!Nowhere ELSE @]
      /\ UNCHANGED <<owner, rows, deps, counter, clock, wreq, named>>
  BY <1>1 DEF Space!Detach
<1>3. DOMAIN links' = DOMAIN links \ gone /\ \A l \in DOMAIN links' : links'[l] = links[l]
  BY <1>2 DEF Space!Without
<1>4. Space!Open' = Space!Open /\ Space!Known' = Space!Known
  BY <1>2 DEF Space!Open, Space!Known
<1>5. SpaceTypes'
  BY <1>2, <1>3, <1>4 DEF SpaceTypes
<1>6. ASSUME NEW x \in Sessions, last'[x] # Space!Nowhere
      PROVE  \E l \in DOMAIN links' : Newest(x, l)' /\ links'[l].space = last'[x]
  <2>1. last'[x] = last[x] /\ (x = s => last[x] # w)
    BY <1>2, <1>6 DEF SpaceTypes
  <2>2. PICK l \in DOMAIN links : Newest(x, l) /\ links[l].space = last[x]
    BY <1>6, <2>1 DEF Latest
  <2>3. l \notin gone
    BY <1>1, <2>1, <2>2 DEF Newest
  <2>4. Newest(x, l)'
    BY <1>3, <2>2, <2>3 DEF Newest
  <2> QED
    BY <1>3, <2>1, <2>2, <2>3, <2>4
<1>7. Latest'
  BY <1>3, <1>6 DEF Latest
<1> QED
  BY <1>2, <1>4, <1>5, <1>7 DEF Drawn, Names

(* Every step keeps the invariant ...                                      *)
LEMMA SpaceKeeps == MaxDraws \in Nat /\ SpaceInv /\ [Space!Next]_(Space!vars) => SpaceInv'
<1> SUFFICES ASSUME MaxDraws \in Nat, SpaceInv, [Space!Next]_(Space!vars) PROVE SpaceInv'
  OBVIOUS
<1>1. CASE UNCHANGED Space!vars
  BY <1>1 DEF Space!vars, SpaceInv, SpaceTypes, Drawn, Names, Latest, Newest, Space!Open, Space!Known
<1>2. \A D \in {{}} \cup {{t2} : t2 \in Numbered} : D \in SUBSET Numbered
  OBVIOUS
<1> QED
  BY <1>1, <1>2, CreateSpaceKeeps, LookKeeps, LinkKeeps, DrawKeeps, InsertKeeps, DeleteTaskKeeps, AttachKeeps,
     DetachKeeps DEF Space!Next

(* ... which holds of empty tables.                                        *)
LEMMA SpaceInit == MaxDraws \in Nat /\ Space!Init => SpaceInv
<1> SUFFICES ASSUME MaxDraws \in Nat, Space!Init PROVE SpaceInv
  OBVIOUS
<1>1. DOMAIN owner = {} /\ DOMAIN rows = {} /\ DOMAIN links = {} /\ DOMAIN named = {} /\ deps = {}
  BY DEF Space!Init, Space!Empty
<1>2. counter = 0 /\ clock = 0 /\ DOMAIN wreq = Users /\ DOMAIN last = Sessions
  BY DEF Space!Init
<1>3. (\A u \in Users : wreq[u].at = "idle") /\ \A s \in Sessions : last[s] = Space!Nowhere
  BY DEF Space!Init, Space!Idle
<1>4. SpaceTypes
  BY <1>1, <1>2 DEF SpaceTypes, Space!Open, Space!Known
<1> QED
  BY <1>1, <1>3, <1>4 DEF SpaceInv, Drawn, Names, Latest, Space!Known

(* However tasks are created, refused, deleted and created again, a number *)
(* that a task has borne never comes to name another (src/db/tasks.py:72). *)
THEOREM NumbersAreKept ==
  ASSUME MaxDraws \in Nat
  PROVE  Space!Spec => []NumbersNameOneTask
<1>1. Space!Init => SpaceInv
  BY SpaceInit
<1>2. SpaceInv /\ [Space!Next]_(Space!vars) => SpaceInv'
  BY SpaceKeeps
<1>3. SpaceInv => NumbersNameOneTask
  <2> SUFFICES ASSUME SpaceInv PROVE NumbersNameOneTask
    OBVIOUS
  <2>1. counter + clock \in 0 .. MaxDraws
    BY DEF SpaceInv, SpaceTypes
  <2> QED
    BY <2>1 DEF NumbersNameOneTask, Space!TypeOK, Space!NumbersNameOneTask, SpaceInv, SpaceTypes, Names
<1> QED
  BY <1>1, <1>2, <1>3, PTL DEF Space!Spec

(* However a session is attached, under whatever providers, and detached,  *)
(* it resolves to the workspace it was attached to last                    *)
(* (src/db/workspace_session_links.py:19).                                 *)
THEOREM SessionsResolve ==
  ASSUME MaxDraws \in Nat
  PROVE  Space!Spec => []ResolvesToLast
<1>1. Space!Init => SpaceInv
  BY SpaceInit
<1>2. SpaceInv /\ [Space!Next]_(Space!vars) => SpaceInv'
  BY SpaceKeeps
<1>3. SpaceInv => ResolvesToLast
  <2> SUFFICES ASSUME SpaceInv, NEW s \in Sessions, last[s] # Space!Nowhere PROVE Space!Resolved(s) = last[s]
    BY DEF ResolvesToLast, Space!ResolvesToLast
  <2> USE DEF SpaceInv
  <2>1. PICK k \in DOMAIN links : Newest(s, k) /\ links[k].space = last[s]
    BY DEF Latest
  <2>2. k \in Space!OfSession(s) /\ \A l \in Space!OfSession(s) : l \in DOMAIN links /\ links[l].time <= links[k].time
    BY <2>1 DEF Newest, Space!OfSession
  <2>3. PICK j : j = CHOOSE i \in Space!OfSession(s) : \A l \in Space!OfSession(s) : links[l].time <= links[i].time
    OBVIOUS
  <2>4. j \in Space!OfSession(s) /\ \A l \in Space!OfSession(s) : links[l].time <= links[j].time
    BY <2>2, <2>3
  <2>5. links[j].time \in Nat /\ links[k].time \in Nat
    BY <2>2, <2>4 DEF SpaceTypes
  <2>6. links[j].time = links[k].time
    BY <2>2, <2>4, <2>5
  <2>7. j = k
    BY <2>2, <2>4, <2>6 DEF Latest
  <2> QED
    BY <2>1, <2>2, <2>3, <2>7 DEF Space!Resolved
<1> QED
  BY <1>1, <1>2, <1>3, PTL DEF Space!Spec
=============================================================================
