--------------------------- MODULE CodeGraphBridge ---------------------------
(***************************************************************************)
(* The CodeGraph bridge, a Node process that builds the graph of a         *)
(* repository in a disposable thread (codegraph_bridge/src), and the one   *)
(* job worker that asks it to (code_intelligence, context/job_worker.py).  *)
(*                                                                         *)
(* The bridge is single-threaded: an action is what runs between two       *)
(* awaits or events.  Its memory is lost when the container restarts; the  *)
(* entry point ends the container when the bridge or the worker ends, so   *)
(* both restart together.  Queries open the graph as health checks do, and *)
(* then read in threads that share nothing; those threads are left out.    *)
(***************************************************************************)
EXTENDS Integers

CONSTANTS Repos,
          Jobs,             \* codegraph_sync jobs in the order of creation; the id of a job is that of its request
          MaxRestarts       \* bound

ASSUME BridgeAssumption == Jobs \subseteq Nat /\ Jobs # {} /\ MaxRestarts \in Nat

VARIABLES
  status,      \* of each row of jobs
  target,      \* the repository of each job
  at, job,     \* where the worker is, and with which job
  seen,        \* the freshness its health request returned
  config,      \* code_intelligence_config.freshness
  asked,       \* jobs whose cancellation is on its way to the bridge
  registered, instances, watched, writes, recovery,  \* Operations; watched: the open graphs that have a watcher
  phase, thread, graces, timed, settled,   \* the task of each job's request: state.timer, state.settled, ...
  answer,      \* what the client was answered
  waiting,     \* repositories whose graph is being opened for users
  indexed,     \* repositories that have a graph on disk
  cut,         \* history: graphs whose writer was stopped or lost before its end, since the bridge started
  broken,      \* history: graphs whose last writer did not end well
  restarts

jobVars == <<status, target, asked>>
workerVars == <<at, job, seen, config>>
cacheVars == <<registered, instances, watched, waiting>>
diskVars == <<indexed, cut, broken>>
taskVars == <<phase, thread, graces, timed, settled, answer>>
vars == <<jobVars, workerVars, cacheVars, writes, recovery, taskVars, diskVars, restarts>>

TypeOK ==
  /\ status \in [Jobs -> {"new", "queued", "running", "cancelling", "over"}]
  /\ target \in [Jobs -> Repos]
  /\ at \in {"poll", "begin", "register", "call", "wait", "trees", "check", "ask", "checking", "record", "fail"}
  /\ job \in Jobs /\ seen \in {"fresh", "stale"}
  /\ config \in [Repos -> {"unavailable", "pending_sync", "stale", "fresh"}]
  /\ asked \subseteq Jobs
  /\ registered \subseteq Repos /\ instances \subseteq Repos /\ watched \subseteq Repos /\ waiting \subseteq Repos
  /\ writes \subseteq Repos /\ recovery \subseteq Repos
  /\ phase \in [Jobs -> {"idle", "running", "watching", "over"}]
  /\ thread \in [Jobs -> {"none", "busy", "ok", "error", "dead", "exited", "gone"}]
  /\ graces \in [Jobs -> SUBSET {"timeout", "cancel"}]
  /\ timed \subseteq Jobs /\ settled \subseteq Jobs
  /\ answer \in [Jobs -> {"none", "result", "error"}]
  /\ indexed \subseteq Repos /\ cut \subseteq Repos /\ broken \subseteq Repos
  /\ restarts \in 0..MaxRestarts

\* operations.active
Active(j) == phase[j] \in {"running", "watching"} /\ j \notin settled

Init ==
  /\ status = [j \in Jobs |-> "new"] /\ target \in [Jobs -> Repos] /\ asked = {}
  /\ at = "poll" /\ job = (CHOOSE j \in Jobs : TRUE) /\ seen = "stale" /\ config = [r \in Repos |-> "unavailable"]
  /\ registered = {} /\ instances = {} /\ watched = {} /\ waiting = {}
  /\ writes = {} /\ recovery = {}
  /\ phase = [j \in Jobs |-> "idle"] /\ thread = [j \in Jobs |-> "none"] /\ graces = [j \in Jobs |-> {}]
  /\ timed = {} /\ settled = {} /\ answer = [j \in Jobs |-> "none"]
  /\ indexed = {} /\ cut = {} /\ broken = {} /\ restarts = 0

-----------------------------------------------------------------------------
\* POST .../sync: nothing is queued while a job of the repository is queued or running.
Sync(j) ==
  /\ status[j] = "new" /\ \A k \in Jobs : k < j => status[k] # "new"
  /\ \A k \in Jobs : target[k] = target[j] => status[k] \notin {"queued", "running"}
  /\ status' = [status EXCEPT ![j] = "queued"]
  /\ UNCHANGED <<target, asked, workerVars, cacheVars, writes, recovery, taskVars, diskVars, restarts>>

\* POST /api/jobs/cancel, the database's part.  The request of a running job is then cancelled at the bridge, unless
\* the job was not yet running when the handler read it, or the bridge is out of reach.
RequestCancel(j) ==
  /\ status[j] \in {"queued", "running"}
  /\ status' = [status EXCEPT ![j] = IF status[j] = "queued" THEN "over" ELSE "cancelling"]
  /\ asked' \in {asked} \cup (IF status[j] = "running" THEN {asked \cup {j}} ELSE {})
  /\ UNCHANGED <<target, workerVars, cacheVars, writes, recovery, taskVars, diskVars, restarts>>

\* The worker claims the oldest queued job.
ClaimJob(j) ==
  /\ at = "poll" /\ status[j] = "queued" /\ \A k \in Jobs : k < j => status[k] # "queued"
  /\ status' = [status EXCEPT ![j] = "running"] /\ job' = j /\ at' = "begin"
  /\ UNCHANGED <<target, asked, seen, config, cacheVars, writes, recovery, taskVars, diskVars, restarts>>

Goes(step) == at' = step /\ UNCHANGED <<jobVars, job, seen, config>>

Ends(freshness) ==
  /\ status' = [status EXCEPT ![job] = "over"] /\ at' = "poll" /\ seen' = "stale"
  /\ config' = [config EXCEPT ![target[job]] = freshness]
  /\ UNCHANGED <<target, asked, job>>

\* _run_code_intelligence_sync up to its try: the callback of a cancelled job raises, and nothing is recorded.
Begin ==
  /\ at = "begin"
  /\ IF status[job] = "cancelling"
     THEN Ends(config[target[job]])
     ELSE /\ at' = "register" /\ config' = [config EXCEPT ![target[job]] = "pending_sync"]
          /\ UNCHANGED <<jobVars, job, seen>>
  /\ UNCHANGED <<cacheVars, writes, recovery, taskVars, diskVars, restarts>>

\* A provider is built for each call, knows of no registration and registers the repository again.
Register ==
  /\ at \in {"register", "check"}
  /\ registered' = registered \cup {target[job]}
  /\ Goes(IF at = "register" THEN "call" ELSE "ask")
  /\ UNCHANGED <<instances, watched, waiting, writes, recovery, taskVars, diskVars, restarts>>

\* The bridge cannot be reached, or answers what the client cannot read.
BridgeFails ==
  /\ at \in {"register", "call", "check", "ask"} /\ Goes("fail")
  /\ UNCHANGED <<cacheVars, writes, recovery, taskVars, diskVars, restarts>>

\* ensure_index: refused while the repository has a writer; otherwise it becomes the writer, and its cached graph is
\* closed.  root() finds the registration, which Register made in the same life of the bridge.
EnsureIndex ==
  LET r == target[job] IN
  /\ at = "call" /\ Goes("wait")
  /\ IF r \in writes
     THEN answer' = [answer EXCEPT ![job] = "error"] /\ UNCHANGED <<writes, instances, watched, indexed, phase, thread, timed>>
     ELSE /\ instances' = instances \ {r} /\ watched' = watched \ {r}
          /\ writes' = writes \cup {r} /\ indexed' = indexed \cup {r}
          /\ phase' = [phase EXCEPT ![job] = "running"] /\ thread' = [thread EXCEPT ![job] = "busy"]
          /\ timed' = timed \cup {job} /\ UNCHANGED answer
  /\ UNCHANGED <<graces, settled, registered, waiting, recovery, cut, broken, restarts>>

\* The answer of ensure_index, or the client's own timeout, which is as long as the bridge's.
Answered ==
  /\ at = "wait" /\ Goes(IF answer[job] = "result" THEN "trees" ELSE "fail")
  /\ answer' = [answer EXCEPT ![job] = "none"]
  /\ UNCHANGED <<cacheVars, writes, recovery, phase, thread, graces, timed, settled, diskVars, restarts>>

\* The pass over the lossless trees, under callbacks that raise when the job is cancelled; it may fail.
Trees ==
  /\ at = "trees"
  /\ \E step \in IF status[job] = "cancelling" THEN {"fail"} ELSE {"check", "fail"} : Goes(step)
  /\ UNCHANGED <<cacheVars, writes, recovery, taskVars, diskVars, restarts>>

\* graph(): it is cached, or can be opened, or the request fails.
Reachable(r) == r \in registered /\ r \in instances \cup indexed

CheckHealth ==
  /\ at = "ask" /\ Goes(IF Reachable(target[job]) THEN "checking" ELSE "fail")
  /\ UNCHANGED <<cacheVars, writes, recovery, taskVars, diskVars, restarts>>

Ask(r) ==
  /\ Reachable(r) /\ waiting' = waiting \cup {r}
  /\ UNCHANGED <<jobVars, workerVars, registered, instances, watched, writes, recovery, taskVars, diskVars, restarts>>

\* A graph was opened, or found in the cache, and is watched from now on or stays as it was.
Opened(r, watching) ==
  /\ instances' = instances \cup {r}
  /\ watched' = IF watching THEN watched \cup {r} ELSE watched

\* evict(): the graph of another repository was opened and takes the place of this one, unless it has a writer.
Evict(r) ==
  /\ r \in instances \ writes
  /\ instances' = instances \ {r} /\ watched' = watched \ {r}
  /\ UNCHANGED <<jobVars, workerVars, registered, waiting, writes, recovery, taskVars, diskVars, restarts>>

GraphOpened(r) ==
  /\ r \in waiting /\ waiting' = waiting \ {r}
  /\ \E watching \in BOOLEAN : Opened(r, watching)
  /\ UNCHANGED <<jobVars, workerVars, registered, writes, recovery, taskVars, diskVars, restarts>>

\* buildHealthResponse, for the worker: "stale" stands for degraded and pending_sync too, which depend on the engine.
FreshnessOf(r, watching) == IF r \in recovery \/ ~watching THEN {"stale"} ELSE {"fresh", "stale"}

HealthAnswered ==
  LET r == target[job] IN
  /\ at = "checking"
  /\ \E watching \in BOOLEAN : Opened(r, watching)
  /\ at' = "record" /\ seen' \in FreshnessOf(r, r \in watched')
  /\ UNCHANGED <<jobVars, job, config, registered, waiting, writes, recovery, taskVars, diskVars, restarts>>

\* The last statement of the try, and its handler.
Record ==
  /\ at \in {"record", "fail"} /\ Ends(IF at = "record" THEN seen ELSE "stale")
  /\ UNCHANGED <<cacheVars, writes, recovery, taskVars, diskVars, restarts>>

-----------------------------------------------------------------------------
\* A mutant: finishTask does not look whether the task is settled.
FinishTaskAgain(j, reply) ==
  /\ settled' = settled \cup {j} /\ timed' = timed \ {j} /\ writes' = writes \ {target[j]}
  /\ answer' = IF j = job /\ at = "wait" THEN [answer EXCEPT ![j] = reply] ELSE answer

\* finishTask: the first to settle a task answers it and frees the repository; who comes later changes nothing.  The
\* answer goes to the client if it still waits.
FinishTask(j, reply) ==
  IF j \in settled
  THEN UNCHANGED <<settled, timed, answer, writes>>
  ELSE /\ settled' = settled \cup {j} /\ timed' = timed \ {j} /\ writes' = writes \ {target[j]}
       /\ answer' = IF j = job /\ at = "wait" THEN [answer EXCEPT ![j] = reply] ELSE answer

\* The thread posts its result or its error, dies of an uncaught one, or exits.
ThreadEnds(j) ==
  /\ thread[j] = "busy"
  /\ \E end \in {"ok", "error", "dead", "exited"} :
       /\ thread' = [thread EXCEPT ![j] = end]
       /\ broken' = IF end = "ok" THEN broken \ {target[j]} ELSE broken \cup {target[j]}
       /\ cut' = IF end = "ok" THEN cut \ {target[j]} ELSE IF end = "error" THEN cut ELSE cut \cup {target[j]}
  /\ UNCHANGED <<jobVars, workerVars, cacheVars, writes, recovery, phase, graces, timed, settled, answer, indexed, restarts>>

\* A mutant: the timer is cleared as soon as the thread's message is there.
MessageClearsTimer(j) ==
  /\ thread[j] \in {"ok", "error"} /\ thread' = [thread EXCEPT ![j] = "gone"]
  /\ IF thread[j] = "ok"
     THEN recovery' = recovery \ {target[j]} /\ phase' = [phase EXCEPT ![j] = "watching"]
          /\ timed' = timed \ {j} /\ UNCHANGED <<settled, answer, writes>>
     ELSE FinishTask(j, "error") /\ UNCHANGED <<recovery, phase>>
  /\ UNCHANGED <<jobVars, workerVars, cacheVars, graces, diskVars, restarts>>

\* handleWorkerMessage.  Success counts at once; it is answered when the graph is open and watched.
Message(j) ==
  /\ thread[j] \in {"ok", "error"} /\ thread' = [thread EXCEPT ![j] = "gone"]
  /\ IF thread[j] = "ok"
     THEN recovery' = recovery \ {target[j]} /\ phase' = [phase EXCEPT ![j] = "watching"]
          /\ UNCHANGED <<settled, timed, answer, writes>>
     ELSE FinishTask(j, "error") /\ UNCHANGED <<recovery, phase>>
  /\ UNCHANGED <<jobVars, workerVars, cacheVars, graces, diskVars, restarts>>

\* startWatching came back, with the graph watched, or not, or not opened.
Watching(j) ==
  /\ phase[j] = "watching" /\ phase' = [phase EXCEPT ![j] = "over"]
  /\ FinishTask(j, "result")
  /\ \/ \E watching \in BOOLEAN : Opened(target[j], watching)
     \/ UNCHANGED <<instances, watched>>
  /\ UNCHANGED <<jobVars, workerVars, registered, waiting, recovery, thread, graces, diskVars, restarts>>

\* The handlers of 'error' and 'exit'; an exit while the thread is being ended is left to who ends it, one of code
\* zero to the timer.
ThreadLost(j) ==
  /\ thread[j] \in {"dead", "exited"} /\ thread' = [thread EXCEPT ![j] = "gone"]
  /\ \/ thread[j] = "exited" /\ UNCHANGED <<recovery, settled, timed, answer, writes>>
     \/ /\ thread[j] = "dead" \/ graces[j] = {}
        /\ recovery' = recovery \cup {target[j]} /\ FinishTask(j, "error")
  /\ UNCHANGED <<jobVars, workerVars, cacheVars, phase, graces, diskVars, restarts>>

\* The timer of a task; only finishTask clears it.
TimerFires(j) ==
  /\ j \in timed /\ timed' = timed \ {j}
  /\ graces' = [graces EXCEPT ![j] = graces[j] \cup {"timeout"}]
  /\ UNCHANGED <<jobVars, workerVars, cacheVars, writes, recovery, phase, thread, settled, answer, diskVars, restarts>>

\* cancelTask, which finds the task in operations.active or has nothing to do.
CancelTask(j) ==
  /\ j \in asked /\ asked' = asked \ {j}
  /\ graces' = IF Active(j) THEN [graces EXCEPT ![j] = graces[j] \cup {"cancel"}] ELSE graces
  /\ UNCHANGED <<status, target, workerVars, cacheVars, writes, recovery, phase, thread, timed, settled, answer, diskVars, restarts>>

\* The grace of handleTaskTimeout or cancelTask is over: the thread is terminated, its last message handled before.
GraceEnds(j, why) ==
  /\ why \in graces[j] /\ graces' = [graces EXCEPT ![j] = graces[j] \ {why}]
  /\ thread[j] \in {"busy", "gone"} /\ thread' = [thread EXCEPT ![j] = "gone"]
  /\ recovery' = recovery \cup {target[j]}
  /\ FinishTask(j, "error")
  /\ IF thread[j] = "busy"
     THEN cut' = cut \cup {target[j]} /\ broken' = broken \cup {target[j]}
     ELSE UNCHANGED <<cut, broken>>
  /\ UNCHANGED <<jobVars, workerVars, cacheVars, phase, indexed, restarts>>

\* The container restarts: a graph that is being written stays as it is, and the running jobs are ended.
Restart ==
  /\ restarts < MaxRestarts /\ restarts' = restarts + 1
  /\ status' = [j \in Jobs |-> IF status[j] \in {"running", "cancelling"} THEN "over" ELSE status[j]]
  /\ at' = "poll" /\ seen' = "stale" /\ asked' = {}
  /\ registered' = {} /\ instances' = {} /\ watched' = {} /\ waiting' = {} /\ writes' = {} /\ recovery' = {}
  /\ phase' = [j \in Jobs |-> "idle"] /\ thread' = [j \in Jobs |-> "none"] /\ graces' = [j \in Jobs |-> {}]
  /\ timed' = {} /\ settled' = {} /\ answer' = [j \in Jobs |-> "none"]
  /\ broken' = broken \cup {target[j] : j \in {k \in Jobs : thread[k] = "busy"}}
  /\ cut' = {}
  /\ UNCHANGED <<target, job, config, indexed>>

Bridge(j) == Message(j) \/ ThreadLost(j) \/ TimerFires(j) \/ \E why \in {"timeout", "cancel"} : GraceEnds(j, why)
Next ==
  \/ \E j \in Jobs : Sync(j) \/ RequestCancel(j) \/ ClaimJob(j) \/ CancelTask(j) \/ ThreadEnds(j) \/ Watching(j)
  \/ \E j \in Jobs : Bridge(j)
  \/ \E r \in Repos : Ask(r) \/ GraphOpened(r) \/ Evict(r)
  \/ Begin \/ Register \/ BridgeFails \/ EnsureIndex \/ Answered \/ Trees \/ CheckHealth \/ HealthAnswered \/ Record
  \/ Restart

\* Node runs the timers and events that are due.  Threads owe nothing: they may hang, and so may opening a graph.
Spec == Init /\ [][Next]_vars /\ \A j \in Jobs : WF_vars(Bridge(j))

-----------------------------------------------------------------------------
\* At most one thread writes a repository's graph, and while it does, or its request is open, the repository is
\* claimed (worker.js:18, operations.js:93): a cancellation or timeout that comes to its end late, after the task was
\* settled, must not give away the claim of the next writer.
WritersApart ==
  /\ \A j, k \in Jobs : thread[j] = "busy" /\ thread[k] = "busy" /\ target[j] = target[k] => j = k
  /\ \A j \in Jobs : thread[j] = "busy" \/ Active(j) => target[j] \in writes

\* A graph whose writer was stopped or lost is known to need recovery as soon as the next writer may come, and stays
\* so until a writer succeeds, however the messages, timeouts and cancellations of several writers fall together; and
\* the row says "fresh" of no graph whose last writer did not end well, restarts and engine errors included
\* (worker.js:34, 49 and 95, job_worker.py:476).
InterruptedIsStale ==
  /\ cut \ writes \subseteq recovery
  /\ \A r \in Repos : config[r] = "fresh" => r \notin broken

\* What must hold of the bridge, its writers and the rows in every state (operations.js, worker.js, job_worker.py:476).
GraphsHold == TypeOK /\ WritersApart /\ InterruptedIsStale

\* Every request is settled, though its thread hang, die or answer in the midst of being ended, and though the graph
\* it would watch never opens; and then its repository is free (worker.js:70).
TasksSettle ==
  \A j \in Jobs : Active(j) ~> ~Active(j) /\ (target[j] \in writes => \E k \in Jobs \ {j} : Active(k) /\ target[k] = target[j])
=============================================================================
