------------------------ MODULE CodeGraphBridgeProofs ------------------------
(***************************************************************************)
(* Theorems about CodeGraphBridge: writers of one repository stay apart,   *)
(* and no interrupted graph passes for fresh, for any number of            *)
(* repositories, jobs and restarts.                                        *)
(***************************************************************************)
EXTENDS CodeGraphBridge, TLAPS

-----------------------------------------------------------------------------
\* A thread that works, or whose last event is not handled yet, belongs to a task nobody has settled.
Pending == \A j \in Jobs : thread[j] \in {"busy", "ok", "error", "dead", "exited"} => phase[j] = "running" /\ j \notin settled

\* Timers and graces belong to tasks that are active or settled; a task that has not begun has none.
Ending == \A j \in Jobs : (j \in timed => Active(j)) /\ (graces[j] # {} => Active(j) \/ j \in settled)

Unbegun ==
  /\ \A j \in Jobs :
       /\ phase[j] = "idle" => j \notin settled /\ answer[j] # "result"
       /\ status[j] \in {"new", "queued"} \/ (j = job /\ at \in {"begin", "register", "call"}) => phase[j] = "idle"
  /\ at \in {"begin", "register", "call"} => status[job] \in {"running", "cancelling"}

\* An active task holds its repository, alone.
Alone ==
  /\ \A j \in Jobs : Active(j) => target[j] \in writes
  /\ \A j, k \in Jobs : Active(j) /\ Active(k) /\ target[j] = target[k] => j = k

\* A graph that was cut is known to be, or the task that lost its thread is still to be ended.
Lost(j) == Active(j) /\ phase[j] = "running" /\ thread[j] \in {"dead", "exited", "gone"}
CutKnown == \A r \in cut : r \in recovery \/ \E j \in Jobs : target[j] = r /\ Lost(j)

\* A graph whose writer has just ended well is whole.
DoneWhole == \A j \in Jobs :
  /\ thread[j] = "ok" => target[j] \notin cut
  /\ thread[j] = "ok" \/ (phase[j] = "watching" /\ j \notin settled) => target[j] \notin broken

\* A graph that is whole and that nobody writes: so is one the row calls fresh, or the worker is about to.
Sound(r) == r \notin broken /\ \A j \in Jobs : target[j] = r => ~Active(j)
RowsSound ==
  /\ \A r \in Repos : config[r] = "fresh" => Sound(r)
  /\ at \in {"trees", "check", "ask", "checking", "record"} => Sound(target[job])
  /\ at = "wait" /\ answer[job] = "result" => Sound(target[job])
  /\ at \in {"register", "call"} => config[target[job]] = "pending_sync"

TaskInv == Pending /\ Ending /\ Unbegun /\ Alone
GraphInv == CutKnown /\ DoneWhole
IInv == TypeOK /\ TaskInv /\ GraphInv /\ RowsSound

-----------------------------------------------------------------------------
LEMMA InitIInv == Init => IInv
  BY BridgeAssumption DEF Init, IInv, TypeOK, TaskInv, GraphInv, Pending, Ending, Unbegun, Alone, CutKnown, DoneWhole, RowsSound, Sound, Active

LEMMA InvariantImplies == IInv => GraphsHold
<1> SUFFICES ASSUME IInv PROVE GraphsHold
  OBVIOUS
<1> USE DEF IInv, TypeOK, TaskInv, GraphInv
<1>1. WritersApart
  BY DEF WritersApart, Pending, Alone, Active
<1>2. cut \ writes \subseteq recovery
  BY DEF CutKnown, Lost, Alone
<1>3. QED
  BY <1>1, <1>2 DEF GraphsHold, InterruptedIsStale, RowsSound, Sound

LEMMA FinishTyped ==
  ASSUME TypeOK, NEW j \in Jobs, NEW reply \in {"result", "error"}, FinishTask(j, reply)
  PROVE  /\ settled' \subseteq Jobs /\ timed' \subseteq Jobs /\ writes' \subseteq Repos
         /\ answer' \in [Jobs -> {"none", "result", "error"}]
<1>1. CASE j \in settled
  BY <1>1 DEF FinishTask, TypeOK
<1>2. CASE j \notin settled
  <2>1. answer' \in [Jobs -> {"none", "result", "error"}]
    BY <1>2 DEF FinishTask, TypeOK
  <2>2. settled' \subseteq Jobs /\ timed' \subseteq Jobs /\ writes' \subseteq Repos
    BY <1>2 DEF FinishTask, TypeOK
  <2> QED
    BY <2>1, <2>2
<1> QED
  BY <1>1, <1>2

LEMMA SyncKeeps == ASSUME IInv, NEW j \in Jobs, Sync(j) PROVE IInv'
<1> USE DEF IInv
<1>1. TypeOK'
  BY BridgeAssumption DEF Sync, jobVars, workerVars, cacheVars, taskVars, diskVars, TypeOK
<1>2. TaskInv'
  BY DEF Sync, jobVars, workerVars, cacheVars, taskVars, diskVars, TypeOK, TaskInv, Pending, Ending, Unbegun, Alone, Active
<1>3. GraphInv'
  BY DEF Sync, jobVars, workerVars, cacheVars, taskVars, diskVars, TypeOK, TaskInv, Pending, Ending, Alone, Active, GraphInv, CutKnown, Lost, DoneWhole
<1>4. RowsSound'
  BY DEF Sync, jobVars, workerVars, cacheVars, taskVars, diskVars, TypeOK, TaskInv, GraphInv, Pending, Ending, Unbegun, Alone, CutKnown, Lost, DoneWhole, RowsSound, Sound, Active
<1> QED
  BY <1>1, <1>2, <1>3, <1>4

LEMMA RequestCancelKeeps == ASSUME IInv, NEW j \in Jobs, RequestCancel(j) PROVE IInv'
<1> USE DEF IInv
<1>1. TypeOK'
  BY BridgeAssumption DEF RequestCancel, jobVars, workerVars, cacheVars, taskVars, diskVars, TypeOK
<1>2. TaskInv'
  BY DEF RequestCancel, jobVars, workerVars, cacheVars, taskVars, diskVars, TypeOK, TaskInv, Pending, Ending, Unbegun, Alone, Active
<1>3. GraphInv'
  BY DEF RequestCancel, jobVars, workerVars, cacheVars, taskVars, diskVars, TypeOK, TaskInv, Pending, Ending, Alone, Active, GraphInv, CutKnown, Lost, DoneWhole
<1>4. RowsSound'
  BY DEF RequestCancel, jobVars, workerVars, cacheVars, taskVars, diskVars, TypeOK, TaskInv, GraphInv, Pending, Ending, Unbegun, Alone, CutKnown, Lost, DoneWhole, RowsSound, Sound, Active
<1> QED
  BY <1>1, <1>2, <1>3, <1>4

LEMMA ClaimJobKeeps == ASSUME IInv, NEW j \in Jobs, ClaimJob(j) PROVE IInv'
<1> USE DEF IInv
<1>1. TypeOK'
  BY BridgeAssumption DEF ClaimJob, jobVars, workerVars, cacheVars, taskVars, diskVars, TypeOK
<1>2. TaskInv'
  BY DEF ClaimJob, jobVars, workerVars, cacheVars, taskVars, diskVars, TypeOK, TaskInv, Pending, Ending, Unbegun, Alone, Active
<1>3. GraphInv'
  BY DEF ClaimJob, jobVars, workerVars, cacheVars, taskVars, diskVars, TypeOK, TaskInv, Pending, Ending, Alone, Active, GraphInv, CutKnown, Lost, DoneWhole
<1>4. RowsSound'
  BY DEF ClaimJob, jobVars, workerVars, cacheVars, taskVars, diskVars, TypeOK, TaskInv, GraphInv, Pending, Ending, Unbegun, Alone, CutKnown, Lost, DoneWhole, RowsSound, Sound, Active
<1> QED
  BY <1>1, <1>2, <1>3, <1>4

LEMMA CancelTaskKeeps == ASSUME IInv, NEW j \in Jobs, CancelTask(j) PROVE IInv'
<1> USE DEF IInv
<1>1. TypeOK'
  BY BridgeAssumption DEF CancelTask, jobVars, workerVars, cacheVars, taskVars, diskVars, TypeOK
<1>2. TaskInv'
  BY DEF CancelTask, jobVars, workerVars, cacheVars, taskVars, diskVars, TypeOK, TaskInv, Pending, Ending, Unbegun, Alone, Active
<1>3. GraphInv'
  BY DEF CancelTask, jobVars, workerVars, cacheVars, taskVars, diskVars, TypeOK, TaskInv, Pending, Ending, Alone, Active, GraphInv, CutKnown, Lost, DoneWhole
<1>4. RowsSound'
  BY DEF CancelTask, jobVars, workerVars, cacheVars, taskVars, diskVars, TypeOK, TaskInv, GraphInv, Pending, Ending, Unbegun, Alone, CutKnown, Lost, DoneWhole, RowsSound, Sound, Active
<1> QED
  BY <1>1, <1>2, <1>3, <1>4

LEMMA ThreadEndsKeeps == ASSUME IInv, NEW j \in Jobs, ThreadEnds(j) PROVE IInv'
<1> USE DEF IInv
<1>1. TypeOK'
  BY BridgeAssumption DEF ThreadEnds, jobVars, workerVars, cacheVars, taskVars, diskVars, TypeOK
<1>2. TaskInv'
  BY DEF ThreadEnds, jobVars, workerVars, cacheVars, taskVars, diskVars, TypeOK, TaskInv, Pending, Ending, Unbegun, Alone, Active
<1>3. GraphInv'
  BY DEF ThreadEnds, jobVars, workerVars, cacheVars, taskVars, diskVars, TypeOK, TaskInv, Pending, Ending, Alone, Active, GraphInv, CutKnown, Lost, DoneWhole
<1>4. RowsSound'
  BY DEF ThreadEnds, jobVars, workerVars, cacheVars, taskVars, diskVars, TypeOK, TaskInv, GraphInv, Pending, Ending, Unbegun, Alone, CutKnown, Lost, DoneWhole, RowsSound, Sound, Active
<1> QED
  BY <1>1, <1>2, <1>3, <1>4

LEMMA WatchingKeeps == ASSUME IInv, NEW j \in Jobs, Watching(j) PROVE IInv'
<1> USE DEF IInv
<1>1. TypeOK'
  <2>1. settled' \subseteq Jobs /\ timed' \subseteq Jobs /\ writes' \subseteq Repos /\ answer' \in [Jobs -> {"none", "result", "error"}]
    BY FinishTyped DEF Watching
  <2>2. instances' \subseteq Repos /\ watched' \subseteq Repos
    BY DEF Watching, Opened, TypeOK
  <2>3. phase' \in [Jobs -> {"idle", "running", "watching", "over"}]
    BY DEF Watching, TypeOK
  <2> QED
    BY <2>1, <2>2, <2>3 DEF Watching, jobVars, workerVars, cacheVars, taskVars, diskVars, TypeOK
<1>2. TaskInv'
  BY DEF Watching, FinishTask, Opened, jobVars, workerVars, cacheVars, taskVars, diskVars, TypeOK, TaskInv, Pending, Ending, Unbegun, Alone, Active
<1>3. GraphInv'
  BY DEF Watching, FinishTask, Opened, jobVars, workerVars, cacheVars, taskVars, diskVars, TypeOK, TaskInv, Pending, Ending, Alone, Active, GraphInv, CutKnown, Lost, DoneWhole
<1>4. RowsSound'
  BY DEF Watching, FinishTask, Opened, jobVars, workerVars, cacheVars, taskVars, diskVars, TypeOK, TaskInv, GraphInv, Pending, Ending, Unbegun, Alone, CutKnown, Lost, DoneWhole, RowsSound, Sound, Active
<1> QED
  BY <1>1, <1>2, <1>3, <1>4

LEMMA MessageKeeps == ASSUME IInv, NEW j \in Jobs, Message(j) PROVE IInv'
<1> USE DEF IInv
<1>1. TypeOK'
  <2>1. settled' \subseteq Jobs /\ timed' \subseteq Jobs /\ writes' \subseteq Repos /\ answer' \in [Jobs -> {"none", "result", "error"}]
    <3>1. CASE thread[j] = "ok"
      BY <3>1 DEF Message, TypeOK
    <3>2. CASE thread[j] # "ok"
      BY <3>2, FinishTyped DEF Message
    <3> QED
      BY <3>1, <3>2
  <2>2. recovery' \subseteq Repos /\ phase' \in [Jobs -> {"idle", "running", "watching", "over"}]
    BY DEF Message, TypeOK
  <2>3. thread' \in [Jobs -> {"none", "busy", "ok", "error", "dead", "exited", "gone"}]
    BY DEF Message, TypeOK
  <2> QED
    BY <2>1, <2>2, <2>3 DEF Message, jobVars, workerVars, cacheVars, taskVars, diskVars, TypeOK
<1>2. TaskInv'
  BY DEF Message, FinishTask, jobVars, workerVars, cacheVars, taskVars, diskVars, TypeOK, TaskInv, Pending, Ending, Unbegun, Alone, Active
<1>3. GraphInv'
  BY DEF Message, FinishTask, jobVars, workerVars, cacheVars, taskVars, diskVars, TypeOK, TaskInv, Pending, Ending, Alone, Active, GraphInv, CutKnown, Lost, DoneWhole
<1>4. RowsSound'
  BY DEF Message, FinishTask, jobVars, workerVars, cacheVars, taskVars, diskVars, TypeOK, TaskInv, GraphInv, Pending, Ending, Unbegun, Alone, CutKnown, Lost, DoneWhole, RowsSound, Sound, Active
<1> QED
  BY <1>1, <1>2, <1>3, <1>4

LEMMA ThreadLostKeeps == ASSUME IInv, NEW j \in Jobs, ThreadLost(j) PROVE IInv'
<1> USE DEF IInv
<1>1. TypeOK'
  <2>1. settled' \subseteq Jobs /\ timed' \subseteq Jobs /\ writes' \subseteq Repos /\ answer' \in [Jobs -> {"none", "result", "error"}]
    <3>1. CASE UNCHANGED <<settled, timed, answer, writes>>
      BY <3>1 DEF TypeOK
    <3>2. CASE FinishTask(j, "error")
      BY <3>2, FinishTyped
    <3> QED
      BY <3>1, <3>2 DEF ThreadLost
  <2>2. recovery' \subseteq Repos
    BY DEF ThreadLost, TypeOK
  <2>3. thread' \in [Jobs -> {"none", "busy", "ok", "error", "dead", "exited", "gone"}]
    BY DEF ThreadLost, TypeOK
  <2> QED
    BY <2>1, <2>2, <2>3 DEF ThreadLost, jobVars, workerVars, cacheVars, taskVars, diskVars, TypeOK
<1>2. TaskInv'
  BY DEF ThreadLost, FinishTask, jobVars, workerVars, cacheVars, taskVars, diskVars, TypeOK, TaskInv, Pending, Ending, Unbegun, Alone, Active
<1>3. GraphInv'
  BY DEF ThreadLost, FinishTask, jobVars, workerVars, cacheVars, taskVars, diskVars, TypeOK, TaskInv, Pending, Ending, Alone, Active, GraphInv, CutKnown, Lost, DoneWhole
<1>4. RowsSound'
  BY DEF ThreadLost, FinishTask, jobVars, workerVars, cacheVars, taskVars, diskVars, TypeOK, TaskInv, GraphInv, Pending, Ending, Unbegun, Alone, CutKnown, Lost, DoneWhole, RowsSound, Sound, Active
<1> QED
  BY <1>1, <1>2, <1>3, <1>4

LEMMA GraceEndsKeeps == ASSUME IInv, NEW j \in Jobs, NEW why \in {"timeout", "cancel"}, GraceEnds(j, why) PROVE IInv'
<1> USE DEF IInv
<1>1. TypeOK'
  <2>1. settled' \subseteq Jobs /\ timed' \subseteq Jobs /\ writes' \subseteq Repos /\ answer' \in [Jobs -> {"none", "result", "error"}]
    BY FinishTyped DEF GraceEnds
  <2>2. recovery' \subseteq Repos /\ cut' \subseteq Repos /\ broken' \subseteq Repos
    BY DEF GraceEnds, TypeOK
  <2>3. thread' \in [Jobs -> {"none", "busy", "ok", "error", "dead", "exited", "gone"}]
    BY DEF GraceEnds, TypeOK
  <2>4. graces' \in [Jobs -> SUBSET {"timeout", "cancel"}]
    BY DEF GraceEnds, TypeOK
  <2> QED
    BY <2>1, <2>2, <2>3, <2>4 DEF GraceEnds, jobVars, workerVars, cacheVars, taskVars, diskVars, TypeOK
<1>2. TaskInv'
  BY DEF GraceEnds, FinishTask, jobVars, workerVars, cacheVars, taskVars, diskVars, TypeOK, TaskInv, Pending, Ending, Unbegun, Alone, Active
<1>3. GraphInv'
  BY DEF GraceEnds, FinishTask, jobVars, workerVars, cacheVars, taskVars, diskVars, TypeOK, TaskInv, Pending, Ending, Alone, Active, GraphInv, CutKnown, Lost, DoneWhole
<1>4. RowsSound'
  BY DEF GraceEnds, FinishTask, jobVars, workerVars, cacheVars, taskVars, diskVars, TypeOK, TaskInv, GraphInv, Pending, Ending, Unbegun, Alone, CutKnown, Lost, DoneWhole, RowsSound, Sound, Active
<1> QED
  BY <1>1, <1>2, <1>3, <1>4

LEMMA TimerFiresKeeps == ASSUME IInv, NEW j \in Jobs, TimerFires(j) PROVE IInv'
<1> USE DEF IInv
<1>1. TypeOK'
  BY BridgeAssumption DEF TimerFires, jobVars, workerVars, cacheVars, taskVars, diskVars, TypeOK
<1>2. TaskInv'
  BY DEF TimerFires, jobVars, workerVars, cacheVars, taskVars, diskVars, TypeOK, TaskInv, Pending, Ending, Unbegun, Alone, Active
<1>3. GraphInv'
  BY DEF TimerFires, jobVars, workerVars, cacheVars, taskVars, diskVars, TypeOK, TaskInv, Pending, Ending, Alone, Active, GraphInv, CutKnown, Lost, DoneWhole
<1>4. RowsSound'
  BY DEF TimerFires, jobVars, workerVars, cacheVars, taskVars, diskVars, TypeOK, TaskInv, GraphInv, Pending, Ending, Unbegun, Alone, CutKnown, Lost, DoneWhole, RowsSound, Sound, Active
<1> QED
  BY <1>1, <1>2, <1>3, <1>4

LEMMA AskKeeps == ASSUME IInv, NEW r \in Repos, Ask(r) PROVE IInv'
<1> USE DEF IInv
<1>1. TypeOK'
  BY BridgeAssumption DEF Ask, Reachable, jobVars, workerVars, cacheVars, taskVars, diskVars, TypeOK
<1>2. TaskInv'
  BY DEF Ask, Reachable, jobVars, workerVars, cacheVars, taskVars, diskVars, TypeOK, TaskInv, Pending, Ending, Unbegun, Alone, Active
<1>3. GraphInv'
  BY DEF Ask, Reachable, jobVars, workerVars, cacheVars, taskVars, diskVars, TypeOK, TaskInv, Pending, Ending, Alone, Active, GraphInv, CutKnown, Lost, DoneWhole
<1>4. RowsSound'
  BY DEF Ask, Reachable, jobVars, workerVars, cacheVars, taskVars, diskVars, TypeOK, TaskInv, GraphInv, Pending, Ending, Unbegun, Alone, CutKnown, Lost, DoneWhole, RowsSound, Sound, Active
<1> QED
  BY <1>1, <1>2, <1>3, <1>4

LEMMA GraphOpenedKeeps == ASSUME IInv, NEW r \in Repos, GraphOpened(r) PROVE IInv'
<1> USE DEF IInv
<1>1. TypeOK'
  BY BridgeAssumption DEF GraphOpened, Opened, jobVars, workerVars, cacheVars, taskVars, diskVars, TypeOK
<1>2. TaskInv'
  BY DEF GraphOpened, Opened, jobVars, workerVars, cacheVars, taskVars, diskVars, TypeOK, TaskInv, Pending, Ending, Unbegun, Alone, Active
<1>3. GraphInv'
  BY DEF GraphOpened, Opened, jobVars, workerVars, cacheVars, taskVars, diskVars, TypeOK, TaskInv, Pending, Ending, Alone, Active, GraphInv, CutKnown, Lost, DoneWhole
<1>4. RowsSound'
  BY DEF GraphOpened, Opened, jobVars, workerVars, cacheVars, taskVars, diskVars, TypeOK, TaskInv, GraphInv, Pending, Ending, Unbegun, Alone, CutKnown, Lost, DoneWhole, RowsSound, Sound, Active
<1> QED
  BY <1>1, <1>2, <1>3, <1>4

LEMMA EvictKeeps == ASSUME IInv, NEW r \in Repos, Evict(r) PROVE IInv'
<1> USE DEF IInv
<1>1. TypeOK'
  BY BridgeAssumption DEF Evict, jobVars, workerVars, cacheVars, taskVars, diskVars, TypeOK
<1>2. TaskInv'
  BY DEF Evict, jobVars, workerVars, cacheVars, taskVars, diskVars, TypeOK, TaskInv, Pending, Ending, Unbegun, Alone, Active
<1>3. GraphInv'
  BY DEF Evict, jobVars, workerVars, cacheVars, taskVars, diskVars, TypeOK, TaskInv, Pending, Ending, Alone, Active, GraphInv, CutKnown, Lost, DoneWhole
<1>4. RowsSound'
  BY DEF Evict, jobVars, workerVars, cacheVars, taskVars, diskVars, TypeOK, TaskInv, GraphInv, Pending, Ending, Unbegun, Alone, CutKnown, Lost, DoneWhole, RowsSound, Sound, Active
<1> QED
  BY <1>1, <1>2, <1>3, <1>4

LEMMA BeginKeeps == ASSUME IInv, Begin PROVE IInv'
<1> USE DEF IInv
<1>1. TypeOK'
  <2>1. status' \in [Jobs -> {"new", "queued", "running", "cancelling", "over"}]
    BY DEF Begin, Ends, jobVars, TypeOK
  <2>2. config' \in [Repos -> {"unavailable", "pending_sync", "stale", "fresh"}]
    BY DEF Begin, Ends, TypeOK
  <2>3. at' \in {"poll", "register"} /\ seen' \in {"fresh", "stale"} /\ target' = target /\ asked' = asked /\ job' = job
    BY DEF Begin, Ends, jobVars, TypeOK
  <2> QED
    BY <2>1, <2>2, <2>3 DEF Begin, cacheVars, taskVars, diskVars, TypeOK
<1>2. TaskInv'
  BY DEF Begin, Ends, jobVars, workerVars, cacheVars, taskVars, diskVars, TypeOK, TaskInv, Pending, Ending, Unbegun, Alone, Active
<1>3. GraphInv'
  BY DEF Begin, Ends, jobVars, workerVars, cacheVars, taskVars, diskVars, TypeOK, TaskInv, Pending, Ending, Alone, Active, GraphInv, CutKnown, Lost, DoneWhole
<1>4. RowsSound'
  BY DEF Begin, Ends, jobVars, workerVars, cacheVars, taskVars, diskVars, TypeOK, TaskInv, GraphInv, Pending, Ending, Unbegun, Alone, CutKnown, Lost, DoneWhole, RowsSound, Sound, Active
<1> QED
  BY <1>1, <1>2, <1>3, <1>4

LEMMA RegisterKeeps == ASSUME IInv, Register PROVE IInv'
<1> USE DEF IInv
<1>1. TypeOK'
  BY BridgeAssumption DEF Register, Goes, jobVars, workerVars, cacheVars, taskVars, diskVars, TypeOK
<1>2. TaskInv'
  BY DEF Register, Goes, jobVars, workerVars, cacheVars, taskVars, diskVars, TypeOK, TaskInv, Pending, Ending, Unbegun, Alone, Active
<1>3. GraphInv'
  BY DEF Register, Goes, jobVars, workerVars, cacheVars, taskVars, diskVars, TypeOK, TaskInv, Pending, Ending, Alone, Active, GraphInv, CutKnown, Lost, DoneWhole
<1>4. RowsSound'
  BY DEF Register, Goes, jobVars, workerVars, cacheVars, taskVars, diskVars, TypeOK, TaskInv, GraphInv, Pending, Ending, Unbegun, Alone, CutKnown, Lost, DoneWhole, RowsSound, Sound, Active
<1> QED
  BY <1>1, <1>2, <1>3, <1>4

LEMMA BridgeFailsKeeps == ASSUME IInv, BridgeFails PROVE IInv'
<1> USE DEF IInv
<1>1. TypeOK'
  BY BridgeAssumption DEF BridgeFails, Goes, jobVars, workerVars, cacheVars, taskVars, diskVars, TypeOK
<1>2. TaskInv'
  BY DEF BridgeFails, Goes, jobVars, workerVars, cacheVars, taskVars, diskVars, TypeOK, TaskInv, Pending, Ending, Unbegun, Alone, Active
<1>3. GraphInv'
  BY DEF BridgeFails, Goes, jobVars, workerVars, cacheVars, taskVars, diskVars, TypeOK, TaskInv, Pending, Ending, Alone, Active, GraphInv, CutKnown, Lost, DoneWhole
<1>4. RowsSound'
  BY DEF BridgeFails, Goes, jobVars, workerVars, cacheVars, taskVars, diskVars, TypeOK, TaskInv, GraphInv, Pending, Ending, Unbegun, Alone, CutKnown, Lost, DoneWhole, RowsSound, Sound, Active
<1> QED
  BY <1>1, <1>2, <1>3, <1>4

LEMMA EnsureIndexKeeps == ASSUME IInv, EnsureIndex PROVE IInv'
<1> USE DEF IInv
<1> DEFINE r == target[job]
<1>1. job \in Jobs /\ r \in Repos /\ phase[job] = "idle" /\ job \notin settled
  BY DEF EnsureIndex, TypeOK, TaskInv, Unbegun
<1>2. /\ at = "call" /\ at' = "wait" /\ UNCHANGED <<job, status, target, config, settled, graces>>
      /\ UNCHANGED <<recovery, cut, broken, seen, asked, registered, waiting, restarts>>
  BY DEF EnsureIndex, Goes, jobVars
<1>3. CASE r \in writes
  <2>1. answer' = [answer EXCEPT ![job] = "error"] /\ UNCHANGED <<writes, instances, watched, indexed, phase, thread, timed>>
    BY <1>3 DEF EnsureIndex
  <2>2. TypeOK'
    BY <1>1, <1>2, <2>1 DEF TypeOK
  <2>3. TaskInv' /\ GraphInv' /\ RowsSound'
    BY <1>1, <1>2, <2>1 DEF TypeOK, TaskInv, GraphInv, Pending, Ending, Unbegun, Alone, CutKnown, Lost, DoneWhole, RowsSound, Sound, Active
  <2> QED
    BY <2>2, <2>3
<1>4. CASE r \notin writes
  <2>1. /\ instances' = instances \ {r} /\ watched' = watched \ {r} /\ indexed' = indexed \cup {r} /\ answer' = answer
        /\ writes' = writes \cup {r} /\ timed' = timed \cup {job}
        /\ phase' = [phase EXCEPT ![job] = "running"] /\ thread' = [thread EXCEPT ![job] = "busy"]
    BY <1>4 DEF EnsureIndex
  <2>2. TypeOK'
    BY <1>1, <1>2, <2>1 DEF TypeOK
  <2>3. \A j \in Jobs : target[j] = r => ~Active(j)
    BY <1>4 DEF TaskInv, Alone
  <2>4. \A j \in Jobs \ {job} : phase'[j] = phase[j] /\ thread'[j] = thread[j] /\ Active(j)' = Active(j)
    BY <1>2, <2>1 DEF TypeOK, Active
  <2>5. phase'[job] = "running" /\ thread'[job] = "busy" /\ Active(job)'
    BY <1>1, <1>2, <2>1 DEF TypeOK, Active
  <2>6. Pending' /\ Ending' /\ Unbegun'
    BY <1>1, <1>2, <2>1, <2>4, <2>5 DEF TypeOK, TaskInv, Pending, Ending, Unbegun, Active
  <2>7. Alone'
    BY <1>1, <1>2, <2>1, <2>3, <2>4, <2>5 DEF TaskInv, Alone
  <2>8. GraphInv'
    BY <1>1, <1>2, <2>1, <2>3, <2>4, <2>5 DEF GraphInv, CutKnown, Lost, DoneWhole
  <2>9. RowsSound'
    BY <1>1, <1>2, <2>1, <2>3, <2>4, <2>5 DEF TypeOK, TaskInv, Unbegun, RowsSound, Sound
  <2> QED
    BY <2>2, <2>6, <2>7, <2>8, <2>9 DEF TaskInv
<1> QED
  BY <1>3, <1>4

LEMMA AnsweredKeeps == ASSUME IInv, Answered PROVE IInv'
<1> USE DEF IInv
<1>1. TypeOK'
  BY BridgeAssumption DEF Answered, Goes, jobVars, workerVars, cacheVars, taskVars, diskVars, TypeOK
<1>2. TaskInv'
  BY DEF Answered, Goes, jobVars, workerVars, cacheVars, taskVars, diskVars, TypeOK, TaskInv, Pending, Ending, Unbegun, Alone, Active
<1>3. GraphInv'
  BY DEF Answered, Goes, jobVars, workerVars, cacheVars, taskVars, diskVars, TypeOK, TaskInv, Pending, Ending, Alone, Active, GraphInv, CutKnown, Lost, DoneWhole
<1>4. RowsSound'
  BY DEF Answered, Goes, jobVars, workerVars, cacheVars, taskVars, diskVars, TypeOK, TaskInv, GraphInv, Pending, Ending, Unbegun, Alone, CutKnown, Lost, DoneWhole, RowsSound, Sound, Active
<1> QED
  BY <1>1, <1>2, <1>3, <1>4

LEMMA TreesKeeps == ASSUME IInv, Trees PROVE IInv'
<1> USE DEF IInv
<1>1. TypeOK'
  BY BridgeAssumption DEF Trees, Goes, jobVars, workerVars, cacheVars, taskVars, diskVars, TypeOK
<1>2. TaskInv'
  BY DEF Trees, Goes, jobVars, workerVars, cacheVars, taskVars, diskVars, TypeOK, TaskInv, Pending, Ending, Unbegun, Alone, Active
<1>3. GraphInv'
  BY DEF Trees, Goes, jobVars, workerVars, cacheVars, taskVars, diskVars, TypeOK, TaskInv, Pending, Ending, Alone, Active, GraphInv, CutKnown, Lost, DoneWhole
<1>4. RowsSound'
  BY DEF Trees, Goes, jobVars, workerVars, cacheVars, taskVars, diskVars, TypeOK, TaskInv, GraphInv, Pending, Ending, Unbegun, Alone, CutKnown, Lost, DoneWhole, RowsSound, Sound, Active
<1> QED
  BY <1>1, <1>2, <1>3, <1>4

LEMMA CheckHealthKeeps == ASSUME IInv, CheckHealth PROVE IInv'
<1> USE DEF IInv
<1>1. TypeOK'
  BY BridgeAssumption DEF CheckHealth, Goes, jobVars, workerVars, cacheVars, taskVars, diskVars, TypeOK
<1>2. TaskInv'
  BY DEF CheckHealth, Goes, jobVars, workerVars, cacheVars, taskVars, diskVars, TypeOK, TaskInv, Pending, Ending, Unbegun, Alone, Active
<1>3. GraphInv'
  BY DEF CheckHealth, Goes, jobVars, workerVars, cacheVars, taskVars, diskVars, TypeOK, TaskInv, Pending, Ending, Alone, Active, GraphInv, CutKnown, Lost, DoneWhole
<1>4. RowsSound'
  BY DEF CheckHealth, Goes, jobVars, workerVars, cacheVars, taskVars, diskVars, TypeOK, TaskInv, GraphInv, Pending, Ending, Unbegun, Alone, CutKnown, Lost, DoneWhole, RowsSound, Sound, Active
<1> QED
  BY <1>1, <1>2, <1>3, <1>4

LEMMA HealthAnsweredKeeps == ASSUME IInv, HealthAnswered PROVE IInv'
<1> USE DEF IInv
<1>1. TypeOK'
  BY BridgeAssumption DEF HealthAnswered, Opened, FreshnessOf, jobVars, workerVars, cacheVars, taskVars, diskVars, TypeOK
<1>2. TaskInv'
  BY DEF HealthAnswered, Opened, FreshnessOf, jobVars, workerVars, cacheVars, taskVars, diskVars, TypeOK, TaskInv, Pending, Ending, Unbegun, Alone, Active
<1>3. GraphInv'
  BY DEF HealthAnswered, Opened, FreshnessOf, jobVars, workerVars, cacheVars, taskVars, diskVars, TypeOK, TaskInv, Pending, Ending, Alone, Active, GraphInv, CutKnown, Lost, DoneWhole
<1>4. RowsSound'
  BY DEF HealthAnswered, Opened, FreshnessOf, jobVars, workerVars, cacheVars, taskVars, diskVars, TypeOK, TaskInv, GraphInv, Pending, Ending, Unbegun, Alone, CutKnown, Lost, DoneWhole, RowsSound, Sound, Active
<1> QED
  BY <1>1, <1>2, <1>3, <1>4

LEMMA RecordKeeps == ASSUME IInv, Record PROVE IInv'
<1> USE DEF IInv
<1>1. TypeOK'
  BY BridgeAssumption DEF Record, Ends, jobVars, workerVars, cacheVars, taskVars, diskVars, TypeOK
<1>2. TaskInv'
  BY DEF Record, Ends, jobVars, workerVars, cacheVars, taskVars, diskVars, TypeOK, TaskInv, Pending, Ending, Unbegun, Alone, Active
<1>3. GraphInv'
  BY DEF Record, Ends, jobVars, workerVars, cacheVars, taskVars, diskVars, TypeOK, TaskInv, Pending, Ending, Alone, Active, GraphInv, CutKnown, Lost, DoneWhole
<1>4. RowsSound'
  BY DEF Record, Ends, jobVars, workerVars, cacheVars, taskVars, diskVars, TypeOK, TaskInv, GraphInv, Pending, Ending, Unbegun, Alone, CutKnown, Lost, DoneWhole, RowsSound, Sound, Active
<1> QED
  BY <1>1, <1>2, <1>3, <1>4

LEMMA RestartKeeps == ASSUME IInv, Restart PROVE IInv'
<1> USE DEF IInv
<1>1. TypeOK'
  BY BridgeAssumption DEF Restart, jobVars, workerVars, cacheVars, taskVars, diskVars, TypeOK
<1>2. TaskInv'
  BY DEF Restart, jobVars, workerVars, cacheVars, taskVars, diskVars, TypeOK, TaskInv, Pending, Ending, Unbegun, Alone, Active
<1>3. GraphInv'
  BY DEF Restart, jobVars, workerVars, cacheVars, taskVars, diskVars, TypeOK, TaskInv, Pending, Ending, Alone, Active, GraphInv, CutKnown, Lost, DoneWhole
<1>4. RowsSound'
  BY DEF Restart, jobVars, workerVars, cacheVars, taskVars, diskVars, TypeOK, TaskInv, GraphInv, Pending, Ending, Unbegun, Alone, CutKnown, Lost, DoneWhole, RowsSound, Sound, Active
<1> QED
  BY <1>1, <1>2, <1>3, <1>4

LEMMA StepKeeps == ASSUME IInv, [Next]_vars PROVE IInv'
<1>1. ASSUME NEW j \in Jobs, Sync(j) \/ RequestCancel(j) \/ ClaimJob(j) \/ CancelTask(j) \/ ThreadEnds(j) \/ Watching(j)
      PROVE IInv'
  BY <1>1, SyncKeeps, RequestCancelKeeps, ClaimJobKeeps, CancelTaskKeeps, ThreadEndsKeeps, WatchingKeeps
<1>2. ASSUME NEW j \in Jobs, Bridge(j) PROVE IInv'
  BY <1>2, MessageKeeps, ThreadLostKeeps, TimerFiresKeeps, GraceEndsKeeps DEF Bridge
<1>3. ASSUME NEW r \in Repos, Ask(r) \/ GraphOpened(r) \/ Evict(r) PROVE IInv'
  BY <1>3, AskKeeps, GraphOpenedKeeps, EvictKeeps
<1>4. CASE Begin \/ Register \/ BridgeFails \/ EnsureIndex \/ Answered
  BY <1>4, BeginKeeps, RegisterKeeps, BridgeFailsKeeps, EnsureIndexKeeps, AnsweredKeeps
<1>5. CASE Trees \/ CheckHealth \/ HealthAnswered \/ Record \/ Restart
  BY <1>5, TreesKeeps, CheckHealthKeeps, HealthAnsweredKeeps, RecordKeeps, RestartKeeps
<1>6. CASE UNCHANGED vars
  BY <1>6 DEF vars, jobVars, workerVars, cacheVars, taskVars, diskVars, IInv, TypeOK, TaskInv, GraphInv, Pending, Ending,
     Unbegun, Alone, CutKnown, Lost, DoneWhole, RowsSound, Sound, Active
<1> QED
  BY <1>1, <1>2, <1>3, <1>4, <1>5, <1>6 DEF Next

-----------------------------------------------------------------------------
\* In every state the types are right, the writers of a repository are apart and hold it, and no graph whose writer was
\* stopped, lost or failed passes for fresh (worker.js:18, 34 and 95, operations.js:93, job_worker.py:476).
THEOREM GraphsSafe == Spec => []GraphsHold
<1>1. Init => IInv
  BY InitIInv
<1>2. IInv /\ [Next]_vars => IInv'
  BY StepKeeps
<1>3. IInv => GraphsHold
  BY InvariantImplies
<1> QED
  BY <1>1, <1>2, <1>3, PTL DEF Spec
=============================================================================
