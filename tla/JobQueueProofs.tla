--------------------------- MODULE JobQueueProofs ---------------------------
(***************************************************************************)
(* Theorems about the job queue, for any number of jobs, workers, clients, *)
(* kinds, crashes and faults.                                              *)
(*                                                                         *)
(* The argument for exclusive execution: a worker takes a job only by      *)
(* turning its row from queued to running, and nothing ever turns a row    *)
(* back to queued; so a job some worker holds (Held) is not queued, and    *)
(* the next claim cannot pick it.                                          *)
(***************************************************************************)
EXTENDS JobQueue, TLAPS

(* A job in a worker's hands has a row that was once claimed.              *)
Held ==
  \A w \in Workers :
    wpc[w] \notin {"down", "idle"} =>
      wjob[w] \in Jobs /\ status[wjob[w]] \notin {"unborn", "queued"}

(* Kinds are known where they are used.                                    *)
Known ==
  /\ \A c \in Clients : cpc[c] = "insert" => want[c] \in Kinds
  /\ \A j \in Jobs : status[j] # "unborn" => kind[j] \in Kinds

IInv == TypeOK /\ Held /\ Known /\ NoSharedJob

LEMMA InitIInv == Init => IInv
BY ConstantsAssumption
   DEF Init, IInv, TypeOK, Held, Known, NoSharedJob, Busy, Statuses, Final, Active, Steps

(* What create_job does to the rows, when it is given a known kind.        *)
LEMMA CreateJobRows ==
  ASSUME TypeOK, Known, NEW k \in Kinds, CreateJob(k)
  PROVE  /\ status' \in [Jobs -> Statuses]
         /\ phase' \in [Jobs -> {"none", "Queued", "Starting", "Working", "Complete",
                                 "Failed", "Cancelling", "Cancelled"}]
         /\ kind' \in [Jobs -> Kinds \cup {"none"}]
         /\ started' = started
         /\ \A j \in Jobs : status[j] # "unborn" => status'[j] = status[j]
         /\ \A j \in Jobs : status'[j] # "unborn" => kind'[j] \in Kinds
BY DEF CreateJob, TypeOK, Known, First, InStatus, Statuses

(* What the final-status updates do to the rows.                           *)
LEMMA FinishRows ==
  ASSUME TypeOK, Known, NEW i \in Jobs, status[i] \notin {"unborn", "queued"},
         NEW s \in Final, NEW p \in {"Complete", "Failed", "Cancelled"}, Finish(i, s, p)
  PROVE  /\ status' \in [Jobs -> Statuses]
         /\ phase' \in [Jobs -> {"none", "Queued", "Starting", "Working", "Complete",
                                 "Failed", "Cancelling", "Cancelled"}]
         /\ kind' = kind
         /\ started' = started
         /\ \A j \in Jobs : j # i => status'[j] = status[j]
         /\ status'[i] \in {s, "deleted"}
BY DEF Finish, TypeOK, Known, Statuses, Final

(* A worker that moves on inside a job keeps what the others rely on.       *)
LEMMA MoveKeeps ==
  ASSUME TypeOK, Held, NoSharedJob, NEW w \in Workers, Busy(w),
         NEW s \in Steps \ {"down", "idle"}, wpc' = [wpc EXCEPT ![w] = s],
         wjob' = wjob,
         \A j \in Jobs : status[j] \notin {"unborn", "queued"} =>
                           status'[j] \notin {"unborn", "queued"}
  PROVE  Held' /\ NoSharedJob'
<1>1. Held'
  BY DEF TypeOK, Held, Busy
<1>2. \A v \in Workers : Busy(v)' => Busy(v)
  BY DEF TypeOK, Busy
<1>3. NoSharedJob'
  BY <1>2 DEF NoSharedJob
<1> QED
  BY <1>1, <1>3

(* So does a worker that leaves its job.                                    *)
LEMMA LeaveKeeps ==
  ASSUME TypeOK, Held, NoSharedJob, NEW w \in Workers,
         NEW s \in {"down", "idle"}, Leave(w, s),
         \A j \in Jobs : status[j] \notin {"unborn", "queued"} =>
                           status'[j] \notin {"unborn", "queued"}
  PROVE  Held' /\ NoSharedJob'
<1> USE DEF Leave, Load, Goto
<1>1. Held'
  BY DEF TypeOK, Held
<1>2. \A v \in Workers : Busy(v)' => Busy(v) /\ wjob'[v] = wjob[v]
  BY DEF TypeOK, Busy
<1>3. NoSharedJob'
  BY <1>2 DEF NoSharedJob
<1> QED
  BY <1>1, <1>3

(* The inductive step, one case per action of Next.                        *)
LEMMA StepIInv ==
  ASSUME IInv, Next
  PROVE  IInv'
<1> USE ConstantsAssumption DEF IInv, TypeOK, Held, Known, NoSharedJob, Busy, Steps
<1>1. ASSUME NEW c \in Clients, NEW k \in Kinds, SubmitLook(c, k)
      PROVE  IInv'
  BY <1>1 DEF SubmitLook, rows, workers, Statuses, Final, Active
<1>2. ASSUME NEW j \in Jobs, RequestCancel(j)
      PROVE  IInv'
  BY <1>2 DEF RequestCancel, clients, workers, Statuses, Final, Active
<1>3. ASSUME NEW j \in Jobs, DeleteJob(j)
      PROVE  IInv'
  BY <1>3 DEF DeleteJob, clients, workers, Statuses, Final, Active
<1>4. ASSUME NEW w \in Workers, StartWorker(w)
      PROVE  IInv'
  BY <1>4 DEF StartWorker, Goto, clients, Statuses, Final, Active
<1>5. ASSUME NEW w \in Workers, Return(w)
      PROVE  IInv'
  BY <1>5 DEF Return, Goto, rows, clients, Statuses, Final, Active
<1>6. ASSUME NEW w \in Workers, Raise(w)
      PROVE  IInv'
  BY <1>6 DEF Raise, Goto, rows, clients, Statuses, Final, Active
<1>7. ASSUME NEW w \in Workers, Recheck(w)
      PROVE  IInv'
  BY <1>7 DEF Recheck, Goto, rows, clients, Statuses, Final, Active
<1>8. ASSUME NEW w \in Workers, Crash(w)
      PROVE  IInv'
  BY <1>8 DEF Crash, Leave, Load, Goto, rows, clients, Statuses, Final, Active
<1>9. ASSUME NEW c \in Clients, SubmitInsert(c)
      PROVE  IInv'
  <2>1. want[c] \in Kinds
    BY <1>9 DEF SubmitInsert
  <2>2. CASE Refused(want[c])
    BY <2>2, <1>9 DEF SubmitInsert, rows, workers
  <2>3. CASE ~ Refused(want[c])
    <3>1. CreateJob(want[c])
      BY <2>3, <1>9 DEF SubmitInsert
    <3> HIDE DEF Held, NoSharedJob
    <3>2. TypeOK'
      BY <2>1, <3>1, CreateJobRows, <1>9 DEF SubmitInsert, workers
    <3>3. Known'
      BY <2>1, <3>1, CreateJobRows, <1>9 DEF SubmitInsert
    <3>4. Held' /\ NoSharedJob'
      BY <2>1, <3>1, CreateJobRows, <1>9 DEF SubmitInsert, workers, Held, NoSharedJob
    <3> QED
      BY <3>2, <3>3, <3>4
  <2> QED
    BY <2>2, <2>3
<1>10. ASSUME NEW w \in Workers, Claim(w)
      PROVE  IInv'
  <2>1. PICK j \in Jobs : /\ status[j] = "queued"
                         /\ status' = [status EXCEPT ![j] = "running"]
                         /\ phase' = [phase EXCEPT ![j] = "Starting"]
                         /\ started' = [started EXCEPT ![j] = TRUE]
                         /\ Load(w, j, MaxCalls)
    BY <1>10 DEF Claim, First, InStatus
  <2>2. TypeOK'
    BY <2>1, <1>10 DEF Claim, Load, Goto, clients, Statuses, Active
  <2>3. Held' /\ Known'
    BY <2>1, <1>10 DEF Claim, Load, Goto, clients
  <2>4. NoSharedJob'
    BY <2>1, <1>10 DEF Claim, Load, Goto
  <2> QED
    BY <2>2, <2>3, <2>4
<1>11. ASSUME NEW w \in Workers, LoopCheck(w)
      PROVE  IInv'
  <2>1. /\ Busy(w)
        /\ UNCHANGED <<rows, told, clients, wjob, child, crashes, faults>>
    BY <1>11 DEF LoopCheck
  <2>2. PICK s \in {"run", "loop"} : wpc' = [wpc EXCEPT ![w] = s]
    <3>1. wpc[w] = "run" /\ wpc \in [Workers -> Steps]
      BY <1>11 DEF LoopCheck
    <3>2. UNCHANGED wpc \/ Goto(w, "loop")
      BY <1>11 DEF LoopCheck
    <3>3. CASE UNCHANGED wpc
      <4>1. wpc = [wpc EXCEPT ![w] = "run"]
        BY <3>1
      <4> QED
        BY <4>1, <3>3, Zenon
    <3>4. CASE Goto(w, "loop")
      BY <3>4, Zenon DEF Goto
    <3> QED
      BY <3>2, <3>3, <3>4, Zenon
  <2>3. left' \in [Workers -> Nat] /\ seen' \in [Workers -> BOOLEAN]
    <3>1. left[w] \in Nat \ {0} /\ left' = [left EXCEPT ![w] = @ - 1]
      BY <1>11 DEF LoopCheck
    <3>2. left' \in [Workers -> Nat]
      BY <3>1
    <3>3. seen' = [seen EXCEPT ![w] = TRUE] \/ UNCHANGED seen
      BY <1>11 DEF LoopCheck
    <3>4. seen' \in [Workers -> BOOLEAN]
      BY <3>3
    <3> QED
      BY <3>2, <3>4
  <2>4. TypeOK' /\ Known'
    BY <2>1, <2>2, <2>3 DEF rows, clients
  <2>5. Held' /\ NoSharedJob'
    <3> HIDE DEF Held, NoSharedJob, Busy, TypeOK
    <3> QED
      BY <2>1, <2>2, MoveKeeps DEF rows, Steps
  <2> QED
    BY <2>4, <2>5
<1>12. ASSUME NEW w \in Workers, DirectCheck(w)
      PROVE  IInv'
  <2>1. /\ Busy(w)
        /\ UNCHANGED <<rows, told, clients, wjob, child, crashes, faults>>
    BY <1>12 DEF DirectCheck
  <2>2. PICK s \in {"cancel", "direct"} : wpc' = [wpc EXCEPT ![w] = s]
    <3>1. Goto(w, "cancel") \/ Goto(w, "direct")
      BY <1>12 DEF DirectCheck
    <3>2. CASE Goto(w, "cancel")
      BY <3>2, Zenon DEF Goto
    <3>3. CASE Goto(w, "direct")
      BY <3>3, Zenon DEF Goto
    <3> QED
      BY <3>1, <3>2, <3>3, Zenon
  <2>3. left' \in [Workers -> Nat] /\ seen' \in [Workers -> BOOLEAN]
    <3>1. left[w] \in Nat \ {0} /\ left' = [left EXCEPT ![w] = @ - 1]
      BY <1>12 DEF DirectCheck
    <3>2. left' \in [Workers -> Nat]
      BY <3>1
    <3>3. seen' = [seen EXCEPT ![w] = TRUE] \/ UNCHANGED seen
      BY <1>12 DEF DirectCheck
    <3>4. seen' \in [Workers -> BOOLEAN]
      BY <3>3
    <3> QED
      BY <3>2, <3>4
  <2>4. TypeOK' /\ Known'
    BY <2>1, <2>2, <2>3 DEF rows, clients
  <2>5. Held' /\ NoSharedJob'
    <3> HIDE DEF Held, NoSharedJob, Busy, TypeOK
    <3> QED
      BY <2>1, <2>2, MoveKeeps DEF rows, Steps
  <2> QED
    BY <2>4, <2>5
<1>13. ASSUME NEW w \in Workers, WriteProgress(w)
      PROVE  IInv'
  <2>1. phase' \in [Jobs -> {"none", "Queued", "Starting", "Working", "Complete",
                            "Failed", "Cancelling", "Cancelled"}]
    BY <1>13 DEF WriteProgress
  <2>2. Busy(w)
    BY <1>13 DEF WriteProgress
  <2>3. PICK s \in {"run", "tail"} : wpc' = [wpc EXCEPT ![w] = s]
    BY <1>13 DEF WriteProgress, Goto
  <2>4. UNCHANGED <<status, kind, started, told, clients, wjob, left, child, seen, crashes, faults>>
    BY <1>13 DEF WriteProgress
  <2>5. TypeOK' /\ Known'
    BY <2>1, <2>3, <2>4 DEF clients
  <2>6. Held' /\ NoSharedJob'
    <3> HIDE DEF Held, NoSharedJob, Busy, TypeOK
    <3> QED
      BY <2>2, <2>3, <2>4, MoveKeeps DEF Steps
  <2> QED
    BY <2>5, <2>6
<1>14. ASSUME NEW w \in Workers, Spawn(w)
      PROVE  IInv'
  <2> DEFINE next == FollowUps[JobKind(w)]
             k == next[child[w]]
  <2>1. /\ Busy(w)
        /\ wjob[w] \in Jobs
        /\ UNCHANGED <<told, clients, wjob, left, seen, crashes, faults>>
    BY <1>14 DEF Spawn
  <2>2. k \in Kinds
    <3>1. kind[wjob[w]] \in Kinds
      BY <2>1
    <3>2. next \in Seq(Kinds)
      BY <3>1 DEF JobKind
    <3>3. child[w] \in 1..Len(next)
      BY <3>2, <1>14 DEF Spawn
    <3> QED
      BY <3>2, <3>3
  <2>3. CASE Refused(k)
    <3>1. wpc' = [wpc EXCEPT ![w] = "recheck"] /\ UNCHANGED <<rows, child>>
      BY <2>3, <1>14 DEF Spawn, Goto
    <3>2. TypeOK' /\ Known'
      BY <2>1, <3>1 DEF rows, clients
    <3>3. Held' /\ NoSharedJob'
      <4> HIDE DEF Held, NoSharedJob, Busy, TypeOK
      <4> QED
        BY <2>1, <3>1, MoveKeeps DEF rows, Steps
    <3> QED
      BY <3>2, <3>3
  <2>4. CASE ~ Refused(k)
    <3>1. /\ CreateJob(k)
          /\ child' = [child EXCEPT ![w] = @ + 1]
      BY <2>4, <1>14 DEF Spawn
    <3>2. PICK s \in {"run", "spawn"} : wpc' = [wpc EXCEPT ![w] = s]
      BY <2>4, <1>14 DEF Spawn, Goto
    <3> HIDE DEF k, Held, NoSharedJob, Busy
    <3>3. TypeOK'
      BY <2>1, <2>2, <3>1, <3>2, CreateJobRows DEF clients
    <3>4. Known'
      BY <2>1, <2>2, <3>1, CreateJobRows DEF clients
    <3>5. \A j \in Jobs : status[j] \notin {"unborn", "queued"} =>
                           status'[j] \notin {"unborn", "queued"}
      BY <2>2, <3>1, CreateJobRows
    <3>6. Held' /\ NoSharedJob'
      <4> HIDE DEF TypeOK
      <4> QED
        BY <2>1, <3>2, <3>5, MoveKeeps DEF Steps
    <3> QED
      BY <3>3, <3>4, <3>6
  <2> QED
    BY <2>3, <2>4
<1>15. ASSUME NEW w \in Workers, SetDone(w)
      PROVE  IInv'
  <2>1. /\ Busy(w) /\ wjob[w] \in Jobs
        /\ status[wjob[w]] \notin {"unborn", "queued"}
        /\ Finish(wjob[w], "done", "Complete")
        /\ UNCHANGED <<told, clients, crashes, faults>>
    BY <1>15 DEF SetDone
  <2>2. wpc' = [wpc EXCEPT ![w] = "tellDone"] /\ UNCHANGED <<wjob, left, child, seen>>
    BY <1>15 DEF SetDone, Goto
  <2>3. TypeOK' /\ Known'
    BY <2>1, <2>2, FinishRows DEF Final, clients
  <2>4. \A j \in Jobs : status[j] \notin {"unborn", "queued"} =>
                         status'[j] \notin {"unborn", "queued"}
    BY <2>1, FinishRows DEF Final
  <2>5. Held' /\ NoSharedJob'
    <3> HIDE DEF Held, NoSharedJob, Busy, TypeOK
    <3> QED
      BY <2>1, <2>2, <2>4, MoveKeeps DEF Steps
  <2> QED
    BY <2>3, <2>5
<1>16. ASSUME NEW w \in Workers, SetCancelled(w)
      PROVE  IInv'
  <2>1. /\ Busy(w) /\ wjob[w] \in Jobs
        /\ status[wjob[w]] \notin {"unborn", "queued"}
        /\ Finish(wjob[w], "cancelled", "Cancelled")
        /\ UNCHANGED <<told, clients, crashes, faults>>
    BY <1>16 DEF SetCancelled
  <2>2. Leave(w, "idle")
    BY <1>16 DEF SetCancelled
  <2>3. TypeOK' /\ Known'
    BY <2>1, <2>2, FinishRows DEF Final, Leave, Load, Goto, clients
  <2>4. \A j \in Jobs : status[j] \notin {"unborn", "queued"} =>
                         status'[j] \notin {"unborn", "queued"}
    BY <2>1, FinishRows DEF Final
  <2>5. Held' /\ NoSharedJob'
    <3> HIDE DEF Held, NoSharedJob, Busy, TypeOK
    <3> QED
      BY <2>1, <2>2, <2>4, LeaveKeeps
  <2> QED
    BY <2>3, <2>5
<1>17. ASSUME NEW w \in Workers, SetFailed(w)
      PROVE  IInv'
  <2>1. /\ Busy(w) /\ wjob[w] \in Jobs
        /\ status[wjob[w]] \notin {"unborn", "queued"}
        /\ Finish(wjob[w], "failed", "Failed")
        /\ UNCHANGED <<told, clients, crashes, faults>>
    BY <1>17 DEF SetFailed
  <2>2. wpc' = [wpc EXCEPT ![w] = "tellFailed"] /\ UNCHANGED <<wjob, left, child, seen>>
    BY <1>17 DEF SetFailed, Goto
  <2>3. TypeOK' /\ Known'
    BY <2>1, <2>2, FinishRows DEF Final, clients
  <2>4. \A j \in Jobs : status[j] \notin {"unborn", "queued"} =>
                         status'[j] \notin {"unborn", "queued"}
    BY <2>1, FinishRows DEF Final
  <2>5. Held' /\ NoSharedJob'
    <3> HIDE DEF Held, NoSharedJob, Busy, TypeOK
    <3> QED
      BY <2>1, <2>2, <2>4, MoveKeeps DEF Steps
  <2> QED
    BY <2>3, <2>5
<1>18. ASSUME NEW w \in Workers, Notify(w)
      PROVE  IInv'
  <2>1. told' \in [Jobs -> SUBSET {"done", "failed"}]
    BY <1>18 DEF Notify
  <2>2. Leave(w, "idle") /\ UNCHANGED <<rows, clients, crashes, faults>>
    BY <1>18 DEF Notify
  <2>3. TypeOK' /\ Known'
    BY <2>1, <2>2 DEF Leave, Load, Goto, rows, clients
  <2>4. Held' /\ NoSharedJob'
    <3> HIDE DEF Held, NoSharedJob, Busy, TypeOK
    <3> QED
      BY <2>2, LeaveKeeps DEF rows
  <2> QED
    BY <2>3, <2>4
<1>19. ASSUME NEW w \in Workers, DatabaseFault(w)
      PROVE  IInv'
  <2>1. /\ faults' \in Nat
        /\ UNCHANGED <<told, clients, crashes>>
    BY <1>19 DEF DatabaseFault
  <2>2. CASE Leave(w, "idle") /\ UNCHANGED rows
    <3>1. TypeOK' /\ Known'
      BY <2>1, <2>2 DEF Leave, Load, Goto, rows, clients
    <3>2. Held' /\ NoSharedJob'
      <4> HIDE DEF Held, NoSharedJob, Busy, TypeOK
      <4> QED
        BY <2>2, LeaveKeeps DEF rows
    <3> QED
      BY <3>1, <3>2
  <2>3. ASSUME NEW s \in {"run", "recheck"}, Busy(w), Goto(w, s), Keep, UNCHANGED rows
        PROVE  IInv'
    <3>1. wpc' = [wpc EXCEPT ![w] = s] /\ UNCHANGED <<wjob, left, child, seen>>
      BY <2>3 DEF Goto, Keep
    <3>2. TypeOK' /\ Known'
      BY <2>1, <2>3, <3>1 DEF rows, clients
    <3>3. Held' /\ NoSharedJob'
      <4> HIDE DEF Held, NoSharedJob, Busy, TypeOK
      <4> QED
        BY <2>3, <3>1, MoveKeeps DEF rows, Steps
    <3> QED
      BY <3>2, <3>3
  <2>4. CASE wpc[w] = "done" /\ Goto(w, "recheck") /\ Keep /\ Finish(wjob[w], "done", "Complete")
    <3>1. /\ Busy(w) /\ wjob[w] \in Jobs
          /\ status[wjob[w]] \notin {"unborn", "queued"}
          /\ Finish(wjob[w], "done", "Complete")
      BY <2>4
    <3>2. wpc' = [wpc EXCEPT ![w] = "recheck"] /\ UNCHANGED <<wjob, left, child, seen>>
      BY <2>4 DEF Goto, Keep
    <3>3. TypeOK' /\ Known'
      BY <2>1, <3>1, <3>2, FinishRows DEF Final, clients
    <3>4. \A j \in Jobs : status[j] \notin {"unborn", "queued"} =>
                           status'[j] \notin {"unborn", "queued"}
      BY <3>1, FinishRows DEF Final
    <3>5. Held' /\ NoSharedJob'
      <4> HIDE DEF Held, NoSharedJob, Busy, TypeOK
      <4> QED
        BY <3>1, <3>2, <3>4, MoveKeeps DEF Steps
    <3> QED
      BY <3>3, <3>5
  <2>5. \/ Leave(w, "idle") /\ UNCHANGED rows
        \/ wpc[w] = "loop" /\ Goto(w, "run") /\ Keep /\ UNCHANGED rows
        \/ wpc[w] \in {"direct", "spawn", "done"} /\ Goto(w, "recheck") /\ Keep /\ UNCHANGED rows
        \/ wpc[w] = "done" /\ Goto(w, "recheck") /\ Keep /\ Finish(wjob[w], "done", "Complete")
    BY <1>19 DEF DatabaseFault
  <2> QED
    BY <2>2, <2>3, <2>4, <2>5
<1> QED
  BY <1>1, <1>2, <1>3, <1>4, <1>5, <1>6, <1>7, <1>8, <1>9, <1>10, <1>11, <1>12, <1>13, <1>14, <1>15, <1>16, <1>17, <1>18, <1>19, Next DEF Next, Work

LEMMA StutterIInv ==
  ASSUME IInv, UNCHANGED vars
  PROVE  IInv'
BY DEF vars, rows, clients, workers, IInv, TypeOK, Held, Known, NoSharedJob, Busy

LEMMA InvariantHolds == Spec => []IInv
<1>1. Init => IInv
  BY InitIInv
<1>2. IInv /\ [Next]_vars => IInv'
  BY StepIInv, StutterIInv
<1> QED
  BY <1>1, <1>2, PTL DEF Spec

(* The table and the workers' locals keep their types, with any number of  *)
(* workers, crashes and database failures.                                 *)
THEOREM TypeCorrect == Spec => []TypeOK
<1>1. IInv => TypeOK
  BY DEF IInv
<1> QED
  BY <1>1, InvariantHolds, PTL

(* No two workers ever execute the same job (job_worker.py,                *)
(* db/jobs.py next_queued).                                                *)
THEOREM ExclusiveExecution == Spec => []NoSharedJob
<1>1. IInv => NoSharedJob
  BY DEF IInv
<1> QED
  BY <1>1, InvariantHolds, PTL

(* A job withdrawn while still queued, by the cancel endpoint, stays        *)
(* unstarted: next_queued claims queued rows only.                          *)
THEOREM WithdrawnStaysUnrun == Spec => WithdrawnNeverRuns
<1> DEFINE A == \A j \in Jobs :
                  status[j] \in {"cancelled", "deleted"} /\ ~ started[j] => ~ started'[j]
<1>1. ASSUME TypeOK, NEW w \in Workers, Claim(w)
      PROVE  A
  <2>1. PICK i \in Jobs : status[i] = "queued" /\ started' = [started EXCEPT ![i] = TRUE]
    BY <1>1 DEF Claim, First, InStatus
  <2> QED
    BY <2>1, <1>1 DEF TypeOK
<1>2. ASSUME Next, \A w \in Workers : ~ Claim(w)
      PROVE  UNCHANGED started
  BY <1>2 DEF Next, Work, SubmitLook, SubmitInsert, RequestCancel, DeleteJob, StartWorker,
     LoopCheck, DirectCheck, WriteProgress, Spawn, Return, Raise, SetDone, SetCancelled,
     Recheck, SetFailed, Notify, Crash, DatabaseFault, CreateJob, Finish, rows
<1>3. IInv /\ [Next]_vars => [A]_vars
  BY <1>1, <1>2 DEF IInv
<1> QED
  BY <1>3, InvariantHolds, PTL DEF Spec, WithdrawnNeverRuns

(* Only the worker that claimed a job rewrites its final status             *)
(* (set_done, set_failed, set_cancelled look at the id alone).              *)
THEOREM FinalStatusOwned == Spec => OnlyOwnerRewrites
<1> DEFINE A == \A j \in InStatus(Final) :
                  status'[j] \in {status[j], "deleted"}
                    \/ \E w \in Workers : Busy(w) /\ wjob[w] = j
<1> USE DEF InStatus, Final
<1>1. ASSUME IInv, NEW w \in Workers, Busy(w), NEW s, NEW p, Finish(wjob[w], s, p)
      PROVE  A
  BY <1>1 DEF Finish, IInv, TypeOK
<1>2. ASSUME IInv, NEW k, CreateJob(k)
      PROVE  A
  BY <1>2 DEF CreateJob, First, IInv, TypeOK
<1>3. ASSUME IInv, NEW j \in Jobs, RequestCancel(j) \/ DeleteJob(j)
      PROVE  A
  BY <1>3 DEF RequestCancel, DeleteJob, IInv, TypeOK
<1>4. ASSUME IInv, NEW w \in Workers, Claim(w) \/ StartWorker(w)
      PROVE  A
  BY <1>4 DEF Claim, StartWorker, First, Active, IInv, TypeOK
<1>5. ASSUME UNCHANGED status
      PROVE  A
  BY <1>5
<1>6. ASSUME NEW w \in Workers, DatabaseFault(w)
      PROVE  UNCHANGED status \/ (Busy(w) /\ Finish(wjob[w], "done", "Complete"))
  BY <1>6 DEF DatabaseFault, rows, Busy
<1>7. ASSUME NEW w \in Workers, SetDone(w) \/ SetCancelled(w) \/ SetFailed(w)
      PROVE  Busy(w) /\ \E s, p : Finish(wjob[w], s, p)
  BY <1>7 DEF SetDone, SetCancelled, SetFailed, Busy
<1>8. ASSUME NEW w \in Workers, Spawn(w)
      PROVE  UNCHANGED status \/ \E k : CreateJob(k)
  BY <1>8 DEF Spawn, rows
<1>9. ASSUME NEW c \in Clients, SubmitInsert(c)
      PROVE  UNCHANGED status \/ \E k : CreateJob(k)
  BY <1>9 DEF SubmitInsert, rows
<1>10. ASSUME NEW w \in Workers,
              \/ LoopCheck(w) \/ DirectCheck(w) \/ WriteProgress(w) \/ Return(w)
              \/ Raise(w) \/ Recheck(w) \/ Notify(w) \/ Crash(w)
       PROVE  UNCHANGED status
  BY <1>10 DEF LoopCheck, DirectCheck, WriteProgress, Return, Raise, Recheck, Notify, Crash, rows
<1>11. ASSUME NEW c \in Clients, NEW k \in Kinds, SubmitLook(c, k)
       PROVE  UNCHANGED status
  BY <1>11 DEF SubmitLook, rows
<1> HIDE DEF A
<1>12. IInv /\ [Next]_vars => [A]_vars
  <2> SUFFICES ASSUME IInv, Next
               PROVE  A
    OBVIOUS
  <2>1. CASE \E c \in Clients, k \in Kinds : SubmitLook(c, k)
    BY <2>1, <1>5, <1>11
  <2>2. CASE \E c \in Clients : SubmitInsert(c)
    BY <2>2, <1>2, <1>5, <1>9
  <2>3. CASE \E j \in Jobs : RequestCancel(j) \/ DeleteJob(j)
    BY <2>3, <1>3
  <2>4. ASSUME NEW w \in Workers, Work(w)
        PROVE  A
    BY <2>4, <1>1, <1>2, <1>4, <1>5, <1>7, <1>8, <1>10 DEF Work
  <2>5. ASSUME NEW w \in Workers, Crash(w) \/ DatabaseFault(w)
        PROVE  A
    BY <2>5, <1>1, <1>5, <1>6, <1>10
  <2> QED
    BY <2>1, <2>2, <2>3, <2>4, <2>5 DEF Next
<1> QED
  BY <1>12, InvariantHolds, PTL DEF Spec, OnlyOwnerRewrites, A

-----------------------------------------------------------------------------
(***************************************************************************)
(* One worker process and no database failures: the queue implements the   *)
(* abstract life cycle of JobLifecycle, whatever the number of jobs,       *)
(* clients and crashes.                                                    *)
(*                                                                         *)
(* The argument: with a single worker at most one row is active, and while *)
(* the worker is up that row is the one in its hands (Alone).  Claiming a  *)
(* job therefore finds no other active row, an update of the final status  *)
(* settles the active one, and recovery settles the row a crash left.  So  *)
(* nothing written about a job after it is finished disagrees with it.     *)
(***************************************************************************)

(* The worker's job is active, and no other row is.                        *)
Alone ==
  /\ faults = 0
  /\ ActiveIsOwned
  /\ \A w \in Workers : Busy(w) => status[wjob[w]] \in Active
  /\ \A i, j \in Jobs : status[i] \in Active /\ status[j] \in Active => i = j

IInv1 == IInv /\ Alone

(* Abstract steps, spelled out.                                            *)
LEMMA AbstractInit == Init => Lifecycle!Init
BY DEF Init, Lifecycle!Init, Jobs, Lifecycle!Jobs

LEMMA AbstractSubmit ==
  ASSUME NEW k, CreateJob(k)
  PROVE  Lifecycle!Next
BY DEF CreateJob, First, InStatus, Jobs, Lifecycle!Jobs, Lifecycle!Next, Lifecycle!Submit

LEMMA AbstractSettle ==
  ASSUME TypeOK, NEW i \in Jobs, status[i] \in Active, NEW s \in Final, NEW p, Finish(i, s, p)
  PROVE  Lifecycle!Next /\ status' = [status EXCEPT ![i] = s]
<1>1. status' = [status EXCEPT ![i] = s]
  BY DEF Finish, Active
<1>2. Lifecycle!Settle(i)
  BY <1>1 DEF Active, Final, Lifecycle!Active, Lifecycle!Final, Lifecycle!Settle
<1> QED
  BY <1>1, <1>2 DEF Lifecycle!Next, Jobs, Lifecycle!Jobs

(* One step of the queue: the invariant is kept and the life cycle takes a *)
(* step or stutters.                                                       *)
LEMMA StepAlone ==
  ASSUME NEW W, Workers = {W}, MaxFaults = 0, IInv1, Next
  PROVE  Alone' /\ (Lifecycle!Next \/ UNCHANGED status)
<1> DEFINE Goal == Alone' /\ (Lifecycle!Next \/ UNCHANGED status)
<1> USE DEF IInv1, Alone, ActiveIsOwned, Busy
<1>0. /\ TypeOK /\ Held
      /\ W \in Workers /\ wpc[W] \in Steps /\ Workers = {W}
      /\ \A w \in Workers : w = W
      /\ Busy(W) => wjob[W] \in Jobs
  BY DEF IInv, TypeOK, Held
<1>1. ASSUME \A j \in Jobs : status'[j] \in Active <=> status[j] \in Active,
             wpc'[W] = "down" <=> wpc[W] = "down",
             Busy(W)' <=> Busy(W),
             UNCHANGED <<wjob, faults>>
      PROVE  Alone'
  BY <1>0, <1>1
<1>2. ASSUME NEW k, CreateJob(k),
             wpc'[W] = "down" <=> wpc[W] = "down",
             Busy(W)' <=> Busy(W),
             UNCHANGED <<wjob, faults>>
      PROVE  Goal
  <2>1. PICK i \in Jobs : status[i] = "unborn" /\ status' = [status EXCEPT ![i] = "queued"]
    BY <1>2 DEF CreateJob, First, InStatus
  <2>2. \A j \in Jobs : status'[j] \in Active <=> status[j] \in Active
    BY <1>0, <2>1 DEF TypeOK, Active
  <2>3. Alone'
    BY <1>1, <1>2, <2>2
  <2> QED
    BY <1>2, <2>3, AbstractSubmit
<1>3. ASSUME Busy(W), NEW s \in Final, NEW p, Finish(wjob[W], s, p),
             wpc'[W] \in {"idle", "tellDone", "tellFailed"}, UNCHANGED faults
      PROVE  Goal
  <2>1. Lifecycle!Next /\ status' = [status EXCEPT ![wjob[W]] = s]
    BY <1>0, <1>3, AbstractSettle
  <2>2. \A j \in Jobs : status'[j] \notin Active
    BY <1>0, <1>3, <2>1 DEF TypeOK, Active, Final
  <2> QED
    BY <1>0, <1>3, <2>1, <2>2
<1>4. ASSUME NEW j \in Jobs, RequestCancel(j)
      PROVE  Goal
  <2> USE DEF RequestCancel, workers
  <2>1. CASE status[j] = "queued"
    <3>1. status' = [status EXCEPT ![j] = "cancelled"]
      BY <1>4, <2>1
    <3>2. Lifecycle!Withdraw(j)
      BY <2>1, <3>1 DEF Lifecycle!Withdraw
    <3>3. \A i \in Jobs : status'[i] \in Active <=> status[i] \in Active
      BY <1>0, <2>1, <3>1 DEF TypeOK, Active
    <3>4. Alone'
      BY <1>1, <1>4, <3>3
    <3> QED
      BY <3>2, <3>4 DEF Lifecycle!Next, Jobs, Lifecycle!Jobs
  <2>2. CASE status[j] = "running"
    <3>1. status' = [status EXCEPT ![j] = "cancelling"]
      BY <1>4, <2>2
    <3>2. Lifecycle!AskToStop(j)
      BY <2>2, <3>1 DEF Lifecycle!AskToStop
    <3>3. \A i \in Jobs : status'[i] \in Active <=> status[i] \in Active
      BY <1>0, <2>2, <3>1 DEF TypeOK, Active
    <3>4. Alone'
      BY <1>1, <1>4, <3>3
    <3> QED
      BY <3>2, <3>4 DEF Lifecycle!Next, Jobs, Lifecycle!Jobs
  <2> QED
    BY <1>4, <2>1, <2>2
<1>5. ASSUME NEW j \in Jobs, DeleteJob(j)
      PROVE  Goal
  <2>1. Lifecycle!Forget(j)
    BY <1>5 DEF DeleteJob, Final, Lifecycle!Final, Lifecycle!Forget
  <2>2. \A i \in Jobs : status'[i] \in Active <=> status[i] \in Active
    BY <1>0, <1>5 DEF DeleteJob, TypeOK, Active, Final
  <2>3. Alone'
    BY <1>1, <1>5, <2>2 DEF DeleteJob, workers
  <2> QED
    BY <2>1, <2>3 DEF Lifecycle!Next, Jobs, Lifecycle!Jobs
<1>6. ASSUME StartWorker(W)
      PROVE  Goal
  <2>1. /\ status' = [j \in Jobs |-> IF status[j] \in Active THEN "cancelled" ELSE status[j]]
        /\ wpc' = [wpc EXCEPT ![W] = "idle"]
        /\ UNCHANGED <<wjob, faults>>
    BY <1>6 DEF StartWorker, Goto
  <2>2. \A j \in Jobs : status'[j] \notin Active
    BY <2>1 DEF Active
  <2>3. Alone'
    BY <1>0, <2>1, <2>2 DEF TypeOK
  <2>4. CASE \A j \in Jobs : status[j] \notin Active
    <3>1. status' = status
      BY <1>0, <2>1, <2>4 DEF TypeOK
    <3> QED
      BY <2>3, <3>1
  <2>5. CASE \E j \in Jobs : status[j] \in Active
    <3>1. PICK i \in Jobs : status[i] \in Active
      BY <2>5
    <3>2. status' = [status EXCEPT ![i] = "cancelled"]
      BY <1>0, <2>1, <3>1 DEF TypeOK
    <3>3. Lifecycle!Settle(i)
      BY <3>1, <3>2 DEF Active, Lifecycle!Active, Lifecycle!Final, Lifecycle!Settle
    <3> QED
      BY <2>3, <3>3 DEF Lifecycle!Next, Jobs, Lifecycle!Jobs
  <2> QED
    BY <2>4, <2>5
<1>7. ASSUME Claim(W)
      PROVE  Goal
  <2>1. PICK j \in Jobs : /\ First(j, InStatus({"queued"}))
                         /\ status' = [status EXCEPT ![j] = "running"]
                         /\ wjob' = [wjob EXCEPT ![W] = j]
    BY <1>7 DEF Claim, Load
  <2>2. /\ wpc[W] = "idle" /\ wpc' = [wpc EXCEPT ![W] = "run"]
        /\ UNCHANGED faults
    BY <1>7 DEF Claim, Goto
  <2>3. \A i \in Jobs : status[i] \notin Active
    BY <1>0, <2>2
  <2>4. Lifecycle!Start(j)
    BY <2>1, <2>3 DEF First, InStatus, Active, Jobs, Lifecycle!Active, Lifecycle!Jobs,
       Lifecycle!Start
  <2>5. \A i \in Jobs : status'[i] \in Active <=> i = j
    BY <1>0, <2>1, <2>3 DEF TypeOK, Active
  <2>6. Alone'
    BY <1>0, <2>1, <2>2, <2>5 DEF TypeOK
  <2> QED
    BY <2>4, <2>6 DEF Lifecycle!Next, Jobs, Lifecycle!Jobs
<1>8. ASSUME SetDone(W) \/ SetCancelled(W) \/ SetFailed(W)
      PROVE  Goal
  <2>1. PICK s \in Final, p \in {"Complete", "Cancelled", "Failed"} : Finish(wjob[W], s, p)
    BY <1>8 DEF SetDone, SetCancelled, SetFailed, Final
  <2>2. Busy(W) /\ wpc'[W] \in {"idle", "tellDone", "tellFailed"} /\ UNCHANGED faults
    BY <1>0, <1>8 DEF SetDone, SetCancelled, SetFailed, Leave, Goto, TypeOK
  <2> QED
    BY <1>3, <2>1, <2>2
<1>9. ASSUME Spawn(W)
      PROVE  Goal
  <2>1. /\ Busy(W)' <=> Busy(W)
        /\ wpc'[W] = "down" <=> wpc[W] = "down"
        /\ UNCHANGED <<wjob, faults>>
    BY <1>0, <1>9 DEF Spawn, Goto, TypeOK
  <2>2. UNCHANGED status \/ \E k : CreateJob(k)
    BY <1>9 DEF Spawn, rows
  <2> QED
    BY <1>1, <1>2, <2>1, <2>2
<1>10. ASSUME LoopCheck(W) \/ DirectCheck(W) \/ WriteProgress(W) \/ Return(W) \/ Raise(W) \/ Recheck(W)
       PROVE  Goal
  <2>1. /\ Busy(W)' <=> Busy(W)
        /\ wpc'[W] = "down" <=> wpc[W] = "down"
    BY <1>0, <1>10 DEF LoopCheck, DirectCheck, WriteProgress, Return, Raise, Recheck, Goto, TypeOK
  <2>2. UNCHANGED <<status, wjob, faults>>
    BY <1>10 DEF LoopCheck, DirectCheck, WriteProgress, Return, Raise, Recheck, rows
  <2> QED
    BY <1>1, <2>1, <2>2
<1>11. ASSUME Notify(W) \/ Crash(W)
       PROVE  Goal
  <2>1. /\ UNCHANGED <<status, faults>>
        /\ wpc'[W] \in {"idle", "down"}
        /\ wpc'[W] = "idle" => ~ Busy(W) /\ wpc[W] # "down"
    BY <1>0, <1>11 DEF Notify, Crash, rows, Leave, Goto, TypeOK
  <2> QED
    BY <1>0, <2>1
<1>12. ASSUME DatabaseFault(W)
       PROVE  Goal
  BY <1>12 DEF DatabaseFault
<1>13. ASSUME NEW c \in Clients, SubmitInsert(c)
       PROVE  Goal
  <2>1. UNCHANGED <<wpc, wjob, faults>>
    BY <1>13 DEF SubmitInsert, workers
  <2>2. UNCHANGED status \/ \E k : CreateJob(k)
    BY <1>13 DEF SubmitInsert, rows
  <2> QED
    BY <1>1, <1>2, <2>1, <2>2
<1>14. ASSUME NEW c \in Clients, NEW k \in Kinds, SubmitLook(c, k)
       PROVE  Goal
  BY <1>1, <1>14 DEF SubmitLook, rows, workers
<1> HIDE DEF Goal
<1>15. ASSUME Work(W)
       PROVE  Goal
  BY <1>6, <1>7, <1>8, <1>9, <1>10, <1>11, <1>15 DEF Work
<1>16. Goal
  BY <1>0, <1>4, <1>5, <1>11, <1>12, <1>13, <1>14, <1>15, Next DEF Next
<1> QED
  BY <1>16 DEF Goal

(* From the start, one worker and no faults give IInv1 in every state.     *)
LEMMA AloneHolds ==
  ASSUME NEW W, Workers = {W}, MaxFaults = 0
  PROVE  Spec => [](IInv1)
<1>1. Init => IInv1
  BY InitIInv DEF Init, IInv1, Alone, ActiveIsOwned, Active, Busy
<1>2. IInv1 /\ [Next]_vars => IInv1'
  <2> SUFFICES ASSUME IInv1, [Next]_vars
               PROVE  IInv1'
    OBVIOUS
  <2>1. IInv'
    BY StepIInv, StutterIInv DEF IInv1
  <2>2. CASE Next
    BY <2>1, <2>2, StepAlone DEF IInv1
  <2>3. CASE UNCHANGED vars
    BY <2>1, <2>3 DEF IInv1, Alone, ActiveIsOwned, Busy, vars, rows, workers
  <2> QED
    BY <2>2, <2>3
<1> QED
  BY <1>1, <1>2, PTL DEF Spec

(* No job is left active with nobody working on it (db/jobs.py             *)
(* recover_interrupted), for one worker process without database failures. *)
THEOREM NothingOrphaned ==
  ASSUME NEW W, Workers = {W}, MaxFaults = 0
  PROVE  Spec => []ActiveIsOwned
<1>1. IInv1 => ActiveIsOwned
  BY DEF IInv1, Alone
<1> QED
  BY <1>1, AloneHolds, PTL

(* The queue implements the abstract life cycle: one job at a time, oldest *)
(* first, one final status each.                                           *)
THEOREM ImplementsLifecycle ==
  ASSUME NEW W, Workers = {W}, MaxFaults = 0
  PROVE  Spec => LifecycleSpec
<1>1. IInv1 /\ [Next]_vars => [Lifecycle!Next]_status
  <2> SUFFICES ASSUME IInv1, [Next]_vars
               PROVE  Lifecycle!Next \/ UNCHANGED status
    OBVIOUS
  <2>1. CASE Next
    BY <2>1, StepAlone
  <2>2. CASE UNCHANGED vars
    BY <2>2 DEF vars, rows
  <2> QED
    BY <2>1, <2>2
<1> QED
  BY <1>1, AbstractInit, AloneHolds, PTL DEF Spec, LifecycleSpec, Lifecycle!Spec

-----------------------------------------------------------------------------
(* Nobody is told of a job that is not finished, and a worker that is about *)
(* to tell of one has recorded just that, unless the row was deleted since. *)
Unsettled == \A j \in Jobs : status[j] \notin Final \cup {"deleted"} => told[j] = {}

Telling ==
  \A w \in Workers :
    /\ wpc[w] \in {"tellDone", "tellFailed"} => wjob[w] \in Jobs
    /\ wpc[w] = "tellDone" => status[wjob[w]] \in {"done", "deleted"}
    /\ wpc[w] = "tellFailed" => status[wjob[w]] \in {"failed", "deleted"}

Agree == SettledRowAgrees /\ Unsettled /\ Telling

LEMMA AgreeStep ==
  ASSUME NEW W, Workers = {W}, MaxFaults = 0, IInv1, Agree, Next
  PROVE  Agree'
<1> USE DEF Agree
<1>0. /\ TypeOK
      /\ W \in Workers /\ wpc[W] \in Steps /\ wjob[W] \in Jobs \cup {0}
      /\ \A w \in Workers : w = W
      /\ Busy(W) => wjob[W] \in Jobs /\ status[wjob[W]] \in Active
  <2>1. TypeOK /\ Held
    BY DEF IInv1, IInv
  <2>2. W \in Workers /\ \A w \in Workers : w = W
    OBVIOUS
  <2>3. wpc[W] \in Steps /\ wjob[W] \in Jobs \cup {0}
    BY <2>1, <2>2 DEF TypeOK
  <2>4. Busy(W) => wjob[W] \in Jobs /\ status[wjob[W]] \in Active
    BY <2>1, <2>2 DEF IInv1, Alone, Held, Busy
  <2> QED BY <2>1, <2>2, <2>3, <2>4
<1>1. ASSUME \A j \in Jobs : status'[j] \in Final \cup {"deleted"} =>
               \/ status'[j] = "deleted"
               \/ status'[j] = status[j] /\ phase'[j] = phase[j] /\ told'[j] = told[j]
               \/ status[j] \notin Final \cup {"deleted"} /\ phase'[j] = PhaseOf[status'[j]] /\ told'[j] = told[j]
      PROVE  SettledRowAgrees'
  BY <1>0, <1>1 DEF SettledRowAgrees, InStatus, Unsettled, Final, TypeOK
<1>2. ASSUME \A j \in Jobs : status'[j] = status[j]
                             \/ (status[j] \notin Final \cup {"deleted"} /\ status'[j] \notin Final \cup {"deleted"})
                             \/ status'[j] \in Final \cup {"deleted"},
             UNCHANGED told
      PROVE  Unsettled'
  BY <1>2 DEF Unsettled
<1>3. ASSUME wpc'[W] \notin {"tellDone", "tellFailed"}
      PROVE  Telling'
  BY <1>0, <1>3 DEF Telling
<1>4. ASSUME UNCHANGED <<wpc, wjob>>,
             \A j \in Jobs : status[j] \in Final \cup {"deleted"} => status'[j] \in {status[j], "deleted"}
      PROVE  Telling'
  BY <1>0, <1>4 DEF Telling, Final
<1>5. ASSUME NEW k, CreateJob(k), UNCHANGED told
      PROVE  /\ SettledRowAgrees' /\ Unsettled'
             /\ \A j \in Jobs : status[j] \in Final \cup {"deleted"} => status'[j] \in {status[j], "deleted"}
  <2>1. PICK i \in Jobs : /\ status[i] = "unborn" /\ status' = [status EXCEPT ![i] = "queued"]
                          /\ phase' = [phase EXCEPT ![i] = "Queued"]
    BY <1>5 DEF CreateJob, First, InStatus
  <2>2. \A j \in Jobs : IF j = i THEN status'[j] = "queued" /\ status[j] = "unborn"
                                 ELSE status'[j] = status[j] /\ phase'[j] = phase[j]
    BY <1>0, <2>1 DEF TypeOK
  <2>3. SettledRowAgrees'
    BY <1>1, <1>5, <2>2 DEF Final
  <2>4. Unsettled'
    BY <1>2, <1>5, <2>2 DEF Final
  <2> QED
    BY <2>2, <2>3, <2>4 DEF Final
<1>6. ASSUME Busy(W), NEW s \in Final, Finish(wjob[W], s, PhaseOf[s]), UNCHANGED told
      PROVE  SettledRowAgrees' /\ Unsettled' /\ status'[wjob[W]] = s
  <2>1. /\ status[wjob[W]] \notin Final \cup {"deleted"}
        /\ status' = [status EXCEPT ![wjob[W]] = s]
        /\ phase' = [phase EXCEPT ![wjob[W]] = PhaseOf[s]]
    BY <1>0, <1>6 DEF Finish, Active, Final
  <2>2. \A j \in Jobs : IF j = wjob[W] THEN status'[j] = s /\ phase'[j] = PhaseOf[s]
                                       ELSE status'[j] = status[j] /\ phase'[j] = phase[j]
    BY <1>0, <1>6, <2>1 DEF TypeOK
  <2>3. SettledRowAgrees'
    BY <1>1, <1>6, <2>1, <2>2
  <2>4. Unsettled'
    BY <1>2, <1>6, <2>2
  <2> QED
    BY <1>0, <1>6, <2>2, <2>3, <2>4
<1>7. PhaseOf["done"] = "Complete" /\ PhaseOf["failed"] = "Failed" /\ PhaseOf["cancelled"] = "Cancelled"
  BY DEF PhaseOf
<1>8. ASSUME NEW j \in Jobs, RequestCancel(j)
      PROVE  Agree'
  <2>1. /\ status[j] \in {"queued", "running"} /\ UNCHANGED <<told, wpc, wjob>>
        /\ (status'[j] = "cancelled" /\ phase'[j] = "Cancelled") \/ status'[j] = "cancelling"
        /\ \A i \in Jobs \ {j} : status'[i] = status[i] /\ phase'[i] = phase[i]
    BY <1>0, <1>8 DEF RequestCancel, TypeOK, workers
  <2>2. SettledRowAgrees'
    BY <1>1, <1>7, <2>1 DEF Final
  <2>3. Unsettled'
    BY <1>2, <2>1 DEF Final
  <2>4. Telling'
    BY <1>4, <2>1 DEF Final
  <2> QED BY <2>2, <2>3, <2>4
<1>9. ASSUME NEW j \in Jobs, DeleteJob(j)
      PROVE  Agree'
  <2>1. /\ status'[j] = "deleted" /\ UNCHANGED <<told, wpc, wjob>>
        /\ \A i \in Jobs \ {j} : status'[i] = status[i] /\ phase'[i] = phase[i]
    BY <1>0, <1>9 DEF DeleteJob, TypeOK, workers
  <2>2. SettledRowAgrees'
    BY <1>1, <2>1
  <2>3. Unsettled'
    BY <1>2, <2>1
  <2>4. Telling'
    BY <1>4, <2>1
  <2> QED BY <2>2, <2>3, <2>4
<1>10. ASSUME StartWorker(W)
       PROVE  Agree'
  <2>1. /\ \A j \in Jobs : IF status[j] \in Active THEN status'[j] = "cancelled" /\ phase'[j] = "Cancelled"
                                                  ELSE status'[j] = status[j] /\ phase'[j] = phase[j]
        /\ wpc'[W] = "idle" /\ UNCHANGED told
    BY <1>0, <1>10 DEF StartWorker, Goto, TypeOK
  <2>2. SettledRowAgrees'
    BY <1>1, <1>7, <2>1 DEF Active, Final
  <2>3. Unsettled'
    BY <1>2, <2>1 DEF Active, Final
  <2> QED BY <1>3, <2>1, <2>2, <2>3
<1>11. ASSUME Claim(W)
       PROVE  Agree'
  <2>1. PICK j \in Jobs : /\ status[j] = "queued" /\ status' = [status EXCEPT ![j] = "running"]
                          /\ phase' = [phase EXCEPT ![j] = "Starting"]
    BY <1>11 DEF Claim, First, InStatus
  <2>2. /\ \A i \in Jobs : IF i = j THEN status'[i] = "running" ELSE status'[i] = status[i] /\ phase'[i] = phase[i]
        /\ wpc'[W] = "run" /\ UNCHANGED told
    BY <1>0, <1>11, <2>1 DEF Claim, Goto, TypeOK
  <2>3. SettledRowAgrees'
    BY <1>1, <2>2 DEF Final
  <2>4. Unsettled'
    BY <1>2, <2>1, <2>2 DEF Final
  <2> QED BY <1>3, <2>2, <2>3, <2>4
<1>12. ASSUME WriteProgress(W)
       PROVE  Agree'
  <2>1. Busy(W) /\ UNCHANGED <<status, told>> /\ wpc'[W] \in {"run", "tail"}
    BY <1>0, <1>12 DEF WriteProgress, Busy, Goto, TypeOK
  <2>2. status[wjob[W]] \notin Final \cup {"deleted"}
    BY <1>0, <2>1 DEF Active, Final
  <2>3. \A j \in Jobs \ {wjob[W]} : phase'[j] = phase[j]
    BY <1>0, <1>12 DEF WriteProgress, TypeOK
  <2>4. SettledRowAgrees'
    BY <1>1, <2>1, <2>2, <2>3
  <2>5. Unsettled'
    BY <1>2, <2>1
  <2> QED BY <1>3, <2>1, <2>4, <2>5
<1>13. ASSUME LoopCheck(W) \/ DirectCheck(W) \/ Return(W) \/ Raise(W) \/ Recheck(W) \/ Crash(W)
       PROVE  Agree'
  <2>1. UNCHANGED <<status, phase, told>>
    BY <1>13 DEF LoopCheck, DirectCheck, Return, Raise, Recheck, Crash, rows
  <2>2. wpc'[W] \notin {"tellDone", "tellFailed"}
    BY <1>0, <1>13 DEF LoopCheck, DirectCheck, Return, Raise, Recheck, Crash, Goto, Leave, TypeOK
  <2> QED BY <1>1, <1>2, <1>3, <2>1, <2>2
<1>14. ASSUME Spawn(W)
       PROVE  Agree'
  <2>1. UNCHANGED told /\ wpc'[W] \notin {"tellDone", "tellFailed"}
    BY <1>0, <1>14 DEF Spawn, Goto, TypeOK
  <2>2. UNCHANGED <<status, phase>> \/ \E k : CreateJob(k)
    BY <1>14 DEF Spawn, rows
  <2> QED BY <1>1, <1>2, <1>3, <1>5, <2>1, <2>2
<1>15. ASSUME SetDone(W)
       PROVE  Agree'
  <2>1. Busy(W) /\ Finish(wjob[W], "done", PhaseOf["done"]) /\ UNCHANGED <<told, wjob>> /\ wpc'[W] = "tellDone"
    BY <1>0, <1>7, <1>15 DEF SetDone, Busy, Goto, TypeOK
  <2>2. SettledRowAgrees' /\ Unsettled' /\ status'[wjob[W]] = "done"
    BY <1>6, <2>1 DEF Final
  <2>3. Telling'
    BY <1>0, <2>1, <2>2 DEF Telling
  <2> QED BY <2>2, <2>3
<1>16. ASSUME SetFailed(W)
       PROVE  Agree'
  <2>1. Busy(W) /\ Finish(wjob[W], "failed", PhaseOf["failed"]) /\ UNCHANGED <<told, wjob>> /\ wpc'[W] = "tellFailed"
    BY <1>0, <1>7, <1>16 DEF SetFailed, Busy, Goto, TypeOK
  <2>2. SettledRowAgrees' /\ Unsettled' /\ status'[wjob[W]] = "failed"
    BY <1>6, <2>1 DEF Final
  <2>3. Telling'
    BY <1>0, <2>1, <2>2 DEF Telling
  <2> QED BY <2>2, <2>3
<1>17. ASSUME SetCancelled(W)
       PROVE  Agree'
  <2>1. Busy(W) /\ Finish(wjob[W], "cancelled", PhaseOf["cancelled"]) /\ UNCHANGED told /\ wpc'[W] = "idle"
    BY <1>0, <1>7, <1>17 DEF SetCancelled, Busy, Goto, Leave, TypeOK
  <2>2. SettledRowAgrees' /\ Unsettled'
    BY <1>6, <2>1 DEF Final
  <2> QED BY <1>3, <2>1, <2>2
<1>18. ASSUME Notify(W)
       PROVE  Agree'
  <2>1. /\ UNCHANGED <<status, phase>> /\ wpc'[W] = "idle" /\ wpc[W] \in {"tellDone", "tellFailed"}
        /\ told' = [told EXCEPT ![wjob[W]] = @ \cup {IF wpc[W] = "tellDone" THEN "done" ELSE "failed"}]
    BY <1>0, <1>18 DEF Notify, Goto, Leave, TypeOK, rows
  <2> DEFINE s == IF wpc[W] = "tellDone" THEN "done" ELSE "failed"
  <2>2. wjob[W] \in Jobs /\ status[wjob[W]] \in {s, "deleted"}
    BY <1>0, <2>1 DEF Telling
  <2>3. \A j \in Jobs : IF j = wjob[W] THEN told'[j] = told[j] \cup {s} ELSE told'[j] = told[j]
    BY <1>0, <2>1, <2>2 DEF TypeOK
  <2>4. SettledRowAgrees'
    BY <2>1, <2>2, <2>3 DEF SettledRowAgrees, InStatus, Final
  <2>5. Unsettled'
    BY <2>1, <2>2, <2>3 DEF Unsettled, Final
  <2> QED BY <1>3, <2>1, <2>4, <2>5
<1>19. ASSUME DatabaseFault(W)
       PROVE  Agree'
  BY <1>19 DEF DatabaseFault, IInv1, Alone
<1>20. ASSUME NEW c \in Clients, SubmitInsert(c)
       PROVE  Agree'
  <2>1. UNCHANGED <<told, wpc, wjob>>
    BY <1>20 DEF SubmitInsert, workers
  <2>2. UNCHANGED <<status, phase>> \/ \E k : CreateJob(k)
    BY <1>20 DEF SubmitInsert, rows
  <2>3. CASE UNCHANGED <<status, phase>>
    BY <1>1, <1>2, <1>4, <2>1, <2>3
  <2>4. CASE \E k : CreateJob(k)
    BY <1>4, <1>5, <2>1, <2>4
  <2> QED BY <2>2, <2>3, <2>4
<1>21. ASSUME NEW c \in Clients, NEW k \in Kinds, SubmitLook(c, k)
       PROVE  Agree'
  BY <1>1, <1>2, <1>4, <1>21 DEF SubmitLook, rows, workers
<1> HIDE DEF Agree
<1>22. ASSUME Work(W)
       PROVE  Agree'
  BY <1>10, <1>11, <1>12, <1>13, <1>14, <1>15, <1>16, <1>17, <1>18, <1>22 DEF Work
<1> QED
  BY <1>0, <1>8, <1>9, <1>13, <1>19, <1>20, <1>21, <1>22, Next DEF Next

(* A finished row shows the phase of its status and nothing else was told  *)
(* of it, however progress callbacks, cancellations, crashes and recoveries *)
(* interleave (context/job_worker.py), for one worker process without      *)
(* database failures.                                                      *)
THEOREM SettledRowsAgree ==
  ASSUME NEW W, Workers = {W}, MaxFaults = 0
  PROVE  Spec => []SettledRowAgrees
<1>1. Init => Agree
  BY DEF Init, Agree, SettledRowAgrees, InStatus, Unsettled, Telling, Final
<1>2. IInv1 /\ Agree /\ [Next]_vars => Agree'
  <2> SUFFICES ASSUME IInv1, Agree, [Next]_vars PROVE Agree'
    OBVIOUS
  <2>1. CASE Next
    BY <2>1, AgreeStep
  <2>2. CASE UNCHANGED vars
    BY <2>2 DEF Agree, SettledRowAgrees, InStatus, Unsettled, Telling, vars, rows, workers
  <2> QED
    BY <2>1, <2>2
<1>3. Agree => SettledRowAgrees
  BY DEF Agree
<1> QED
  BY <1>1, <1>2, <1>3, AloneHolds, PTL DEF Spec
=============================================================================
