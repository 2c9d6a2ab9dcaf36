------------------------------ MODULE JobQueue ------------------------------
(***************************************************************************)
(* The persistent job queue: the jobs table (db/jobs.py), the API handlers *)
(* that submit, cancel and delete jobs (routes/jobs_system.py), and the    *)
(* worker processes that claim and run them (context/job_worker.py).       *)
(*                                                                         *)
(* Every database call of the code is a transaction of its own, so every   *)
(* call is an action of its own here.  What a handler computes is left     *)
(* out; what it does to the queue is kept: the progress callbacks that     *)
(* look at the cancellation flag, the follow-up jobs it creates, and the   *)
(* way it ends.                                                            *)
(***************************************************************************)
EXTENDS Naturals, Sequences

CONSTANTS
  MaxJobs,      \* bound on the jobs ever created
  Workers,      \* worker processes that may run at the same time
  Clients,      \* request handlers that submit jobs
  Kinds,        \* job types, all for one target
  InLoop,       \* kinds whose handler calls back from inside a per-file loop
                \* that catches Exception (indexer.py)
  Direct,       \* kinds whose handler lets the callback's exception through,
                \* and makes such a call last
  Structural,   \* kinds the partial unique index lets in once per target
  FollowUps,    \* the jobs a handler of each kind creates, in order
  MaxCalls,     \* bound on the callbacks of one execution
  MaxCrashes,   \* bound on worker crashes
  MaxFaults     \* bound on database failures seen by a worker

ASSUME ConstantsAssumption ==
  /\ MaxJobs \in Nat /\ MaxCrashes \in Nat /\ MaxFaults \in Nat
  /\ MaxCalls \in Nat \ {0}
  /\ InLoop \subseteq Kinds /\ Direct \subseteq Kinds
  /\ Structural \subseteq Kinds
  /\ FollowUps \in [Kinds -> Seq(Kinds)]

VARIABLES
  status, phase, kind, started,    \* the columns of a jobs row
  told,                            \* notifications sent about the job
  cpc, want,                       \* request handlers: step, kind submitted
  wpc, wjob,                       \* workers: step, job being executed
  left, child, seen,               \* workers: callbacks left, next follow-up,
                                   \* history: a callback has raised
  crashes, faults

rows    == <<status, phase, kind, started>>
clients == <<cpc, want>>
workers == <<wpc, wjob, left, child, seen>>
vars    == <<rows, told, clients, workers, crashes, faults>>

Jobs     == 1..MaxJobs
Final    == {"done", "failed", "cancelled"}
Active   == {"running", "cancelling"}
Statuses == Final \cup Active \cup {"unborn", "queued", "deleted"}
Steps    == {"down", "idle", "run", "loop", "direct", "spawn", "tail",
             "done", "cancel", "recheck", "fail", "tellDone", "tellFailed"}

(* A worker between claiming a job and recording how it ended.             *)
Busy(w) == wpc[w] \in {"run", "loop", "direct", "spawn", "tail", "done",
                       "cancel", "recheck", "fail"}

First(j, S) == j \in S /\ \A k \in S : j <= k

InStatus(S) == {j \in Jobs : status[j] \in S}

(* db/jobs.py find_active: the queued or running jobs of some kinds.  A    *)
(* job that is being cancelled does not count.                             *)
ActiveOf(K) == {j \in InStatus({"queued", "running"}) : kind[j] \in K}

(* An insert the database refuses: the partial unique index                *)
(* idx_jobs_one_active_structural_repo, or no row left under the bound     *)
(* MaxJobs, which looks like any other database error to the caller.       *)
Refused(k) ==
  \/ k \in Structural /\ ActiveOf(Structural) # {}
  \/ InStatus({"unborn"}) = {}

Init ==
  /\ status = [j \in Jobs |-> "unborn"]
  /\ phase = [j \in Jobs |-> "none"]
  /\ kind = [j \in Jobs |-> "none"]
  /\ started = [j \in Jobs |-> FALSE]
  /\ told = [j \in Jobs |-> {}]
  /\ cpc = [c \in Clients |-> "idle"]
  /\ want = [c \in Clients |-> "none"]
  /\ wpc = [w \in Workers |-> "down"]
  /\ wjob = [w \in Workers |-> 0]
  /\ left = [w \in Workers |-> 0]
  /\ child = [w \in Workers |-> 1]
  /\ seen = [w \in Workers |-> FALSE]
  /\ crashes = 0
  /\ faults = 0

-----------------------------------------------------------------------------
(* Rows of the table.                                                      *)

(* create_job: one transaction.  The new row takes the next number, since  *)
(* created_at is read just before the insert.                              *)
CreateJob(k) ==
  \E j \in Jobs :
    /\ First(j, InStatus({"unborn"}))
    /\ status' = [status EXCEPT ![j] = "queued"]
    /\ phase' = [phase EXCEPT ![j] = "Queued"]
    /\ kind' = [kind EXCEPT ![j] = k]
    /\ UNCHANGED started

(* The UPDATEs of set_done, set_failed and set_cancelled, which look only  *)
(* at the id: they change a deleted row no more than any other statement.  *)
Finish(j, s, p) ==
  /\ status' = [status EXCEPT ![j] = IF @ = "deleted" THEN @ ELSE s]
  /\ phase' = [phase EXCEPT ![j] = IF status[j] = "deleted" THEN @ ELSE p]
  /\ UNCHANGED <<kind, started>>

-----------------------------------------------------------------------------
(* Request handlers.                                                       *)

(* api_jobs_submit, first transaction: no active job of this kind.  When   *)
(* there is one the handler answers "reused" and changes nothing.          *)
SubmitLook(c, k) ==
  /\ cpc[c] = "idle"
  /\ ActiveOf({k}) = {}
  /\ cpc' = [cpc EXCEPT ![c] = "insert"]
  /\ want' = [want EXCEPT ![c] = k]
  /\ UNCHANGED <<rows, told, workers, crashes, faults>>

(* Second transaction: the insert, or the unique index refusing it.        *)
SubmitInsert(c) ==
  /\ cpc[c] = "insert"
  /\ IF Refused(want[c]) THEN UNCHANGED rows ELSE CreateJob(want[c])
  /\ cpc' = [cpc EXCEPT ![c] = "idle"]
  /\ want' = [want EXCEPT ![c] = "none"]
  /\ UNCHANGED <<told, workers, crashes, faults>>

(* Mutant: the UPDATE looks at the id only.                                *)
RequestCancelAnyStatus(j) ==
  /\ status[j] \in {"queued", "running"} \cup Final
  /\ LET queued == status[j] = "queued" IN
       /\ status' = [status EXCEPT ![j] = IF queued THEN "cancelled" ELSE "cancelling"]
       /\ phase' = [phase EXCEPT ![j] = IF queued THEN "Cancelled" ELSE "Cancelling"]
  /\ UNCHANGED <<kind, started, told, clients, workers, crashes, faults>>

(* request_cancel, reached from the cancel and the stop endpoints.         *)
RequestCancel(j) ==
  /\ status[j] \in {"queued", "running"}
  /\ LET queued == status[j] = "queued" IN
       /\ status' = [status EXCEPT ![j] = IF queued THEN "cancelled" ELSE "cancelling"]
       /\ phase' = [phase EXCEPT ![j] = IF queued THEN "Cancelled" ELSE "Cancelling"]
  /\ UNCHANGED <<kind, started, told, clients, workers, crashes, faults>>

(* delete_job: finished rows only.                                         *)
DeleteJob(j) ==
  /\ status[j] \in Final
  /\ status' = [status EXCEPT ![j] = "deleted"]
  /\ phase' = [phase EXCEPT ![j] = "none"]
  /\ UNCHANGED <<kind, started, told, clients, workers, crashes, faults>>

-----------------------------------------------------------------------------
(* Workers.                                                                *)

Goto(w, step) == wpc' = [wpc EXCEPT ![w] = step]
Keep == UNCHANGED <<wjob, left, child, seen>>

(* The worker's locals for the next job; leaving one drops them.           *)
Load(w, j, n) ==
  /\ wjob' = [wjob EXCEPT ![w] = j]
  /\ left' = [left EXCEPT ![w] = n]
  /\ child' = [child EXCEPT ![w] = 1]
  /\ seen' = [seen EXCEPT ![w] = FALSE]
Leave(w, step) == Goto(w, step) /\ Load(w, 0, 0)

JobKind(w) == kind[wjob[w]]

(* Mutant: recovery gives interrupted jobs another try.                    *)
StartWorkerRequeues(w) ==
  /\ wpc[w] = "down"
  /\ status' = [j \in Jobs |-> IF status[j] \in Active THEN "queued" ELSE status[j]]
  /\ phase' = [j \in Jobs |-> IF status[j] \in Active THEN "Queued" ELSE phase[j]]
  /\ Goto(w, "idle")
  /\ UNCHANGED <<kind, started, told, clients, wjob, left, child, seen, crashes, faults>>

(* Mutant: no recovery when the worker starts.                             *)
StartWorkerNoRecovery(w) ==
  /\ wpc[w] = "down"
  /\ Goto(w, "idle")
  /\ UNCHANGED <<rows, told, clients, wjob, left, child, seen, crashes, faults>>

(* run_forever: recover_interrupted closes every active row, whoever is    *)
(* running it, and the polling loop starts.                                *)
StartWorker(w) ==
  /\ wpc[w] = "down"
  /\ status' = [j \in Jobs |-> IF status[j] \in Active THEN "cancelled" ELSE status[j]]
  /\ phase' = [j \in Jobs |-> IF status[j] \in Active THEN "Cancelled" ELSE phase[j]]
  /\ Goto(w, "idle")
  /\ UNCHANGED <<kind, started, told, clients, wjob, left, child, seen, crashes, faults>>

(* Mutant: no ORDER BY created_at.                                         *)
ClaimAny(w) ==
  /\ wpc[w] = "idle"
  /\ \E j \in Jobs :
       /\ j \in InStatus({"queued"})
       /\ status' = [status EXCEPT ![j] = "running"]
       /\ phase' = [phase EXCEPT ![j] = "Starting"]
       /\ started' = [started EXCEPT ![j] = TRUE]
       /\ Load(w, j, MaxCalls)
  /\ Goto(w, "run")
  /\ UNCHANGED <<kind, told, clients, crashes, faults>>

(* Mutant: the candidate is the oldest row never started.                  *)
ClaimUnstarted(w) ==
  /\ wpc[w] = "idle"
  /\ \E j \in Jobs :
       /\ First(j, {i \in InStatus({"queued", "cancelled"}) : ~ started[i]})
       /\ status' = [status EXCEPT ![j] = "running"]
       /\ phase' = [phase EXCEPT ![j] = "Starting"]
       /\ started' = [started EXCEPT ![j] = TRUE]
       /\ Load(w, j, MaxCalls)
  /\ Goto(w, "run")
  /\ UNCHANGED <<kind, told, clients, crashes, faults>>

(* next_queued: claim the oldest queued row in one statement.              *)
Claim(w) ==
  /\ wpc[w] = "idle"
  /\ \E j \in Jobs :
       /\ First(j, InStatus({"queued"}))
       /\ status' = [status EXCEPT ![j] = "running"]
       /\ phase' = [phase EXCEPT ![j] = "Starting"]
       /\ started' = [started EXCEPT ![j] = TRUE]
       /\ Load(w, j, MaxCalls)
  /\ Goto(w, "run")
  /\ UNCHANGED <<kind, told, clients, crashes, faults>>

(* A progress callback, first transaction, from inside the indexer's loop. *)
(* Its _CancelledError is not the class the indexer re-raises, so `except  *)
(* Exception` counts it as a failed file and the loop goes on.             *)
LoopCheck(w) ==
  /\ wpc[w] = "run"
  /\ JobKind(w) \in InLoop
  /\ left[w] > IF JobKind(w) \in Direct THEN 1 ELSE 0
  /\ left' = [left EXCEPT ![w] = @ - 1]
  /\ \/ /\ status[wjob[w]] = "cancelling"
        /\ seen' = [seen EXCEPT ![w] = TRUE]
        /\ UNCHANGED wpc
     \/ /\ status[wjob[w]] # "cancelling"
        /\ Goto(w, "loop")
        /\ UNCHANGED seen
  /\ UNCHANGED <<rows, told, clients, wjob, child, crashes, faults>>

(* The same outside any such loop: the exception reaches the worker.       *)
DirectCheck(w) ==
  /\ wpc[w] = "run"
  /\ JobKind(w) \in Direct
  /\ left[w] > 0
  /\ left' = [left EXCEPT ![w] = @ - 1]
  /\ \/ /\ status[wjob[w]] = "cancelling"
        /\ seen' = [seen EXCEPT ![w] = TRUE]
        /\ Goto(w, "cancel")
     \/ /\ status[wjob[w]] # "cancelling"
        /\ Goto(w, "direct")
        /\ UNCHANGED seen
  /\ UNCHANGED <<rows, told, clients, wjob, child, crashes, faults>>

(* Second transaction of a callback: update_progress, unconditional.       *)
WriteProgress(w) ==
  /\ \/ wpc[w] = "loop" /\ Goto(w, "run")
     \/ wpc[w] = "direct" /\ left[w] > 0 /\ Goto(w, "run")
     \/ wpc[w] = "direct" /\ Goto(w, "tail")
  /\ phase' = [phase EXCEPT ![wjob[w]] =
                 IF status[wjob[w]] = "deleted" THEN @ ELSE "Working"]
  /\ UNCHANGED <<status, kind, started, told, clients, wjob, left, child, seen,
                 crashes, faults>>

(* A synchronisation handler creating its next follow-up job.  The unique  *)
(* index may refuse it after the earlier ones were committed.              *)
Spawn(w) ==
  LET next == FollowUps[JobKind(w)] IN
  /\ wpc[w] = "spawn" \/ (wpc[w] = "run" /\ child[w] = 1 /\ left[w] > 0)
  /\ child[w] <= Len(next)
  /\ IF Refused(next[child[w]])
     THEN /\ Goto(w, "recheck")
          /\ UNCHANGED <<rows, child>>
     ELSE /\ CreateJob(next[child[w]])
          /\ child' = [child EXCEPT ![w] = @ + 1]
          /\ Goto(w, IF child[w] = Len(next) THEN "run" ELSE "spawn")
  /\ UNCHANGED <<told, clients, wjob, left, seen, crashes, faults>>

(* The handler returns: after its last callback, or with none at all.      *)
Return(w) ==
  /\ wpc[w] = "tail" \/ (wpc[w] = "run" /\ JobKind(w) \notin Direct)
  /\ Goto(w, "done")
  /\ UNCHANGED <<rows, told, clients, wjob, left, child, seen, crashes, faults>>

(* The handler raises anything but the worker's own _CancelledError.       *)
Raise(w) ==
  /\ wpc[w] \in {"run", "tail"}
  /\ Goto(w, "recheck")
  /\ UNCHANGED <<rows, told, clients, wjob, left, child, seen, crashes, faults>>

SetDone(w) ==
  /\ wpc[w] = "done"
  /\ Finish(wjob[w], "done", "Complete")
  /\ Goto(w, "tellDone")
  /\ UNCHANGED <<told, clients, wjob, left, child, seen, crashes, faults>>

(* Mutant: the cancelled branch falls through to the success notification. *)
SetCancelledFallsThrough(w) ==
  /\ wpc[w] = "cancel"
  /\ Finish(wjob[w], "cancelled", "Cancelled")
  /\ Goto(w, "tellDone")
  /\ Keep
  /\ UNCHANGED <<told, clients, crashes, faults>>

SetCancelled(w) ==
  /\ wpc[w] = "cancel"
  /\ Finish(wjob[w], "cancelled", "Cancelled")
  /\ Leave(w, "idle")
  /\ UNCHANGED <<told, clients, crashes, faults>>

(* The general exception handler asks is_cancel_requested first.           *)
Recheck(w) ==
  /\ wpc[w] = "recheck"
  /\ Goto(w, IF status[wjob[w]] = "cancelling" THEN "cancel" ELSE "fail")
  /\ UNCHANGED <<rows, told, clients, wjob, left, child, seen, crashes, faults>>

SetFailed(w) ==
  /\ wpc[w] = "fail"
  /\ Finish(wjob[w], "failed", "Failed")
  /\ Goto(w, "tellFailed")
  /\ UNCHANGED <<told, clients, wjob, left, child, seen, crashes, faults>>

(* notify_job_success, notify_job_failure: after the final status, in a    *)
(* transaction of their own.                                               *)
Notify(w) ==
  /\ wpc[w] \in {"tellDone", "tellFailed"}
  /\ told' = [told EXCEPT ![wjob[w]] =
                @ \cup {IF wpc[w] = "tellDone" THEN "done" ELSE "failed"}]
  /\ Leave(w, "idle")
  /\ UNCHANGED <<rows, clients, crashes, faults>>

-----------------------------------------------------------------------------
(* Failures.                                                               *)

Crash(w) ==
  /\ wpc[w] # "down"
  /\ crashes < MaxCrashes
  /\ crashes' = crashes + 1
  /\ Leave(w, "down")
  /\ UNCHANGED <<rows, told, clients, faults>>

(* A database call of the worker raises.  Inside the indexer's loop it is  *)
(* one more failed file; elsewhere in the handler, and in set_done, it     *)
(* reaches the general exception handler, with the update committed or     *)
(* not; in an exception handler it escapes to _worker_loop, which backs    *)
(* off and polls on; a notification is lost.                               *)
DatabaseFault(w) ==
  /\ faults < MaxFaults
  /\ faults' = faults + 1
  /\ \/ wpc[w] = "loop" /\ Goto(w, "run") /\ Keep /\ UNCHANGED rows
     \/ /\ wpc[w] \in {"direct", "spawn", "done"}
        /\ Goto(w, "recheck") /\ Keep /\ UNCHANGED rows
     \/ /\ wpc[w] = "done"
        /\ Goto(w, "recheck") /\ Keep /\ Finish(wjob[w], "done", "Complete")
     \/ /\ wpc[w] \in {"cancel", "recheck", "fail", "tellDone", "tellFailed"}
        /\ Leave(w, "idle") /\ UNCHANGED rows
  /\ UNCHANGED <<told, clients, crashes>>

-----------------------------------------------------------------------------
Work(w) ==
  \/ StartWorker(w) \/ Claim(w)
  \/ LoopCheck(w) \/ DirectCheck(w) \/ WriteProgress(w) \/ Spawn(w)
  \/ Return(w) \/ Raise(w)
  \/ SetDone(w) \/ SetCancelled(w) \/ Recheck(w) \/ SetFailed(w) \/ Notify(w)

Next ==
  \/ \E c \in Clients, k \in Kinds : SubmitLook(c, k)
  \/ \E c \in Clients : SubmitInsert(c)
  \/ \E j \in Jobs : RequestCancel(j) \/ DeleteJob(j)
  \/ \E w \in Workers : Work(w) \/ Crash(w) \/ DatabaseFault(w)

Spec == Init /\ [][Next]_vars

(* docker-compose restarts the worker container, and the loop polls every  *)
(* two seconds.  Nobody is obliged to submit, cancel or delete.            *)
FairSpec == Spec /\ \A w \in Workers : WF_vars(Work(w))

-----------------------------------------------------------------------------
(* Properties.                                                             *)

(* The columns and the workers' locals hold the values the code gives them. *)
TypeOK ==
  /\ status \in [Jobs -> Statuses]
  /\ phase \in [Jobs -> {"none", "Queued", "Starting", "Working", "Complete",
                         "Failed", "Cancelling", "Cancelled"}]
  /\ kind \in [Jobs -> Kinds \cup {"none"}]
  /\ started \in [Jobs -> BOOLEAN]
  /\ told \in [Jobs -> SUBSET {"done", "failed"}]
  /\ cpc \in [Clients -> {"idle", "insert"}]
  /\ want \in [Clients -> Kinds \cup {"none"}]
  /\ wpc \in [Workers -> Steps]
  /\ wjob \in [Workers -> Jobs \cup {0}]
  /\ left \in [Workers -> Nat]
  /\ child \in [Workers -> Nat \ {0}]
  /\ seen \in [Workers -> BOOLEAN]
  /\ crashes \in Nat /\ faults \in Nat

(* "SKIP LOCKED permits multiple Gunicorn worker threads to poll safely    *)
(* without executing the same row" (next_queued): no two workers ever      *)
(* execute the same job, whatever restarts, cancellations and recoveries   *)
(* happen in between.                                                      *)
NoSharedJob ==
  \A v, w \in Workers : Busy(v) /\ Busy(w) /\ wjob[v] = wjob[w] => v = w

(* With one worker process, a row says running or cancelling only while    *)
(* that process executes it, or while the process is down: no job is left  *)
(* active with nobody working on it.                                       *)
ActiveIsOwned ==
  \A j \in Jobs, w \in Workers :
    status[j] \in Active /\ wpc[w] # "down" => Busy(w) /\ wjob[w] = j

PhaseOf == [done |-> "Complete", failed |-> "Failed", cancelled |-> "Cancelled"]

(* A finished row shows the phase of its status, and its submitter was     *)
(* told nothing else: no late progress callback or notification disagrees  *)
(* with the final status.                                                  *)
SettledRowAgrees ==
  \A j \in InStatus(Final) : phase[j] = PhaseOf[status[j]] /\ told[j] \subseteq {status[j]}

(* A job withdrawn while it was still queued is never run afterwards.      *)
WithdrawnNeverRuns ==
  [][\A j \in Jobs : status[j] \in {"cancelled", "deleted"} /\ ~ started[j] => ~ started'[j]]_vars

(* A final status is only ever overwritten by the worker that had claimed  *)
(* the job (a worker declared dead too early, or one whose commit failed   *)
(* late), never by a request handler or by another worker.                 *)
OnlyOwnerRewrites ==
  [][\A j \in InStatus(Final) :
       status'[j] \in {status[j], "deleted"}
         \/ \E w \in Workers : Busy(w) /\ wjob[w] = j]_vars

(* With one worker and no database failures the table is the queue the     *)
(* abstract specification describes.                                       *)
Lifecycle == INSTANCE JobLifecycle WITH MaxJobs <- MaxJobs, status <- status
LifecycleSpec == Lifecycle!Spec

(* Every job that is queued is, sooner or later, finished or removed.      *)
EveryJobSettles ==
  \A j \in Jobs : status[j] = "queued" ~> status[j] \in Final \cup {"deleted"}

(* The docstring of _make_progress_callback: it "checks cancellation".  A  *)
(* job whose callback has found the flag and raised does not end as done.  *)
SeenCancelStops ==
  [][\A w \in Workers : Busy(w) /\ seen[w] => status'[wjob[w]] # "done"]_vars
=============================================================================
