---------------------------- MODULE JobLifecycle ----------------------------
(***************************************************************************)
(* What the jobs table promises to the people who submit jobs, with the    *)
(* worker, its crashes and its database round trips hidden: a job is       *)
(* queued once, jobs start one at a time and oldest first, a running job   *)
(* ends in exactly one final status, and a final status only ever changes  *)
(* by the row being deleted.  JobQueue, run with one worker process and no *)
(* database failures, is shown to implement it.                            *)
(***************************************************************************)
EXTENDS Naturals

CONSTANT MaxJobs      \* bound on the number of jobs ever submitted

VARIABLE status       \* jobs.status, by job; a job's number is its place in
                      \* created_at order

Jobs   == 1..MaxJobs
Final  == {"done", "failed", "cancelled"}
Active == {"running", "cancelling"}

Init == status = [j \in Jobs |-> "unborn"]

(* Numbers are given out in order.                                         *)
Submit(j) ==
  /\ status[j] = "unborn"
  /\ \A k \in Jobs : status[k] = "unborn" => j <= k
  /\ status' = [status EXCEPT ![j] = "queued"]

(* The oldest queued job starts, and only when no other job is active.     *)
Start(j) ==
  /\ status[j] = "queued"
  /\ \A k \in Jobs : status[k] = "queued" => j <= k
  /\ \A k \in Jobs : status[k] \notin Active
  /\ status' = [status EXCEPT ![j] = "running"]

Withdraw(j) ==
  /\ status[j] = "queued"
  /\ status' = [status EXCEPT ![j] = "cancelled"]

AskToStop(j) ==
  /\ status[j] = "running"
  /\ status' = [status EXCEPT ![j] = "cancelling"]

Settle(j) ==
  /\ status[j] \in Active
  /\ \E s \in Final : status' = [status EXCEPT ![j] = s]

Forget(j) ==
  /\ status[j] \in Final
  /\ status' = [status EXCEPT ![j] = "deleted"]

Next ==
  \E j \in Jobs :
    \/ Submit(j)
    \/ Start(j)
    \/ Withdraw(j)
    \/ AskToStop(j)
    \/ Settle(j)
    \/ Forget(j)

Spec == Init /\ [][Next]_status
=============================================================================
