------------------------------ MODULE RepoIndex ------------------------------
(***************************************************************************)
(* How the search index of one repository follows its remote: the mirror   *)
(* checkout (context/ingestion.py), the synchronisation and generation     *)
(* jobs (context/job_worker.py), the per-file pipeline                     *)
(* (context/indexer.py) over the ctx_ tables (context/db.py), and those    *)
(* who queue such jobs (context/routes.py, routes/jobs_system.py,          *)
(* context/periodic_runner.py).                                            *)
(*                                                                         *)
(* JobQueue models the queue itself; here it is a sequence served by one   *)
(* worker.  A file's content is the number of the commit that last changed *)
(* it, 0 when there is no such file; it stands for the mtime too, since a  *)
(* checkout rewrites exactly the files that changed.                       *)
(***************************************************************************)
EXTENDS Naturals, Sequences, SequencesExt

CONSTANTS
  Files,        \* tracked source files
  MaxCommits,   \* bound on the commits of the remote branch
  UserKinds,    \* the jobs users queue for the repository
  MaxSubmits,   \* bound on the jobs users queue
  MaxFailures   \* bound on crashes, withdrawals, and failing jobs and files

ASSUME RepoConstantsAssumption ==
  /\ MaxCommits \in Nat \ {0} /\ MaxSubmits \in Nat
  /\ MaxFailures \in Nat
  /\ UserKinds \subseteq {"sync", "index", "ast", "lst", "graph"}

VARIABLES
  hist,             \* the remote branch: the tree of every commit
  head, disk,       \* the checkout: HEAD (0: none yet) and the working tree
  store,            \* ctx_files.mtime_ns, ctx_chunks, ctx_ast_nodes and
                    \* ctx_lossless_trees: the version each was made from
  repoStatus, indexedAt,    \* ctx_repos
  queue,            \* jobs waiting, oldest first
  job, step,        \* the job being run and where it is
  before, known,    \* a sync's locals: head_before, is_indexed
  todo, hand, ops,  \* a generation job's: files left, file in hand, writes left
  child,            \* number of the next follow-up job
  lost,             \* history: files whose pending work was dropped
  outrun,           \* history: files whose row a structural job made current
                    \* while their chunks were old
  due,              \* the periodic runner is about to queue a sync
  submits, failures

checkout == <<head, disk>>
repo     == <<repoStatus, indexedAt>>
locals   == <<before, known, todo, hand, ops, child>>
bounds   == <<submits, failures>>
history  == <<lost, outrun>>
vars     == <<hist, checkout, store, repo, queue, job, step, locals, history, due, bounds>>

Parts   == {"row", "chunks", "ast", "lst"}
Kinds   == {"initial", "sync", "index", "ast", "lst", "graph"}
Version == 0..MaxCommits
Tree    == [Files -> Version]

Job(k, d, u, x) == [kind |-> k, diff |-> d, upd |-> u, del |-> x]
Full(k) == Job(k, FALSE, {}, {})
NoJob   == Full("none")

Remote      == Len(hist)
Present(t)  == {f \in Files : t[f] # 0}
TreeAt(c)   == IF c = 0 THEN [f \in Files |-> 0] ELSE hist[c]

(* get_git_diff_files between two commits, without renames: added or       *)
(* modified files, and deleted ones.  Between equal commits it lists the   *)
(* working tree's drift, and a mirror that was just reset has none.        *)
Updated(a, b) == {f \in Present(TreeAt(b)) : TreeAt(a)[f] # TreeAt(b)[f]}
Deleted(a, b) == Present(TreeAt(a)) \ Present(TreeAt(b))
Changed(a, b) == Updated(a, b) \cup Deleted(a, b)

(* Files that no interrupted reset has left behind HEAD and no waiting job *)
(* is still to remove: indexing these makes good what was dropped.         *)
Settled ==
  {f \in Files : /\ disk[f] = TreeAt(head)[f]
                 /\ \A i \in 1..Len(queue) :
                      queue[i].kind = "index" /\ queue[i].diff => f \notin queue[i].del}

QueuedOrRunning(k) ==
  job.kind = k \/ \E i \in 1..Len(queue) : queue[i].kind = k

(* The files a job will bring up to date in the search index, when it has  *)
(* not begun.                                                              *)
Scope(j) ==
  IF j.kind = "initial" \/ (j.kind = "index" /\ ~ j.diff) THEN Files
  ELSE IF j.kind = "index" THEN j.upd \cup j.del
  ELSE {}

(* What the running job still answers for.                                 *)
InHand ==
  IF job.kind = "sync"
    THEN IF step \in {"reset", "decide"} \/ (step = "spawn" /\ child = 1)
           THEN Changed(before, head) ELSE {}
  ELSE IF job.kind = "index" /\ step = "files" THEN todo \cup hand
  ELSE IF job.kind = "initial" /\ step = "spawn" /\ child > 1 THEN {}
  ELSE Scope(job)

Init ==
  /\ hist = <<[f \in Files |-> 1]>>
  /\ head = 0
  /\ disk = [f \in Files |-> 0]
  /\ store = [f \in Files |-> [p \in Parts |-> 0]]
  /\ repoStatus = "added"
  /\ indexedAt = FALSE
  /\ queue = <<Full("initial")>>
  /\ job = NoJob
  /\ step = "idle"
  /\ before = 0
  /\ known = FALSE
  /\ todo = {}
  /\ hand = {}
  /\ ops = <<>>
  /\ child = 1
  /\ lost = {}
  /\ outrun = {}
  /\ due = FALSE
  /\ submits = 0
  /\ failures = 0

-----------------------------------------------------------------------------
(* The remote, and those who queue jobs.                                   *)

PushCommit ==
  /\ Remote < MaxCommits
  /\ \E S \in (SUBSET Files) \ {{}} : \E D \in SUBSET S :
       /\ D \subseteq Present(hist[Remote])
       /\ hist' = Append(hist, [f \in Files |-> IF f \in D THEN 0
                                              ELSE IF f \in S THEN Remote + 1
                                              ELSE hist[Remote][f]])
  /\ UNCHANGED <<checkout, store, repo, queue, job, step, locals, history, due, bounds>>

(* The refresh, differential-sync, index, ast, lst and graph endpoints.    *)
SubmitJob(k) ==
  /\ head # 0
  /\ submits < MaxSubmits
  /\ ~ QueuedOrRunning(k)
  /\ queue' = Append(queue, Full(k))
  /\ submits' = submits + 1
  /\ UNCHANGED <<hist, checkout, store, repo, job, step, locals, history, due, failures>>

(* _execute_sync_pass_for_all_repos, first transaction: nothing active for *)
(* the repository; then the insert.                                        *)
PeriodicLook ==
  /\ head # 0 /\ ~ due
  /\ \A k \in Kinds : ~ QueuedOrRunning(k)
  /\ due' = TRUE
  /\ UNCHANGED <<hist, checkout, store, repo, queue, job, step, locals, history, bounds>>

PeriodicInsert ==
  /\ due
  /\ due' = FALSE
  /\ queue' = Append(queue, Full("sync"))
  /\ UNCHANGED <<hist, checkout, store, repo, job, step, locals, history, bounds>>

(* The newest queued job of a kind, which find_active returns; none has    *)
(* no position.                                                            *)
Newest(q, k) ==
  {i \in 1..Len(q) : q[i].kind = k /\ \A n \in 1..Len(q) : q[n].kind = k => n <= i}

WithoutNewest(q, k) ==
  IF Newest(q, k) = {} THEN q ELSE RemoveAt(q, CHOOSE i \in Newest(q, k) : TRUE)

Dropped(q, k) == UNION {Scope(q[i]) : i \in Newest(q, k)}

(* The cancel endpoint, for a queued job.                                  *)
CancelQueued(i) ==
  /\ failures < MaxFailures
  /\ failures' = failures + 1
  /\ queue' = RemoveAt(queue, i)
  /\ lost' = lost \cup Scope(queue[i])
  /\ UNCHANGED <<hist, checkout, store, repo, job, step, locals, outrun, due, submits>>

(* stop_indexing: withdraws the newest queued job of each kind it knows    *)
(* and resets the status.  A running one only has its flag raised, which   *)
(* its per-file loop swallows.                                             *)
StopIndexing ==
  /\ failures < MaxFailures
  /\ failures' = failures + 1
  /\ LET noIndex == WithoutNewest(queue, "index")
         noAst   == WithoutNewest(noIndex, "ast") IN
     /\ queue' = WithoutNewest(noAst, "initial")
     /\ lost' = lost \cup Dropped(queue, "index") \cup Dropped(noAst, "initial")
  /\ repoStatus' = "added"
  /\ UNCHANGED <<hist, checkout, store, indexedAt, job, step, locals, outrun, due, submits>>

-----------------------------------------------------------------------------
(* The worker.                                                             *)

ClaimJob ==
  /\ step = "idle"
  /\ queue # <<>>
  /\ job' = Head(queue)
  /\ queue' = Tail(queue)
  /\ step' = "start"
  /\ UNCHANGED <<hist, checkout, store, repo, locals, history, due, bounds>>

EndJob ==
  /\ job' = NoJob /\ step' = "idle"
  /\ before' = 0 /\ known' = FALSE
  /\ todo' = {} /\ hand' = {} /\ ops' = <<>>
  /\ child' = 1

(* _run_initial_repo_sync: clone into a temporary directory, rename.       *)
CloneRepo ==
  /\ job.kind = "initial" /\ step = "start"
  /\ head' = Remote
  /\ disk' = hist[Remote]
  /\ repoStatus' = "ready"
  /\ step' = "spawn"
  /\ UNCHANGED <<hist, store, indexedAt, queue, job, locals, history, due, bounds>>

(* Mutant: head_before is read after the branch has moved.                 *)
RefreshHeadReadsLate ==
  /\ job.kind = "sync" /\ step = "start"
  /\ before' = Remote
  /\ known' = (indexedAt \/ repoStatus \in {"indexed", "ast_only"})
  /\ head' = Remote
  /\ step' = IF head = Remote /\ disk = hist[head] THEN "decide" ELSE "reset"
  /\ UNCHANGED <<hist, disk, store, repo, queue, job, todo, hand, ops, child, history, due, bounds>>

(* _run_differential_sync up to RepositorySyncService.update moving the    *)
(* branch: nothing to do when HEAD is the remote's and there is no drift.  *)
RefreshHead ==
  /\ job.kind = "sync" /\ step = "start"
  /\ before' = head
  /\ known' = (indexedAt \/ repoStatus \in {"indexed", "ast_only"})
  /\ head' = Remote
  /\ step' = IF head = Remote /\ disk = hist[head] THEN "decide" ELSE "reset"
  /\ UNCHANGED <<hist, disk, store, repo, queue, job, todo, hand, ops, child, history, due, bounds>>

(* update, second half: hard reset and clean.  Drift that an interrupted   *)
(* reset left behind (lost) goes away too, but is not part of the diff.    *)
ResetTree ==
  /\ step = "reset"
  /\ disk' = hist[head]
  /\ step' = "decide"
  /\ UNCHANGED <<hist, head, store, repo, queue, job, locals, history, due, bounds>>

(* Same hash on an indexed project, or no changed file: nothing is queued. *)
DecideSync ==
  /\ step = "decide"
  /\ IF (before = head /\ known) \/ Changed(before, head) = {}
     THEN EndJob
     ELSE step' = "spawn" /\ UNCHANGED <<job, locals>>
  /\ UNCHANGED <<hist, checkout, store, repo, queue, history, due, bounds>>

FollowUp == <<"index", "ast", "lst", "graph">>

(* One create_job of the four; a second structural job is refused by the   *)
(* unique index, and the exception ends the handler.                       *)
SpawnChild ==
  LET k == FollowUp[child]
      refused == k = "graph" /\ QueuedOrRunning("graph") IN
  /\ step = "spawn"
  /\ queue' = IF refused THEN queue
              ELSE Append(queue, IF job.kind = "initial" THEN Full(k)
                                 ELSE Job(k, TRUE, Updated(before, head), Deleted(before, head)))
  /\ IF child = Len(FollowUp)
     THEN EndJob
     ELSE child' = child + 1 /\ UNCHANGED <<job, step, before, known, todo, hand, ops>>
  /\ UNCHANGED <<hist, checkout, store, repo, history, due, bounds>>

Wiped(S, P) ==
  [f \in Files |-> IF f \in S THEN [p \in Parts |-> IF p \in P THEN 0 ELSE store[f][p]]
                  ELSE store[f]]

(* What a generation job removes before it looks at the files: all data of *)
(* its kind, or, differentially, that of deleted files, whose rows an      *)
(* index job deletes with everything that hangs on them.                   *)
FirstWipe ==
  CASE job.kind = "index" -> IF job.diff THEN Wiped(job.del, Parts)
                             ELSE Wiped(Files, {"chunks", "ast"})
    [] job.kind = "ast"   -> Wiped(IF job.diff THEN job.del ELSE Files, {"ast"})
    [] OTHER              -> Wiped(IF job.diff THEN job.del ELSE Files, {"lst"})

BeginFiles ==
  /\ job.kind \in {"index", "ast", "lst", "graph"} /\ step = "start"
  /\ store' = FirstWipe
  /\ todo' = IF job.diff THEN job.upd ELSE Present(disk)
  /\ repoStatus' = IF job.kind = "index" THEN "indexing" ELSE repoStatus
  /\ lost' = lost \ {f \in (Scope(job) \ job.upd) \cap Settled : job.diff => disk[f] = 0}
  /\ step' = "files"
  /\ UNCHANGED <<hist, checkout, indexedAt, queue, job, before, known, hand, ops, child, outrun, due, bounds>>

Fill(P) == [parts |-> P, wipe |-> FALSE]
Wipe(P) == [parts |-> P, wipe |-> TRUE]

(* The transactions of one file: the upserted row, then, differentially,   *)
(* the removal of its old data, then the new.                              *)
Writes(j) ==
  LET row == Fill({"row"})  lst == Fill({"lst"})  ast == Fill({"ast"})  chunks == Fill({"chunks"}) IN
  IF j.kind = "index"
    THEN IF j.diff THEN <<row, Wipe({"chunks", "ast", "lst"}), lst, ast, chunks>>
         ELSE <<row, lst, ast, chunks>>
  ELSE IF j.kind = "ast"
    THEN IF j.diff THEN <<row, Wipe({"ast", "lst"}), lst, ast>> ELSE <<row, lst, ast>>
  ELSE IF j.diff THEN <<row, Wipe({"lst"}), lst>> ELSE <<row, lst>>

(* Mutant: a full index passes over them as well.                          *)
UnchangedAnyIndex(f) == job.kind = "index" /\ store[f]["row"] = disk[f]

(* A differential index passes over a file whose row has its mtime; every  *)
(* job passes over a file that is gone.                                    *)
Unchanged(f) == job.kind = "index" /\ job.diff /\ store[f]["row"] = disk[f]

TakeFile(f) ==
  /\ step = "files" /\ hand = {} /\ f \in todo
  /\ todo' = todo \ {f}
  /\ IF disk[f] = 0 \/ Unchanged(f)
     THEN UNCHANGED <<hand, ops>>
     ELSE hand' = {f} /\ ops' = Writes(job)
  /\ UNCHANGED <<hist, checkout, store, repo, queue, job, step, before, known, child, history, due, bounds>>

WriteFile(f) ==
  /\ step = "files" /\ hand = {f}
  /\ store' = [store EXCEPT ![f] =
                 [p \in Parts |-> IF p \notin Head(ops).parts THEN @[p]
                                 ELSE IF Head(ops).wipe THEN 0 ELSE disk[f]]]
  /\ ops' = Tail(ops)
  /\ hand' = IF Len(ops) = 1 THEN {} ELSE hand
  /\ lost' = IF Head(ops) = Fill({"chunks"}) THEN lost \ ({f} \cap Settled) ELSE lost
  /\ outrun' = IF Head(ops) = Fill({"chunks"}) THEN outrun \ {f}
               ELSE IF job.kind # "index" /\ Head(ops) = Fill({"row"}) /\ store[f]["chunks"] # disk[f]
                 THEN outrun \cup {f} ELSE outrun
  /\ UNCHANGED <<hist, checkout, repo, queue, job, step, before, known, todo, child, due, bounds>>

EndFiles ==
  /\ step = "files" /\ todo = {} /\ hand = {}
  /\ EndJob
  /\ indexedAt' = (indexedAt \/ job.kind = "index")
  /\ repoStatus' = IF job.kind = "index" THEN "indexed"
                   ELSE IF job.kind = "ast" /\ ~ job.diff THEN "ast_only" ELSE repoStatus
  /\ UNCHANGED <<hist, checkout, store, queue, history, due, bounds>>

-----------------------------------------------------------------------------
(* Failures.                                                               *)

(* Reading, parsing or embedding one file raises: it is counted and the    *)
(* loop goes on.                                                           *)
FileFails(f) ==
  /\ step = "files" /\ hand = {f}
  /\ failures < MaxFailures
  /\ failures' = failures + 1
  /\ hand' = {} /\ ops' = <<>>
  /\ lost' = lost \cup (InHand \cap {f})
  /\ UNCHANGED <<hist, checkout, store, repo, queue, job, step, before, known, todo, child, outrun, due, submits>>

(* The handler raises: a cancellation seen at a callback, a failed fetch,  *)
(* a graph bridge error, a model that does not load.                       *)
JobStops ==
  /\ step # "idle" /\ hand = {}
  /\ failures < MaxFailures
  /\ failures' = failures + 1
  /\ EndJob
  /\ lost' = lost \cup InHand
  /\ repoStatus' = IF job.kind = "index" /\ step = "files" THEN "error" ELSE repoStatus
  /\ UNCHANGED <<hist, checkout, store, indexedAt, queue, outrun, due, submits>>

(* The worker dies and is restarted; recover_interrupted closes the job.   *)
Crash ==
  /\ step # "idle"
  /\ failures < MaxFailures
  /\ failures' = failures + 1
  /\ EndJob
  /\ lost' = lost \cup InHand
  /\ UNCHANGED <<hist, checkout, store, repo, queue, outrun, due, submits>>

-----------------------------------------------------------------------------
Worker ==
  \/ ClaimJob \/ CloneRepo \/ RefreshHead \/ ResetTree \/ DecideSync \/ SpawnChild
  \/ BeginFiles \/ EndFiles
  \/ \E f \in Files : TakeFile(f) \/ WriteFile(f)

Next ==
  \/ PushCommit \/ PeriodicLook \/ PeriodicInsert \/ StopIndexing
  \/ \E k \in UserKinds : SubmitJob(k)
  \/ \E i \in 1..Len(queue) : CancelQueued(i)
  \/ Worker
  \/ JobStops \/ Crash
  \/ \E f \in Files : FileFails(f)

Spec == Init /\ [][Next]_vars

(* The worker polls every two seconds and is restarted when it dies; the   *)
(* periodic runner comes round every two hours.                            *)
FairSpec == Spec /\ WF_vars(Worker) /\ WF_vars(PeriodicLook \/ PeriodicInsert)

-----------------------------------------------------------------------------
(* Properties.                                                             *)

TypeOK ==
  /\ hist \in Seq(Tree) /\ Len(hist) \in 1..MaxCommits
  /\ head \in 0..Len(hist) /\ before \in 0..Len(hist)
  /\ disk \in Tree
  /\ store \in [Files -> [Parts -> Version]]
  /\ repoStatus \in {"added", "ready", "indexing", "indexed", "ast_only", "error"}
  /\ indexedAt \in BOOLEAN /\ known \in BOOLEAN
  /\ queue \in Seq([kind : Kinds, diff : BOOLEAN, upd : SUBSET Files, del : SUBSET Files])
  /\ job \in [kind : Kinds \cup {"none"}, diff : BOOLEAN, upd : SUBSET Files, del : SUBSET Files]
  /\ step \in {"idle", "start", "reset", "decide", "spawn", "files"}
  /\ todo \subseteq Files /\ hand \subseteq Files
  /\ lost \subseteq Files /\ outrun \subseteq Files
  /\ ops \in Seq([parts : SUBSET Parts, wipe : BOOLEAN])
  /\ child \in 1..Len(FollowUp)
  /\ due \in BOOLEAN /\ submits \in 0..MaxSubmits /\ failures \in 0..MaxFailures

(* Work some job, queued or running, will do on the search index.          *)
Pending == InHand \cup UNION {Scope(queue[i]) : i \in 1..Len(queue)}

(* A file whose chunks are not those of the working tree is in the scope   *)
(* of a job that is still to index it, unless a failure or a user dropped  *)
(* that job or a structural job outran it: by writing the new mtime to the *)
(* file's row it makes the differential index job that comes after pass    *)
(* over the file (_generate_file_ast and index_repository).  No other      *)
(* interleaving of synchronisations, follow-ups and full indexing jobs     *)
(* forgets a change, and a full index makes good whatever was dropped      *)
(* before it.                                                              *)
StaleIsPending ==
  \A f \in Files : store[f]["chunks"] # disk[f] => f \in lost \cup outrun \cup Pending

(* Once the remote rests, every file's chunks become and remain those of   *)
(* its last commit, but for files whose work was dropped or outrun.        *)
EventuallyFresh ==
  <>[](\A f \in Files : store[f]["chunks"] = hist[Remote][f] \/ f \in lost \cup outrun)
=============================================================================
