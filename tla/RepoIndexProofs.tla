-------------------------- MODULE RepoIndexProofs --------------------------
(***************************************************************************)
(* Theorems about the search index of a repository, for any number of      *)
(* files, commits, jobs and failures.                                      *)
(*                                                                         *)
(* The argument: versions only grow along the branch, so a row that bears  *)
(* the file's present mtime was written from the present working tree      *)
(* (RowBehind), and such a row over old chunks is a file being indexed,    *)
(* lost or outrun (RowFresh).  A differential index job would leave a file *)
(* behind when the file came back after the job was queued to remove it,   *)
(* or went after it was queued to index it; then the sync that saw the     *)
(* change still answers for the file, or has queued a later job that does  *)
(* (QueueCovers, StartCovers, FilesCover).  Every other stale file is in   *)
(* the hands of a job that writes its chunks last (HandWrites).            *)
(***************************************************************************)
EXTENDS RepoIndex, SequenceTheorems, TLAPS

Chunks(f) == store[f]["chunks"]
Row(f)    == store[f]["row"]
IndexKinds == {"index", "ast", "lst", "graph"}

(* Which jobs are at which steps, and which locals they have there.        *)
JobSteps ==
  /\ job.kind = "none" => step = "idle"
  /\ step = "idle" => job = NoJob
  /\ step \in {"reset", "decide"} => job.kind = "sync"
  /\ step = "spawn" => job.kind \in {"initial", "sync"}
  /\ step \in {"reset", "decide", "spawn"} => head # 0
  /\ step = "files" => job.kind \in IndexKinds
  /\ step # "spawn" => child = 1
  /\ step # "files" => todo = {} /\ hand = {}

(* A file in hand exists; an index job's last transaction fills its chunks *)
(* and a structural job's leave them alone; rows are filled on their own.  *)
HandWrites ==
  /\ hand = {} \/ \E f \in Files : hand = {f} /\ disk[f] # 0
  /\ hand # {} =>
       /\ ops # <<>>
       /\ job.kind = "index" => ops[Len(ops)] = Fill({"chunks"})
       /\ job.kind # "index" => \A n \in 1..Len(ops) : "chunks" \notin ops[n].parts
       /\ \A n \in 1..Len(ops) : "row" \in ops[n].parts => ops[n] = Fill({"row"})

(* A commit's files are of that commit or as they were before it.          *)
Commits ==
  \A b \in 1..Len(hist) : \A f \in Files :
    /\ hist[b][f] <= b
    /\ \A a \in 1..b : hist[b][f] \in {hist[a][f], 0} \/ hist[b][f] > a

(* The working tree is that of a commit, and no row is ahead of it.        *)
RowBehind == \E d \in 0..head : disk = TreeAt(d) /\ \A f \in Files : Row(f) <= d

(* Where the working tree is not what HEAD, or the HEAD a reset started    *)
(* from, says, a reset was interrupted and the files are lost.             *)
Drift ==
  \A f \in Files : disk[f] # TreeAt(IF step = "reset" THEN before ELSE head)[f] => f \in lost

(* What a running sync or clone has yet to queue.                          *)
Owed == IF job.kind \in {"sync", "initial"} THEN InHand ELSE {}

(* A job after position i of the queue takes the file up.                  *)
Later(q, i, f) == \E k \in (i + 1)..Len(q) : f \in Scope(q[k])

(* The differential index job would leave the file other than it is: it    *)
(* removes a file that is back, or passes over one that is gone.           *)
Misses(j, f) ==
  /\ j.kind = "index" /\ j.diff
  /\ \/ f \in j.del /\ disk[f] # 0
     \/ f \in j.upd /\ disk[f] = 0 /\ Chunks(f) # 0

(* Whatever a waiting, starting or running job would leave behind is lost, *)
(* or somebody after it takes it up.                                       *)
QueueCovers ==
  \A i \in 1..Len(queue) : \A f \in Files :
    Misses(queue[i], f) => f \in lost \cup Owed \/ Later(queue, i, f)

StartCovers ==
  step = "start" =>
    \A f \in Files : Misses(job, f) => f \in lost \/ Later(queue, 0, f)

FilesCover ==
  step = "files" /\ job.kind = "index" =>
    \A f \in todo : disk[f] = 0 /\ Chunks(f) # 0 => f \in lost \/ Later(queue, 0, f)

(* Files the running index job writes the chunks of, whatever their rows.  *)
Making == IF job.kind = "index" /\ step = "files"
            THEN hand \cup (IF job.diff THEN {} ELSE todo) ELSE {}

(* A row of the present mtime over old chunks: what index_repository takes *)
(* for an unchanged file although it is not.                               *)
RowFresh ==
  \A f \in Files :
    disk[f] # 0 /\ Row(f) = disk[f] /\ Chunks(f) # disk[f] => f \in lost \cup outrun \cup Making

IInv ==
  /\ TypeOK /\ JobSteps /\ HandWrites /\ Commits /\ RowBehind /\ Drift
  /\ QueueCovers /\ StartCovers /\ FilesCover /\ RowFresh /\ StaleIsPending
-----------------------------------------------------------------------------
Jobs == [kind : Kinds, diff : BOOLEAN, upd : SUBSET Files, del : SUBSET Files]

(* r is q without some jobs, whose scopes are in D.                        *)
Shrinks(q, r, D) ==
  /\ r \in Seq(Jobs)
  /\ \A n \in 1..Len(r) : \E m \in 1..Len(q) :
       r[n] = q[m] /\ \A f \in Files : Later(q, m, f) => f \in D \/ Later(r, n, f)
  /\ \A f \in Files : Later(q, 0, f) => f \in D \/ Later(r, 0, f)

LEMMA RemoveFacts ==
  ASSUME NEW S, NEW q \in Seq(S), NEW i \in 1..Len(q)
  PROVE  /\ RemoveAt(q, i) \in Seq(S)
         /\ Len(RemoveAt(q, i)) = Len(q) - 1
         /\ \A n \in 1..(Len(q) - 1) : RemoveAt(q, i)[n] = IF n < i THEN q[n] ELSE q[n + 1]
<1> DEFINE a == SubSeq(q, 1, i - 1)  b == SubSeq(q, i + 1, Len(q))
<1>1. a \in Seq(S) /\ Len(a) = i - 1 /\ \A n \in 1..(i - 1) : a[n] = q[n]
  OBVIOUS
<1>2. b \in Seq(S) /\ Len(b) = Len(q) - i /\ \A n \in 1..(Len(q) - i) : b[n] = q[i + n]
  OBVIOUS
<1>3. RemoveAt(q, i) = a \o b
  BY DEF RemoveAt
<1> HIDE DEF a, b
<1>4. a \o b \in Seq(S) /\ Len(a \o b) = Len(q) - 1
  <2>1. a \o b \in Seq(S)
    BY <1>1, <1>2
  <2>2. Len(a \o b) = Len(a) + Len(b)
    BY <1>1, <1>2, ConcatProperties
  <2>3. Len(q) \in Nat /\ Len(a) = i - 1 /\ Len(b) = Len(q) - i
    BY <1>1, <1>2
  <2>4. Len(a \o b) = Len(q) - 1
    BY <2>2, <2>3
  <2> QED
    BY <2>1, <2>4
<1>5. ASSUME NEW n \in 1..(Len(q) - 1)
      PROVE  (a \o b)[n] = IF n < i THEN q[n] ELSE q[n + 1]
  <2>1. CASE n < i
    BY <1>1, <1>2, <2>1
  <2>2. CASE ~ (n < i)
    <3>1. n - (i - 1) \in 1..(Len(q) - i) /\ i + (n - (i - 1)) = n + 1
      BY <2>2
    <3>2. (a \o b)[n] = b[n - (i - 1)]
      BY <1>1, <1>2, <2>2
    <3> QED
      BY <1>2, <2>2, <3>1, <3>2
  <2> QED
    BY <2>1, <2>2
<1> QED
  BY <1>3, <1>4, <1>5

LEMMA RemoveShrinks ==
  ASSUME NEW q \in Seq(Jobs), NEW i \in 1..Len(q)
  PROVE  Shrinks(q, RemoveAt(q, i), Scope(q[i]))
<1> DEFINE r == RemoveAt(q, i)
<1>1. /\ r \in Seq(Jobs) /\ Len(r) = Len(q) - 1
      /\ \A n \in 1..(Len(q) - 1) : r[n] = IF n < i THEN q[n] ELSE q[n + 1]
  BY RemoveFacts
<1> HIDE DEF r
<1>2. ASSUME NEW m \in 0..Len(q), NEW n \in 0..Len(r),
             m < i => n = m, ~ (m < i) => n = m - 1,
             NEW f \in Files, Later(q, m, f)
      PROVE  f \in Scope(q[i]) \/ Later(r, n, f)
  <2>1. PICK k \in (m + 1)..Len(q) : f \in Scope(q[k])
    BY <1>2 DEF Later
  <2>2. CASE k = i
    BY <2>1, <2>2
  <2>3. CASE k < i
    <3>1. k \in (n + 1)..Len(r) /\ r[k] = q[k]
      BY <1>1, <1>2, <2>3
    <3> QED
      BY <2>1, <3>1 DEF Later
  <2>4. CASE k > i
    <3>1. k - 1 \in (n + 1)..Len(r) /\ r[k - 1] = q[k]
      BY <1>1, <1>2, <2>4
    <3> QED
      BY <2>1, <3>1 DEF Later
  <2> QED
    BY <2>2, <2>3, <2>4
<1>3. ASSUME NEW n \in 1..Len(r)
      PROVE  \E m \in 1..Len(q) :
               r[n] = q[m] /\ \A f \in Files : Later(q, m, f) => f \in Scope(q[i]) \/ Later(r, n, f)
  <2>1. CASE n < i
    <3>1. n \in 1..Len(q) /\ r[n] = q[n]
      BY <1>1, <2>1
    <3> QED
      BY <1>2, <2>1, <3>1
  <2>2. CASE ~ (n < i)
    <3>1. n + 1 \in 1..Len(q) /\ r[n] = q[n + 1] /\ ~ (n + 1 < i) /\ n = (n + 1) - 1
      BY <1>1, <2>2
    <3> QED
      BY <1>2, <2>2, <3>1
  <2> QED
    BY <2>1, <2>2
<1>4. \A f \in Files : Later(q, 0, f) => f \in Scope(q[i]) \/ Later(r, 0, f)
  BY <1>1, <1>2
<1> QED
  BY <1>1, <1>3, <1>4 DEF Shrinks, r

LEMMA ShrinksTwice ==
  ASSUME NEW q \in Seq(Jobs), NEW r, NEW s, NEW D, NEW E,
         Shrinks(q, r, D), Shrinks(r, s, E)
  PROVE  Shrinks(q, s, D \cup E)
<1>1. ASSUME NEW n \in 1..Len(s)
      PROVE  \E m \in 1..Len(q) :
               s[n] = q[m] /\ \A f \in Files : Later(q, m, f) => f \in D \cup E \/ Later(s, n, f)
  <2>1. PICK l \in 1..Len(r) :
          s[n] = r[l] /\ \A f \in Files : Later(r, l, f) => f \in E \/ Later(s, n, f)
    BY DEF Shrinks
  <2>2. PICK m \in 1..Len(q) :
          r[l] = q[m] /\ \A f \in Files : Later(q, m, f) => f \in D \/ Later(r, l, f)
    BY DEF Shrinks
  <2> QED
    BY <2>1, <2>2
<1> QED
  BY <1>1 DEF Shrinks

LEMMA WithoutShrinks ==
  ASSUME NEW q \in Seq(Jobs), NEW k
  PROVE  /\ WithoutNewest(q, k) \in Seq(Jobs)
         /\ Shrinks(q, WithoutNewest(q, k), Dropped(q, k))
<1>1. CASE Newest(q, k) = {}
  <2>1. WithoutNewest(q, k) = q
    BY <1>1 DEF WithoutNewest
  <2>2. Shrinks(q, q, Dropped(q, k))
    BY DEF Shrinks
  <2> QED
    BY <2>1, <2>2
<1>2. CASE Newest(q, k) # {}
  <2> DEFINE i == CHOOSE n \in Newest(q, k) : TRUE
  <2>1. i \in Newest(q, k)
    BY <1>2
  <2>2. i \in 1..Len(q)
    BY <2>1 DEF Newest
  <2>3. WithoutNewest(q, k) = RemoveAt(q, i)
    BY <1>2 DEF WithoutNewest
  <2>4. Scope(q[i]) \subseteq Dropped(q, k)
    BY <2>1 DEF Dropped
  <2> HIDE DEF i
  <2>5. Shrinks(q, RemoveAt(q, i), Scope(q[i]))
    BY <2>2, RemoveShrinks
  <2>6. Shrinks(q, RemoveAt(q, i), Dropped(q, k))
    BY <2>4, <2>5 DEF Shrinks
  <2> QED
    BY <2>3, <2>6 DEF Shrinks
<1> QED
  BY <1>1, <1>2

(* Cancelling and stopping only shorten the queue, and drop the rest.      *)
LEMMA WithdrawShrinks ==
  ASSUME TypeOK, StopIndexing \/ \E i \in 1..Len(queue) : CancelQueued(i)
  PROVE  \E D : /\ lost' = lost \cup D /\ D \subseteq Files
                /\ queue' \in Seq(Jobs) /\ Shrinks(queue, queue', D)
<1>1. queue \in Seq(Jobs)
  BY DEF TypeOK, Jobs
<1>2. ASSUME NEW j \in Jobs PROVE Scope(j) \subseteq Files
  BY DEF Scope, Jobs
<1>3. CASE StopIndexing
  <2> DEFINE noIndex == WithoutNewest(queue, "index")
             noAst   == WithoutNewest(noIndex, "ast")
             rest    == WithoutNewest(noAst, "initial")
             D       == Dropped(queue, "index") \cup Dropped(noAst, "initial")
  <2>1. noIndex \in Seq(Jobs) /\ Shrinks(queue, noIndex, Dropped(queue, "index"))
    BY <1>1, WithoutShrinks
  <2> HIDE DEF noIndex
  <2>2. noAst \in Seq(Jobs) /\ Shrinks(noIndex, noAst, Dropped(noIndex, "ast"))
    BY <2>1, WithoutShrinks
  <2>3. Dropped(noIndex, "ast") = {}
    BY DEF Dropped, Newest, Scope
  <2> HIDE DEF noAst
  <2>4. rest \in Seq(Jobs) /\ Shrinks(noAst, rest, Dropped(noAst, "initial"))
    BY <2>2, WithoutShrinks
  <2> HIDE DEF rest
  <2>5. Shrinks(queue, noAst, Dropped(queue, "index") \cup {})
    BY <1>1, <2>1, <2>2, <2>3, ShrinksTwice
  <2>6. Shrinks(queue, rest, (Dropped(queue, "index") \cup {}) \cup Dropped(noAst, "initial"))
    BY <1>1, <2>4, <2>5, ShrinksTwice
  <2>7. (Dropped(queue, "index") \cup {}) \cup Dropped(noAst, "initial") = D
    OBVIOUS
  <2>8. queue' = rest /\ lost' = lost \cup D
    BY <1>3 DEF StopIndexing, noIndex, noAst, rest
  <2>9. D \subseteq Files
    BY <1>1, <1>2, <2>2 DEF Dropped, Newest
  <2> HIDE DEF D
  <2> QED
    BY <2>4, <2>6, <2>7, <2>8, <2>9
<1>4. CASE \E i \in 1..Len(queue) : CancelQueued(i)
  <2>1. PICK i \in 1..Len(queue) : CancelQueued(i)
    BY <1>4
  <2>2. queue' = RemoveAt(queue, i) /\ lost' = lost \cup Scope(queue[i])
    BY <2>1 DEF CancelQueued
  <2>3. Shrinks(queue, RemoveAt(queue, i), Scope(queue[i]))
    BY <1>1, RemoveShrinks
  <2>4. queue[i] \in Jobs
    BY <1>1
  <2> QED
    BY <1>2, <2>2, <2>3, <2>4 DEF Shrinks
<1> QED
  BY <1>3, <1>4
-----------------------------------------------------------------------------
Writing == [parts : SUBSET Parts, wipe : BOOLEAN]

(* The last transaction of an index job's file fills its chunks; those of  *)
(* the structural jobs leave chunks alone.                                 *)
LEMMA WritesFacts ==
  ASSUME NEW j
  PROVE  /\ Writes(j) \in Seq(Writing) /\ Len(Writes(j)) \in Nat \ {0}
         /\ j.kind = "index" => Writes(j)[Len(Writes(j))] = Fill({"chunks"})
         /\ j.kind # "index" => \A n \in 1..Len(Writes(j)) : "chunks" \notin Writes(j)[n].parts
         /\ \A n \in 1..Len(Writes(j)) :
              "row" \in Writes(j)[n].parts => Writes(j)[n] = Fill({"row"})
<1>1. /\ Fill({"row"}) \in Writing /\ Fill({"lst"}) \in Writing
      /\ Fill({"ast"}) \in Writing /\ Fill({"chunks"}) \in Writing
      /\ Wipe({"chunks", "ast", "lst"}) \in Writing
      /\ Wipe({"ast", "lst"}) \in Writing /\ Wipe({"lst"}) \in Writing
  BY DEF Fill, Wipe, Writing, Parts
<1>2. /\ "chunks" \notin Fill({"row"}).parts /\ "chunks" \notin Fill({"lst"}).parts
      /\ "chunks" \notin Fill({"ast"}).parts
      /\ "chunks" \notin Wipe({"ast", "lst"}).parts /\ "chunks" \notin Wipe({"lst"}).parts
      /\ "row" \notin Fill({"lst"}).parts /\ "row" \notin Fill({"ast"}).parts
      /\ "row" \notin Fill({"chunks"}).parts /\ "row" \notin Wipe({"chunks", "ast", "lst"}).parts
      /\ "row" \notin Wipe({"ast", "lst"}).parts /\ "row" \notin Wipe({"lst"}).parts
  BY DEF Fill, Wipe
<1> HIDE DEF Writing
<1>3. CASE j.kind = "index" /\ j.diff
  BY <1>1, <1>2, <1>3 DEF Writes
<1>4. CASE j.kind = "index" /\ ~ j.diff
  BY <1>1, <1>2, <1>4 DEF Writes
<1>5. CASE j.kind = "ast" /\ j.diff
  BY <1>1, <1>2, <1>5 DEF Writes
<1>6. CASE j.kind = "ast" /\ ~ j.diff
  BY <1>1, <1>2, <1>6 DEF Writes
<1>7. CASE j.kind \notin {"index", "ast"} /\ j.diff
  BY <1>1, <1>2, <1>7 DEF Writes
<1>8. CASE j.kind \notin {"index", "ast"} /\ ~ j.diff
  BY <1>1, <1>2, <1>8 DEF Writes
<1> QED
  BY <1>3, <1>4, <1>5, <1>6, <1>7, <1>8
-----------------------------------------------------------------------------
LEMMA TreesTyped ==
  ASSUME TypeOK
  PROVE  \A c \in 0..Len(hist) : TreeAt(c) \in Tree
  BY RepoConstantsAssumption DEF TypeOK, TreeAt, Tree, Version

LEMMA ScopesTyped ==
  ASSUME TypeOK
  PROVE  /\ \A j \in Jobs : Scope(j) \subseteq Files
         /\ Changed(before, head) \subseteq Files
         /\ InHand \subseteq Files
         /\ queue \in Seq(Jobs)
<1>1. \A j \in Jobs : Scope(j) \subseteq Files
  BY DEF Scope, Jobs
<1>2. Changed(before, head) \subseteq Files
  BY DEF Changed, Updated, Deleted, Present
<1>3. Scope(job) \subseteq Files
  BY DEF Scope, TypeOK
<1>4. InHand \subseteq Files
  BY <1>2, <1>3 DEF InHand, TypeOK
<1>5. queue \in Seq(Jobs)
  BY DEF TypeOK, Jobs
<1> QED
  BY <1>1, <1>2, <1>4, <1>5

(* Every step keeps the types and the order of a job's steps.              *)
LEMMA TypeStep == TypeOK /\ JobSteps /\ HandWrites /\ [Next]_vars => TypeOK' /\ JobSteps'
<1> SUFFICES ASSUME TypeOK, JobSteps, HandWrites, [Next]_vars PROVE TypeOK' /\ JobSteps'
  OBVIOUS
<1> USE RepoConstantsAssumption
<1>q. queue \in Seq(Jobs)
  BY ScopesTyped
<1>1. CASE PushCommit
  <2>1. PICK S \in (SUBSET Files) \ {{}} : \E D \in SUBSET S :
          hist' = Append(hist, [f \in Files |-> IF f \in D THEN 0
                                                ELSE IF f \in S THEN Remote + 1
                                                ELSE hist[Remote][f]])
    BY <1>1 DEF PushCommit
  <2>2. PICK D \in SUBSET S :
          hist' = Append(hist, [f \in Files |-> IF f \in D THEN 0
                                                ELSE IF f \in S THEN Remote + 1
                                                ELSE hist[Remote][f]])
    BY <2>1
  <2>3. Len(hist) < MaxCommits /\ Len(hist) \in 1..MaxCommits /\ hist[Len(hist)] \in Tree
    BY <1>1 DEF PushCommit, Remote, TypeOK
  <2>4. [f \in Files |-> IF f \in D THEN 0 ELSE IF f \in S THEN Remote + 1 ELSE hist[Remote][f]] \in Tree
    BY <2>3 DEF Tree, Version, Remote
  <2>5. hist' \in Seq(Tree) /\ Len(hist') \in 1..MaxCommits /\ Len(hist') = Len(hist) + 1
    BY <2>2, <2>3, <2>4 DEF TypeOK
  <2>6. head \in 0..Len(hist') /\ before \in 0..Len(hist')
    BY <2>3, <2>5 DEF TypeOK
  <2>7. TypeOK'
    BY <1>1, <2>5, <2>6 DEF PushCommit, TypeOK, checkout, repo, locals, history, bounds
  <2> QED
    BY <1>1, <2>7 DEF PushCommit, JobSteps, checkout, repo, locals, history, bounds
<1>2. CASE PeriodicLook
  BY <1>2 DEF PeriodicLook, TypeOK, JobSteps, checkout, repo, locals, history, bounds
<1>3. CASE PeriodicInsert
  <2>1. Full("sync") \in Jobs
    BY DEF Full, Job, Jobs, Kinds
  <2>2. queue' \in Seq(Jobs)
    BY <1>q, <1>3, <2>1 DEF PeriodicInsert
  <2> QED
    <3>1. TypeOK'
      BY <1>3, <2>2 DEF PeriodicInsert, TypeOK, checkout, repo, locals, history, bounds, Jobs
    <3> QED
      BY <1>3, <3>1 DEF PeriodicInsert, JobSteps, checkout, locals
<1>4. CASE StopIndexing \/ \E i \in 1..Len(queue) : CancelQueued(i)
  <2>1. PICK D : lost' = lost \cup D /\ D \subseteq Files /\ queue' \in Seq(Jobs)
    BY <1>4, WithdrawShrinks
  <2>2. /\ failures < MaxFailures /\ failures' = failures + 1
        /\ repoStatus' \in {"added", repoStatus} /\ indexedAt' = indexedAt
        /\ UNCHANGED <<hist, checkout, store, job, step, locals, outrun, due, submits>>
    BY <1>4 DEF StopIndexing, CancelQueued, repo
  <2> QED
    BY <2>1, <2>2 DEF TypeOK, JobSteps, checkout, repo, locals, Jobs
<1>5. ASSUME NEW k \in UserKinds, SubmitJob(k) PROVE TypeOK' /\ JobSteps'
  <2>1. Full(k) \in Jobs
    BY DEF Full, Job, Jobs, Kinds
  <2>2. submits' \in 0..MaxSubmits
    BY <1>5 DEF SubmitJob, TypeOK
  <2>3. queue' \in Seq(Jobs)
    BY <1>q, <1>5, <2>1 DEF SubmitJob
  <2> QED
    BY <1>5, <2>2, <2>3 DEF SubmitJob, TypeOK, JobSteps, checkout, repo, locals, history, Jobs
<1>6. CASE ClaimJob
  <2>1. Head(queue) \in Jobs /\ Tail(queue) \in Seq(Jobs)
    BY <1>6, <1>q, HeadTailProperties DEF ClaimJob
  <2>2. job' \in Jobs /\ queue' \in Seq(Jobs)
    BY <1>6, <2>1 DEF ClaimJob
  <2>3. TypeOK'
    BY <1>6, <2>2 DEF ClaimJob, TypeOK, checkout, repo, locals, history, bounds, Jobs
  <2>4. job'.kind # "none"
    BY <2>2 DEF Jobs, Kinds
  <2>5. JobSteps'
    BY <1>6, <2>4 DEF ClaimJob, JobSteps, locals
  <2> QED
    BY <2>3, <2>5
<1>7. CASE CloneRepo
  <2>1. hist[Len(hist)] \in Tree /\ Len(hist) # 0
    BY DEF TypeOK
  <2> QED
    BY <1>7, <2>1 DEF CloneRepo, TypeOK, JobSteps, Remote, locals, history, bounds
<1>8. CASE RefreshHead
  <2>1. Len(hist) # 0
    BY DEF TypeOK
  <2> QED
    BY <1>8, <2>1 DEF RefreshHead, TypeOK, JobSteps, Remote, repo, history, bounds
<1>9. CASE ResetTree
  <2>1. hist[head] \in Tree
    BY <1>9 DEF ResetTree, TypeOK, JobSteps
  <2> QED
    BY <1>9, <2>1 DEF ResetTree, TypeOK, JobSteps, repo, locals, history, bounds
<1>e. ASSUME EndJob,
             UNCHANGED <<hist, checkout, store, due, submits>>,
             queue' \in Seq(Jobs), lost' \subseteq Files, outrun' = outrun,
             repoStatus' \in {"added", "ready", "indexing", "indexed", "ast_only", "error"},
             indexedAt' \in BOOLEAN, failures' \in 0..MaxFailures
      PROVE  TypeOK' /\ JobSteps'
  <2>1. /\ NoJob \in [kind : Kinds \cup {"none"}, diff : BOOLEAN, upd : SUBSET Files, del : SUBSET Files]
        /\ 1 \in 1..Len(FollowUp) /\ <<>> \in Seq([parts : SUBSET Parts, wipe : BOOLEAN])
    BY DEF NoJob, Full, Job, FollowUp
  <2>2. NoJob.kind = "none"
    BY DEF NoJob, Full, Job
  <2>3. 0 \in 0..Len(hist)
    BY DEF TypeOK
  <2>4. TypeOK'
    BY <1>e, <2>1, <2>3 DEF EndJob, TypeOK, checkout, Jobs
  <2>5. JobSteps'
    BY <1>e, <2>2 DEF EndJob, JobSteps, NoJob, Full, Job
  <2> QED
    BY <2>4, <2>5
<1>10. CASE DecideSync
  <2>1. CASE (before = head /\ known) \/ Changed(before, head) = {}
    BY <1>10, <1>e, <1>q, <2>1 DEF DecideSync, TypeOK, repo, history, bounds
  <2>2. CASE ~ ((before = head /\ known) \/ Changed(before, head) = {})
    BY <1>10, <2>2 DEF DecideSync, TypeOK, JobSteps, checkout, repo, locals, history, bounds
  <2> QED
    BY <2>1, <2>2
<1>11. CASE SpawnChild
  <2> DEFINE k == FollowUp[child]
             new == IF job.kind = "initial" THEN Full(k)
                    ELSE Job(k, TRUE, Updated(before, head), Deleted(before, head))
  <2>1. k \in Kinds
    BY DEF TypeOK, FollowUp, Kinds
  <2>2. new \in Jobs
    <3> HIDE DEF k
    <3> QED
      BY <2>1 DEF Full, Job, Jobs, Updated, Deleted, Present
  <2>3. queue' \in {queue, Append(queue, new)}
    BY <1>11 DEF SpawnChild
  <2>4. queue' \in Seq(Jobs)
    <3> HIDE DEF new
    <3> QED
      BY <1>q, <2>2, <2>3
  <2>5. CASE child = Len(FollowUp)
    BY <1>11, <1>e, <2>4, <2>5 DEF SpawnChild, TypeOK, repo, history, bounds
  <2>6. CASE child # Len(FollowUp)
    <3>1. child' \in 1..Len(FollowUp)
      BY <1>11, <2>6 DEF SpawnChild, TypeOK, FollowUp
    <3>2. UNCHANGED <<job, step, before, known, todo, hand, ops>>
      BY <1>11, <2>6 DEF SpawnChild
    <3>3. UNCHANGED <<hist, checkout, store, repo, history, due, bounds>> /\ step = "spawn"
      BY <1>11 DEF SpawnChild
    <3>4. TypeOK'
      BY <2>4, <3>1, <3>2, <3>3 DEF TypeOK, checkout, repo, history, bounds, Jobs
    <3>5. JobSteps'
      BY <3>2, <3>3 DEF JobSteps, checkout
    <3> QED
      BY <3>4, <3>5
  <2> QED
    BY <2>5, <2>6
<1>12. CASE BeginFiles
  <2>1. store' \in [Files -> [Parts -> Version]]
    <3>1. \A S, P : Wiped(S, P) \in [Files -> [Parts -> Version]]
      BY DEF Wiped, TypeOK, Version
    <3> QED
      BY <1>12, <3>1 DEF BeginFiles, FirstWipe
  <2>2. todo' \subseteq Files
    BY <1>12 DEF BeginFiles, TypeOK, Present
  <2>3. step' = "files" /\ hand' = {} /\ lost' \subseteq Files
    BY <1>12 DEF BeginFiles, TypeOK, JobSteps
  <2> QED
    BY <1>12, <2>1, <2>2, <2>3 DEF BeginFiles, TypeOK, JobSteps, checkout, history, bounds, IndexKinds
<1>13. ASSUME NEW f \in Files, TakeFile(f) PROVE TypeOK' /\ JobSteps'
  <2>1. hand' \subseteq Files /\ ops' \in Seq([parts : SUBSET Parts, wipe : BOOLEAN])
    <3>1. Writes(job) \in Seq([parts : SUBSET Parts, wipe : BOOLEAN])
      BY WritesFacts DEF Writing
    <3> QED
      BY <1>13, <3>1 DEF TakeFile, TypeOK
  <2>2. todo' \subseteq Files
    BY <1>13 DEF TakeFile, TypeOK
  <2> QED
    BY <1>13, <2>1, <2>2 DEF TakeFile, TypeOK, JobSteps, checkout, repo, history, bounds
<1>14. ASSUME NEW f \in Files, WriteFile(f) PROVE TypeOK' /\ JobSteps'
  <2>1. ops # <<>> /\ hand = {f}
    BY <1>14 DEF WriteFile, HandWrites
  <2>2. ops' \in Seq([parts : SUBSET Parts, wipe : BOOLEAN])
    BY <1>14, <2>1, HeadTailProperties DEF WriteFile, TypeOK
  <2>3. disk[f] \in Version /\ 0 \in Version
    BY DEF TypeOK, Tree, Version
  <2>4. store' \in [Files -> [Parts -> Version]]
    BY <1>14, <2>3 DEF WriteFile, TypeOK
  <2>5. hand' \subseteq Files /\ lost' \subseteq Files /\ outrun' \subseteq Files
    BY <1>14 DEF WriteFile, TypeOK
  <2> QED
    BY <1>14, <2>2, <2>4, <2>5 DEF WriteFile, TypeOK, JobSteps, checkout, repo, bounds
<1>15. CASE EndFiles
  BY <1>15, <1>e, <1>q DEF EndFiles, TypeOK, repo, history, bounds
<1>16. ASSUME NEW f \in Files, FileFails(f) PROVE TypeOK' /\ JobSteps'
  <2>1. lost' \subseteq Files /\ failures' \in 0..MaxFailures
    BY <1>16, ScopesTyped DEF FileFails, TypeOK
  <2>2. <<>> \in Seq([parts : SUBSET Parts, wipe : BOOLEAN])
    OBVIOUS
  <2> QED
    BY <1>16, <2>1, <2>2 DEF FileFails, TypeOK, JobSteps, checkout, repo
<1>17. CASE JobStops \/ Crash
  <2>1. lost' \subseteq Files /\ failures' \in 0..MaxFailures
    BY <1>17, ScopesTyped DEF JobStops, Crash, TypeOK
  <2> QED
    BY <1>17, <2>1, <1>e, <1>q DEF JobStops, Crash, TypeOK, repo
<1>18. CASE UNCHANGED vars
  BY <1>18 DEF vars, TypeOK, JobSteps, checkout, repo, locals, history, bounds
<1> QED
  BY <1>1, <1>2, <1>3, <1>4, <1>5, <1>6, <1>7, <1>8, <1>9, <1>10, <1>11, <1>12, <1>13,
     <1>14, <1>15, <1>16, <1>17, <1>18 DEF Next, Worker
-----------------------------------------------------------------------------
(* What the first wipe of a generation job leaves of rows and chunks.      *)
LEMMA BeginFilesFacts ==
  ASSUME TypeOK, BeginFiles, NEW f \in Files
  PROVE  /\ job.kind = "index" /\ job.diff /\ f \in job.del => Row(f)' = 0 /\ Chunks(f)' = 0
         /\ job.kind = "index" /\ job.diff /\ f \notin job.del =>
              Row(f)' = Row(f) /\ Chunks(f)' = Chunks(f)
         /\ job.kind = "index" /\ ~ job.diff => Row(f)' = Row(f) /\ Chunks(f)' = 0
         /\ job.kind # "index" => Row(f)' = Row(f) /\ Chunks(f)' = Chunks(f)
<1>1. ASSUME NEW S, NEW P, NEW p \in Parts
      PROVE  Wiped(S, P)[f][p] = IF f \in S /\ p \in P THEN 0 ELSE store[f][p]
  BY <1>1 DEF Wiped
<1>2. "row" \in Parts /\ "chunks" \in Parts /\ "row" \notin {"ast"} /\ "row" \notin {"lst"}
      /\ "chunks" \notin {"ast"} /\ "chunks" \notin {"lst"} /\ "row" \notin {"chunks", "ast"}
      /\ "chunks" \in {"chunks", "ast"}
  BY DEF Parts
<1>3. store' = FirstWipe
  BY DEF BeginFiles
<1>4. CASE job.kind = "index"
  <2>1. store' = IF job.diff THEN Wiped(job.del, Parts) ELSE Wiped(Files, {"chunks", "ast"})
    BY <1>3, <1>4 DEF FirstWipe
  <2> QED
    BY <1>1, <1>2, <1>4, <2>1 DEF Row, Chunks
<1>5. CASE job.kind # "index"
  <2>1. \E S : store' = Wiped(S, {"ast"}) \/ store' = Wiped(S, {"lst"})
    BY <1>3, <1>5 DEF FirstWipe
  <2> QED
    BY <1>1, <1>2, <1>5, <2>1 DEF Row, Chunks
<1> QED
  BY <1>4, <1>5

(* What one transaction of a file does to rows and chunks.                 *)
LEMMA WriteFileFacts ==
  ASSUME TypeOK, HandWrites, NEW f \in Files, WriteFile(f)
  PROVE  /\ hand = {f} /\ ops # <<>> /\ Head(ops) = ops[1] /\ disk[f] # 0
         /\ Row(f)' = (IF "row" \notin ops[1].parts THEN Row(f)
                       ELSE IF ops[1].wipe THEN 0 ELSE disk[f])
         /\ Chunks(f)' = (IF "chunks" \notin ops[1].parts THEN Chunks(f)
                          ELSE IF ops[1].wipe THEN 0 ELSE disk[f])
         /\ \A g \in Files \ {f} : Row(g)' = Row(g) /\ Chunks(g)' = Chunks(g)
<1>1. hand = {f} /\ ops # <<>> /\ disk[f] # 0
  BY DEF WriteFile, HandWrites
<1>2. Head(ops) = ops[1]
  BY <1>1 DEF TypeOK
<1>3. \A p \in Parts : store'[f][p] = IF p \notin Head(ops).parts THEN store[f][p]
                                      ELSE IF Head(ops).wipe THEN 0 ELSE disk[f]
  BY DEF WriteFile, TypeOK
<1>4. \A g \in Files \ {f} : store'[g] = store[g]
  BY DEF WriteFile, TypeOK
<1> QED
  BY <1>1, <1>2, <1>3, <1>4 DEF Row, Chunks, Parts

LEMMA HandStep ==
  TypeOK /\ JobSteps /\ HandWrites /\ [Next]_vars => HandWrites'
<1> SUFFICES ASSUME TypeOK, JobSteps, HandWrites, [Next]_vars PROVE HandWrites'
  OBVIOUS
<1>0. hand' = {} => HandWrites'
  BY DEF HandWrites
<1>1. CASE UNCHANGED <<job, hand, ops, disk>>
  BY <1>1 DEF HandWrites
<1>2. CASE EndJob
  BY <1>0, <1>2 DEF EndJob
<1>3. CASE CloneRepo \/ ResetTree \/ ClaimJob
  <2>1. hand' = {}
    BY <1>3 DEF CloneRepo, ResetTree, ClaimJob, JobSteps, locals
  <2> QED
    BY <1>0, <2>1
<1>4. ASSUME NEW f \in Files, TakeFile(f) PROVE HandWrites'
  <2>1. CASE disk[f] = 0 \/ Unchanged(f)
    BY <1>4, <2>1, <1>0 DEF TakeFile
  <2>2. CASE ~ (disk[f] = 0 \/ Unchanged(f))
    <3>1. hand' = {f} /\ ops' = Writes(job) /\ job' = job /\ disk' = disk
      BY <1>4, <2>2 DEF TakeFile, checkout
    <3>2. Writes(job) # <<>>
      BY WritesFacts
    <3> QED
      BY <2>2, <3>1, <3>2, WritesFacts DEF HandWrites
  <2> QED
    BY <2>1, <2>2
<1>5. ASSUME NEW f \in Files, WriteFile(f) PROVE HandWrites'
  <2>1. ops' = Tail(ops) /\ hand' = (IF Len(ops) = 1 THEN {} ELSE hand) /\ job' = job /\ disk' = disk
    BY <1>5 DEF WriteFile, checkout
  <2>2. hand = {f} /\ ops # <<>> /\ disk[f] # 0
    BY <1>5, WriteFileFacts
  <2>3. ops \in Seq(Writing)
    BY DEF TypeOK, Writing
  <2>4. CASE Len(ops) = 1
    BY <1>0, <2>1, <2>4
  <2>5. CASE Len(ops) # 1
    <3>1. Len(ops) \in Nat /\ Len(ops) > 1
      <4>1. Len(ops) \in Nat
        BY <2>3
      <4>2. Len(ops) # 0
        BY <2>2, <2>3, EmptySeq
      <4>3. \A n \in Nat : n # 0 /\ n # 1 => n > 1
        OBVIOUS
      <4> QED
        BY <4>1, <4>2, <4>3, <2>5
    <3>2. Tail(ops) \in Seq(Writing) /\ Len(Tail(ops)) = Len(ops) - 1 /\ \A n \in 1..(Len(ops) - 1) : Tail(ops)[n] = ops[n + 1]
      BY <2>2, <2>3, HeadTailProperties
    <3>3. Tail(ops) # <<>>
      <4>1. Len(Tail(ops)) # 0
        BY <3>1, <3>2
      <4> QED
        BY <4>1, <3>2, EmptySeq
    <3>4. Tail(ops)[Len(Tail(ops))] = ops[Len(ops)]
      BY <3>1, <3>2
    <3>5. \A n \in 1..Len(Tail(ops)) : n + 1 \in 1..Len(ops) /\ Tail(ops)[n] = ops[n + 1]
      BY <3>1, <3>2
    <3> QED
      BY <2>1, <2>2, <2>5, <3>3, <3>4, <3>5 DEF HandWrites
  <2> QED
    BY <2>4, <2>5
<1>6. CASE \E f \in Files : FileFails(f)
  BY <1>0, <1>6 DEF FileFails
<1>7. CASE BeginFiles
  BY <1>0, <1>7 DEF BeginFiles, JobSteps
<1>8. CASE SpawnChild \/ DecideSync
  BY <1>1, <1>2, <1>8 DEF SpawnChild, DecideSync, locals, checkout
<1>9. CASE PushCommit \/ PeriodicLook \/ PeriodicInsert \/ StopIndexing \/ RefreshHead
  BY <1>1, <1>9 DEF PushCommit, PeriodicLook, PeriodicInsert, StopIndexing, RefreshHead, locals, checkout
<1>10. CASE \E i \in 1..Len(queue) : CancelQueued(i)
  BY <1>1, <1>10 DEF CancelQueued, locals, checkout
<1>11. CASE \E k \in UserKinds : SubmitJob(k)
  BY <1>1, <1>11 DEF SubmitJob, locals, checkout
<1>12. CASE EndFiles \/ JobStops \/ Crash
  BY <1>2, <1>12 DEF EndFiles, JobStops, Crash
<1>13. CASE UNCHANGED vars
  BY <1>1, <1>13 DEF vars, locals, checkout
<1> QED
  BY <1>3, <1>4, <1>5, <1>6, <1>7, <1>8, <1>9, <1>10, <1>11, <1>12, <1>13 DEF Next, Worker

(* The trees of the branch never change again, and later ones differ only  *)
(* by later commits.                                                       *)
LEMMA CommitsStep ==
  TypeOK /\ Commits /\ [Next]_vars =>
    Commits' /\ Len(hist) <= Len(hist') /\ \A c \in 1..Len(hist) : hist'[c] = hist[c]
<1> SUFFICES ASSUME TypeOK, Commits, [Next]_vars
             PROVE  Commits' /\ Len(hist) <= Len(hist') /\ \A c \in 1..Len(hist) : hist'[c] = hist[c]
  OBVIOUS
<1>0. Len(hist) \in Nat \ {0}
  BY DEF TypeOK
<1>1. CASE hist' = hist
  BY <1>0, <1>1 DEF Commits
<1>2. CASE PushCommit
  <2> DEFINE R == Len(hist)
  <2>1. PICK t : /\ hist' = Append(hist, t)
                 /\ \A f \in Files : t[f] \in {0, R + 1, hist[R][f]}
    <3>1. PICK S \in (SUBSET Files) \ {{}} : \E D \in SUBSET S :
            hist' = Append(hist, [f \in Files |-> IF f \in D THEN 0
                                                  ELSE IF f \in S THEN Remote + 1
                                                  ELSE hist[Remote][f]])
      BY <1>2 DEF PushCommit
    <3>2. PICK D \in SUBSET S :
            hist' = Append(hist, [f \in Files |-> IF f \in D THEN 0
                                                  ELSE IF f \in S THEN Remote + 1
                                                  ELSE hist[Remote][f]])
      BY <3>1
    <3> QED
      BY <3>2 DEF Remote
  <2>2. /\ Len(hist') = R + 1 /\ hist'[R + 1] = t
        /\ \A c \in 1..R : hist'[c] = hist[c]
    BY <2>1, <1>0 DEF TypeOK
  <2>3. ASSUME NEW b \in 1..Len(hist'), NEW f \in Files
        PROVE  hist'[b][f] <= b /\ \A a \in 1..b : hist'[b][f] \in {hist'[a][f], 0} \/ hist'[b][f] > a
    <3>1. CASE b \in 1..R
      <4>1. hist'[b] = hist[b] /\ \A a \in 1..b : a \in 1..R /\ hist'[a] = hist[a]
        BY <1>0, <2>2, <3>1
      <4> QED
        BY <3>1, <4>1 DEF Commits
    <3>2. CASE b = R + 1
      <4>1. hist'[b][f] \in {0, R + 1, hist[R][f]}
        BY <2>1, <2>2, <3>2
      <4>2. R \in 1..R /\ hist[R][f] <= R /\ hist[R][f] \in Nat
        <5>1. R \in 1..R /\ hist[R][f] <= R
          BY <1>0 DEF Commits
        <5>2. hist[R] \in Tree
          BY <5>1 DEF TypeOK
        <5> QED
          BY <5>1, <5>2 DEF Tree, Version
      <4>3. \A a \in 1..R : hist'[a][f] = hist[a][f] /\ (hist[R][f] \in {hist[a][f], 0} \/ hist[R][f] > a)
        BY <2>2, <4>2 DEF Commits
      <4>4. hist'[b][f] <= b
        BY <1>0, <3>2, <4>1, <4>2
      <4>5. ASSUME NEW a \in 1..b PROVE hist'[b][f] \in {hist'[a][f], 0} \/ hist'[b][f] > a
        <5>1. CASE a = b
          BY <5>1
        <5>2. CASE a \in 1..R
          BY <1>0, <4>1, <4>2, <4>3, <5>2
        <5> QED
          BY <1>0, <3>2, <5>1, <5>2
      <4> QED
        BY <4>4, <4>5
    <3> QED
      BY <1>0, <2>2, <3>1, <3>2
  <2>4. Commits'
    BY <2>3 DEF Commits
  <2> QED
    BY <1>0, <2>2, <2>4
<1>3. CASE ~ PushCommit
  BY <1>1, <1>3 DEF Next, Worker, PeriodicLook, PeriodicInsert, StopIndexing, RefreshHead, SubmitJob,
     CancelQueued, ClaimJob, CloneRepo, ResetTree, DecideSync, SpawnChild, BeginFiles, EndFiles,
     TakeFile, WriteFile, FileFails, JobStops, Crash, vars
<1> QED
  BY <1>2, <1>3
-----------------------------------------------------------------------------
(* A file in the first of two trees and different in the second.           *)
LEMMA ChangedFacts ==
  ASSUME NEW a, NEW b, NEW f \in Files
  PROVE  /\ f \in Changed(a, b) <=> TreeAt(a)[f] # TreeAt(b)[f]
         /\ f \in Updated(a, b) => TreeAt(b)[f] # 0
         /\ f \in Deleted(a, b) => TreeAt(b)[f] = 0
  BY DEF Changed, Updated, Deleted, Present

(* Only a clone or a reset touches the working tree, and only they and a   *)
(* refresh move HEAD, forward.                                             *)
LEMMA CheckoutStep ==
  ASSUME TypeOK, [Next]_vars
  PROVE  /\ head' = head \/ ((CloneRepo \/ RefreshHead) /\ head' = Len(hist))
         /\ disk' = disk \/ CloneRepo \/ ResetTree
         /\ store' = store \/ BeginFiles \/ \E f \in Files : WriteFile(f)
<1>1. CASE CloneRepo
  <2>1. head' = Len(hist) /\ store' = store
    BY <1>1 DEF CloneRepo, Remote
  <2> QED
    BY <1>1, <2>1
<1>2. CASE RefreshHead
  <2>1. head' = Len(hist) /\ disk' = disk /\ store' = store
    BY <1>2 DEF RefreshHead, Remote
  <2> QED
    BY <1>2, <2>1
<1>3. CASE ResetTree
  <2>1. head' = head /\ store' = store
    BY <1>3 DEF ResetTree
  <2> QED
    BY <1>3, <2>1
<1>4. CASE BeginFiles \/ \E f \in Files : WriteFile(f)
  <2>1. head' = head /\ disk' = disk
    BY <1>4 DEF BeginFiles, WriteFile, checkout
  <2> QED
    BY <1>4, <2>1
<1>5. CASE UNCHANGED <<head, disk, store>>
  BY <1>5
<1>6. CASE PushCommit \/ PeriodicLook \/ PeriodicInsert \/ StopIndexing \/ \E k \in UserKinds : SubmitJob(k)
  <2>1. UNCHANGED <<head, disk, store>>
    BY <1>6 DEF PushCommit, PeriodicLook, PeriodicInsert, StopIndexing, SubmitJob, checkout
  <2> QED
    BY <1>5, <2>1
<1>7. CASE ClaimJob \/ DecideSync \/ SpawnChild \/ EndFiles \/ JobStops \/ Crash
  <2>1. UNCHANGED <<head, disk, store>>
    BY <1>7 DEF ClaimJob, DecideSync, SpawnChild, EndFiles, JobStops, Crash, checkout
  <2> QED
    BY <1>5, <2>1
<1>8. CASE \E f \in Files : TakeFile(f) \/ FileFails(f)
  <2>1. UNCHANGED <<head, disk, store>>
    BY <1>8 DEF TakeFile, FileFails, checkout
  <2> QED
    BY <1>5, <2>1
<1>9. CASE (\E i \in 1..Len(queue) : CancelQueued(i)) \/ UNCHANGED vars
  <2>1. UNCHANGED <<head, disk, store>>
    BY <1>9 DEF CancelQueued, vars, checkout
  <2> QED
    BY <1>5, <2>1
<1> QED
  BY <1>1, <1>2, <1>3, <1>4, <1>6, <1>7, <1>8, <1>9 DEF Next, Worker

LEMMA RowBehindStep ==
  TypeOK /\ JobSteps /\ HandWrites /\ Commits /\ RowBehind /\ [Next]_vars => RowBehind'
<1> SUFFICES ASSUME TypeOK, JobSteps, HandWrites, Commits, RowBehind, [Next]_vars PROVE RowBehind'
  OBVIOUS
<1>1. PICK d \in 0..head : disk = TreeAt(d) /\ \A f \in Files : Row(f) <= d
  BY DEF RowBehind
<1>2. /\ Len(hist) \in Nat \ {0} /\ head \in 0..Len(hist) /\ Len(hist) <= Len(hist')
      /\ head' \in head..Len(hist)
      /\ \A c \in 1..Len(hist) : hist'[c] = hist[c]
  BY CommitsStep, CheckoutStep DEF TypeOK
<1>3. \A f \in Files : disk[f] <= d
  <2>1. CASE d = 0
    BY <1>1, <2>1 DEF TreeAt
  <2>2. CASE d # 0
    BY <1>1, <1>2, <2>2 DEF TreeAt, Commits
  <2> QED
    BY <2>1, <2>2
<1>4. ASSUME NEW f \in Files PROVE Row(f)' \in {Row(f), 0, disk[f]}
  <2>1. CASE store' = store
    BY <2>1 DEF Row
  <2>2. CASE BeginFiles
    BY <2>2, BeginFilesFacts
  <2>3. CASE \E g \in Files : WriteFile(g)
    BY <2>3, WriteFileFacts
  <2> QED
    BY <2>1, <2>2, <2>3, CheckoutStep
<1>5. \A f \in Files : Row(f)' <= d
  BY <1>1, <1>2, <1>3, <1>4
<1>6. CASE disk' = disk
  <2>1. d \in 0..head' /\ TreeAt(d)' = TreeAt(d)
    BY <1>2 DEF TreeAt
  <2> QED
    BY <1>1, <1>5, <1>6, <2>1 DEF RowBehind, Row
<1>7. CASE CloneRepo \/ ResetTree
  <2>1. head' # 0 /\ disk' = hist[head'] /\ hist' = hist
    BY <1>2, <1>7 DEF CloneRepo, ResetTree, Remote, JobSteps
  <2>2. disk' = TreeAt(head)' /\ head' \in 0..head' /\ d <= head'
    BY <1>1, <1>2, <2>1 DEF TreeAt
  <2>3. \A f \in Files : Row(f)' = Row(f) /\ Row(f) \in Nat
    BY <1>7 DEF CloneRepo, ResetTree, Row, TypeOK, Version, Parts
  <2>4. \A f \in Files : Row(f)' <= head'
    BY <1>1, <1>2, <2>2, <2>3
  <2> QED
    BY <2>2, <2>4 DEF RowBehind, Row, TreeAt
<1> QED
  BY <1>6, <1>7, CheckoutStep

LEMMA DriftStep ==
  TypeOK /\ JobSteps /\ HandWrites /\ Commits /\ Drift /\ [Next]_vars => Drift'
<1> DEFINE from == IF step = "reset" THEN before ELSE head
<1> SUFFICES ASSUME TypeOK, JobSteps, HandWrites, Commits, Drift, [Next]_vars,
                    NEW f \in Files, disk'[f] # TreeAt(from)'[f]
             PROVE  f \in lost'
  BY DEF Drift
<1>1. /\ Len(hist) \in Nat \ {0} /\ head \in 0..Len(hist) /\ before \in 0..Len(hist)
      /\ \A c \in 1..Len(hist) : hist'[c] = hist[c]
  BY CommitsStep DEF TypeOK
<1>2. ASSUME UNCHANGED <<disk, head, before, step>>, lost \subseteq lost'
      PROVE  f \in lost'
  <2>1. TreeAt(from)' = TreeAt(from)
    BY <1>1, <1>2 DEF TreeAt
  <2> QED
    BY <1>2, <2>1 DEF Drift
<1>3. ASSUME UNCHANGED head, step' # "reset"
      PROVE  TreeAt(from)' = TreeAt(head)
  BY <1>1, <1>3 DEF TreeAt
<1>4. ASSUME UNCHANGED <<disk, head>>, step # "reset", step' # "reset", lost \ Settled \subseteq lost'
      PROVE  f \in lost'
  BY <1>3, <1>4 DEF Drift, Settled
<1>5. CASE CloneRepo \/ ResetTree
  <2>1. head' # 0 /\ disk' = hist'[head'] /\ step' # "reset"
    BY <1>1, <1>5 DEF CloneRepo, ResetTree, Remote, JobSteps
  <2>2. TreeAt(from)' = disk'
    BY <2>1 DEF TreeAt
  <2> QED
    BY <2>2
<1>6. CASE RefreshHead
  <2>1. UNCHANGED <<hist, disk, lost>> /\ before' = head /\ step = "start"
        /\ head' = Len(hist) /\ step' = IF head = Len(hist) /\ disk = hist[head] THEN "decide" ELSE "reset"
    BY <1>6 DEF RefreshHead, history, Remote
  <2>2. CASE head = Len(hist) /\ disk = hist[head]
    <3>1. TreeAt(from)' = disk'
      BY <1>1, <2>1, <2>2 DEF TreeAt
    <3> QED
      BY <3>1
  <2>3. CASE ~ (head = Len(hist) /\ disk = hist[head])
    <3>1. TreeAt(from)' = TreeAt(head)
      BY <1>1, <2>1, <2>3 DEF TreeAt
    <3> QED
      BY <2>1, <3>1 DEF Drift
  <2> QED
    BY <2>2, <2>3
<1>7. CASE JobStops \/ Crash
  <2>1. /\ UNCHANGED <<disk, head>> /\ step' = "idle" /\ lost' = lost \cup InHand
    BY <1>7 DEF JobStops, Crash, EndJob, checkout
  <2>2. CASE step # "reset"
    BY <1>4, <2>1, <2>2
  <2>3. CASE step = "reset"
    <3>1. disk[f] # TreeAt(head)[f]
      BY <1>3, <2>1
    <3>2. CASE disk[f] # TreeAt(before)[f]
      BY <2>1, <2>3, <3>2 DEF Drift
    <3>3. CASE disk[f] = TreeAt(before)[f]
      <4>1. f \in Changed(before, head)
        BY <3>1, <3>3, ChangedFacts
      <4>2. InHand = Changed(before, head)
        BY <2>3 DEF InHand, JobSteps
      <4> QED
        BY <2>1, <4>1, <4>2
    <3> QED
      BY <3>2, <3>3
  <2> QED
    BY <2>2, <2>3
<1>8. CASE BeginFiles \/ \E g \in Files : WriteFile(g)
  <2>1. /\ UNCHANGED <<disk, head>> /\ step # "reset" /\ step' # "reset"
        /\ lost \ Settled \subseteq lost'
    BY <1>8 DEF BeginFiles, WriteFile, checkout
  <2> QED
    BY <1>4, <2>1
<1>9. CASE DecideSync \/ SpawnChild \/ EndFiles \/ ClaimJob
  <2>1. /\ UNCHANGED <<disk, head, lost>> /\ step \in {"decide", "spawn", "files", "idle"}
        /\ step' \in {"idle", "start", "spawn"}
    BY <1>9 DEF DecideSync, SpawnChild, EndFiles, ClaimJob, EndJob, checkout, history
  <2> QED
    BY <1>4, <2>1
<1>10. CASE PushCommit \/ PeriodicLook \/ PeriodicInsert \/ \E k \in UserKinds : SubmitJob(k)
  BY <1>2, <1>10 DEF PushCommit, PeriodicLook, PeriodicInsert, SubmitJob, locals, checkout, history
<1>11. CASE StopIndexing \/ \E i \in 1..Len(queue) : CancelQueued(i)
  BY <1>2, <1>11 DEF StopIndexing, CancelQueued, locals, checkout
<1>12. CASE \E g \in Files : TakeFile(g) \/ FileFails(g)
  BY <1>2, <1>12 DEF TakeFile, FileFails, checkout, history
<1>13. CASE UNCHANGED vars
  BY <1>2, <1>13 DEF vars, locals, checkout, history
<1> QED
  BY <1>5, <1>6, <1>7, <1>8, <1>9, <1>10, <1>11, <1>12, <1>13 DEF Next, Worker
-----------------------------------------------------------------------------
(* r follows from q by dropping jobs whose scopes are in D and by adding   *)
(* jobs that are not differential index jobs.                              *)
Evolves(q, r, D) ==
  /\ \A n \in 1..Len(r) :
       \/ ~ (r[n].kind = "index" /\ r[n].diff)
       \/ \E m \in 1..Len(q) :
            r[n] = q[m] /\ \A f \in Files : Later(q, m, f) => f \in D \/ Later(r, n, f)
  /\ \A f \in Files : Later(q, 0, f) => f \in D \/ Later(r, 0, f)

LEMMA AppendLater ==
  ASSUME NEW q \in Seq(Jobs), NEW x \in Jobs, NEW m \in 0..Len(q), NEW f \in Files
  PROVE  /\ Later(q, m, f) => Later(Append(q, x), m, f)
         /\ f \in Scope(x) => Later(Append(q, x), m, f)
<1>1. /\ Len(Append(q, x)) = Len(q) + 1 /\ Append(q, x)[Len(q) + 1] = x
      /\ \A n \in 1..Len(q) : Append(q, x)[n] = q[n]
  OBVIOUS
<1>2. ASSUME Later(q, m, f) PROVE Later(Append(q, x), m, f)
  <2>1. PICK k \in (m + 1)..Len(q) : f \in Scope(q[k])
    BY <1>2 DEF Later
  <2>2. k \in (m + 1)..Len(Append(q, x)) /\ Append(q, x)[k] = q[k]
    BY <1>1
  <2> QED
    BY <2>1, <2>2 DEF Later
<1>3. ASSUME f \in Scope(x) PROVE Later(Append(q, x), m, f)
  <2>1. Len(q) + 1 \in (m + 1)..Len(Append(q, x))
    BY <1>1
  <2> QED
    BY <1>1, <1>3, <2>1 DEF Later
<1> QED
  BY <1>2, <1>3

LEMMA AppendEvolves ==
  ASSUME NEW q \in Seq(Jobs), NEW x \in Jobs, ~ (x.kind = "index" /\ x.diff)
  PROVE  Evolves(q, Append(q, x), {})
<1>1. /\ Len(Append(q, x)) = Len(q) + 1 /\ Append(q, x)[Len(q) + 1] = x
      /\ \A n \in 1..Len(q) : Append(q, x)[n] = q[n]
  OBVIOUS
<1>2. ASSUME NEW n \in 1..Len(Append(q, x)), n # Len(q) + 1
      PROVE  n \in 1..Len(q)
  BY <1>1, <1>2
<1> QED
  BY <1>1, <1>2, AppendLater DEF Evolves

LEMMA ShrinksEvolves ==
  ASSUME NEW q, NEW r, NEW D, Shrinks(q, r, D)
  PROVE  Evolves(q, r, D)
  BY DEF Shrinks, Evolves

(* Those who are not the worker.                                           *)
Around ==
  \/ PushCommit \/ PeriodicLook \/ PeriodicInsert \/ StopIndexing \/ UNCHANGED vars
  \/ (\E k \in UserKinds : SubmitJob(k)) \/ \E i \in 1..Len(queue) : CancelQueued(i)

LEMMA AroundStep ==
  ASSUME TypeOK, Commits, Around, [Next]_vars
  PROVE  /\ UNCHANGED <<checkout, store, job, step, locals, outrun>>
         /\ InHand' = InHand /\ Owed' = Owed
         /\ \E D : lost' = lost \cup D /\ Evolves(queue, queue', D)
<1>1. UNCHANGED <<checkout, store, job, step, locals, outrun>>
  BY DEF Around, PushCommit, PeriodicLook, PeriodicInsert, StopIndexing, SubmitJob, CancelQueued,
     vars, history
<1>2. /\ Len(hist) \in Nat \ {0} /\ head \in 0..Len(hist) /\ before \in 0..Len(hist)
      /\ \A c \in 1..Len(hist) : hist'[c] = hist[c]
  BY CommitsStep DEF TypeOK
<1>3. Changed(before, head)' = Changed(before, head)
  BY <1>1, <1>2 DEF Changed, Updated, Deleted, Present, TreeAt, checkout, locals
<1>4. InHand' = InHand
  BY <1>1, <1>3 DEF InHand, Scope, locals
<1>5. Owed' = Owed
  BY <1>1, <1>4 DEF Owed
<1>6. queue \in Seq(Jobs)
  BY ScopesTyped
<1>7. CASE PushCommit \/ PeriodicLook \/ UNCHANGED vars
  <2>1. queue' = queue /\ lost' = lost \cup {}
    BY <1>7 DEF PushCommit, PeriodicLook, vars, history
  <2>2. Evolves(queue, queue, {})
    BY DEF Evolves
  <2> QED
    BY <1>1, <1>4, <1>5, <2>1, <2>2
<1>8. CASE PeriodicInsert \/ \E k \in UserKinds : SubmitJob(k)
  <2>1. PICK k \in Kinds : queue' = Append(queue, Full(k))
    BY <1>8, RepoConstantsAssumption DEF PeriodicInsert, SubmitJob, Kinds
  <2>2. lost' = lost \cup {}
    BY <1>8 DEF PeriodicInsert, SubmitJob, history
  <2>3. Full(k) \in Jobs /\ ~ Full(k).diff
    BY DEF Full, Job, Jobs
  <2>4. Evolves(queue, Append(queue, Full(k)), {})
    BY <1>6, <2>3, AppendEvolves
  <2> QED
    BY <1>1, <1>4, <1>5, <2>1, <2>2, <2>4
<1>9. CASE StopIndexing \/ \E i \in 1..Len(queue) : CancelQueued(i)
  <2>1. PICK D : lost' = lost \cup D /\ Shrinks(queue, queue', D)
    BY <1>9, WithdrawShrinks
  <2>2. Evolves(queue, queue', D)
    BY <2>1, ShrinksEvolves
  <2> QED
    BY <1>1, <1>4, <1>5, <2>1, <2>2
<1> QED
  BY <1>7, <1>8, <1>9 DEF Around

(* The two sides of a step of the worker.                                  *)
Handling ==
  \/ ClaimJob \/ CloneRepo \/ RefreshHead \/ ResetTree \/ DecideSync \/ SpawnChild
  \/ BeginFiles \/ EndFiles \/ JobStops \/ Crash
  \/ \E f \in Files : TakeFile(f) \/ WriteFile(f) \/ FileFails(f)

LEMMA NextSplits == [Next]_vars => Around \/ Handling
  BY DEF Next, Worker, Around, Handling

(* The running job's part of the covering invariants.                      *)
LEMMA OwedFacts ==
  ASSUME TypeOK, JobSteps
  PROVE  /\ job.kind \notin {"sync", "initial"} => Owed = {}
         /\ step \in {"idle", "files"} => Owed = {}
         /\ step = "start" /\ job.kind = "sync" => Owed = {}
         /\ step = "start" /\ job.kind = "initial" => Owed = Files
         /\ step \in {"reset", "decide"} => Owed = Changed(before, head)
         /\ step = "spawn" /\ child # 1 => Owed = {}
         /\ step = "spawn" /\ child = 1 =>
              Owed = IF job.kind = "sync" THEN Changed(before, head) ELSE Files
<1>1. step = "idle" => job.kind = "none"
  BY DEF JobSteps, NoJob, Full, Job
<1>2. child # 1 <=> child > 1
  BY DEF TypeOK, FollowUp
<1> QED
  BY <1>1, <1>2 DEF Owed, InHand, Scope, JobSteps, IndexKinds
-----------------------------------------------------------------------------
(* A write touches only the file in hand, and it makes good what was lost  *)
(* only where nothing is left to spoil it.                                 *)
LEMMA WriteLost ==
  ASSUME NEW g \in Files, WriteFile(g), NEW f \in lost, f \notin lost'
  PROVE  /\ f = g /\ f \in Settled
         /\ Head(ops) = Fill({"chunks"})
  BY DEF WriteFile

LEMMA BeginLost ==
  ASSUME TypeOK, BeginFiles, NEW f \in lost, f \notin lost'
  PROVE  /\ f \in Files /\ f \in Settled /\ f \in Scope(job) /\ f \notin job.upd
         /\ job.diff => disk[f] = 0
  BY DEF BeginFiles, TypeOK

LEMMA AppendIsQueued ==
  ASSUME TypeOK, SpawnChild, child = 1
  PROVE  /\ queue' = Append(queue, IF job.kind = "initial" THEN Full("index")
                          ELSE Job("index", TRUE, Updated(before, head), Deleted(before, head)))
         /\ Full("index") \in Jobs
         /\ Job("index", TRUE, Updated(before, head), Deleted(before, head)) \in Jobs
<1>1. FollowUp[child] = "index"
  BY DEF FollowUp
<1>2. Full("index") \in Jobs
  BY DEF Full, Job, Jobs, Kinds
<1>3. Job("index", TRUE, Updated(before, head), Deleted(before, head)) \in Jobs
  BY DEF Job, Jobs, Kinds, Updated, Deleted, Present
<1> QED
  BY <1>1, <1>2, <1>3 DEF SpawnChild

LEMMA LaterSpawns ==
  ASSUME TypeOK, SpawnChild, child # 1
  PROVE  \E x \in Jobs : x.kind # "index" /\ queue' \in {queue, Append(queue, x)}
<1> DEFINE k == FollowUp[child]
           x == IF job.kind = "initial" THEN Full(k)
                ELSE Job(k, TRUE, Updated(before, head), Deleted(before, head))
<1>1. k \in Kinds /\ k # "index"
  BY DEF FollowUp, Kinds, TypeOK
<1>2. queue' \in {queue, Append(queue, x)}
  BY DEF SpawnChild
<1> HIDE DEF k
<1>3. x \in Jobs /\ x.kind # "index"
  BY <1>1 DEF Full, Job, Jobs, Updated, Deleted, Present
<1> QED
  BY <1>2, <1>3

(* Every queued differential index job that would leave a file behind is   *)
(* followed by one that takes it up.                                       *)
LEMMA QueueStep ==
  ASSUME TypeOK, JobSteps, HandWrites, Commits, Drift, QueueCovers, [Next]_vars
  PROVE  QueueCovers'
<1>q. queue \in Seq(Jobs)
  BY ScopesTyped
<1>0. /\ Len(hist) \in Nat \ {0} /\ head \in 0..Len(hist) /\ before \in 0..Len(hist)
      /\ \A c \in 1..Len(hist) : hist'[c] = hist[c]
  BY CommitsStep DEF TypeOK
<1>1. CASE Around
  <2>1. PICK D : lost' = lost \cup D /\ Evolves(queue, queue', D)
    BY <1>1, AroundStep
  <2>2. /\ UNCHANGED <<disk, store>> /\ Owed' = Owed
    BY <1>1, AroundStep DEF checkout
  <2> SUFFICES ASSUME NEW n \in 1..Len(queue'), NEW f \in Files, Misses(queue[n], f)'
               PROVE  f \in (lost \cup Owed)' \/ Later(queue, n, f)'
    BY DEF QueueCovers
  <2>3. queue'[n].kind = "index" /\ queue'[n].diff
    BY DEF Misses
  <2>4. PICK m \in 1..Len(queue) :
          queue'[n] = queue[m] /\ \A g \in Files : Later(queue, m, g) => g \in D \/ Later(queue', n, g)
    BY <2>1, <2>3 DEF Evolves
  <2>5. Misses(queue[m], f)
    BY <2>2, <2>4 DEF Misses, Chunks
  <2>6. f \in lost \cup Owed \/ Later(queue, m, f)
    BY <2>5 DEF QueueCovers
  <2>7. Later(queue, n, f)' <=> Later(queue', n, f)
    BY DEF Later
  <2> QED
    BY <2>1, <2>2, <2>4, <2>6, <2>7
<1>2. ASSUME UNCHANGED queue,
             \A n \in 1..Len(queue) : \A f \in Files :
                Misses(queue[n], f)' => \/ f \in Owed'
                                        \/ f \in lost'
                                        \/ Misses(queue[n], f) /\ f \notin (lost \cup Owed) \ (lost \cup Owed)'
      PROVE  QueueCovers'
  <2> SUFFICES ASSUME NEW n \in 1..Len(queue), NEW f \in Files, Misses(queue[n], f)'
               PROVE  f \in (lost \cup Owed)' \/ Later(queue, n, f)'
    BY <1>2 DEF QueueCovers
  <2>1. CASE Misses(queue[n], f) /\ f \notin (lost \cup Owed) \ (lost \cup Owed)'
    <3>1. f \in (lost \cup Owed)' \/ Later(queue, n, f)
      BY <2>1 DEF QueueCovers
    <3>2. Later(queue, n, f)' <=> Later(queue, n, f)
      BY <1>2 DEF Later
    <3> QED
      BY <3>1, <3>2
  <2> QED
    BY <1>2, <2>1
<1>3. ASSUME UNCHANGED <<queue, disk, store>>, lost \cup Owed \subseteq (lost \cup Owed)'
      PROVE  QueueCovers'
  <2>1. \A n \in 1..Len(queue) : \A f \in Files : Misses(queue[n], f)' => Misses(queue[n], f)
    BY <1>3 DEF Misses, Chunks
  <2> QED
    BY <1>2, <1>3, <2>1
<1>o. JobSteps' /\ TypeOK'
  BY TypeStep
<1>4. CASE ClaimJob
  <2>1. queue' = Tail(queue) /\ queue # <<>> /\ UNCHANGED <<disk, store, lost>> /\ step = "idle"
    BY <1>4 DEF ClaimJob, checkout, history
  <2>2. Len(queue') = Len(queue) - 1 /\ \A n \in 1..Len(queue') : queue'[n] = queue[n + 1]
    BY <1>q, <2>1, HeadTailProperties
  <2>3. Owed = {}
    BY <2>1, OwedFacts
  <2> SUFFICES ASSUME NEW n \in 1..Len(queue'), NEW f \in Files, Misses(queue[n], f)'
               PROVE  f \in (lost \cup Owed)' \/ Later(queue, n, f)'
    BY DEF QueueCovers
  <2>4. n + 1 \in 1..Len(queue) /\ queue'[n] = queue[n + 1]
    BY <2>2, <1>q
  <2>5. Misses(queue[n + 1], f)
    BY <2>1, <2>4 DEF Misses, Chunks
  <2>6. f \in lost \/ Later(queue, n + 1, f)
    BY <2>3, <2>4, <2>5 DEF QueueCovers
  <2>7. ASSUME Later(queue, n + 1, f) PROVE Later(queue, n, f)'
    <3>1. PICK k \in (n + 2)..Len(queue) : f \in Scope(queue[k])
      BY <2>7 DEF Later
    <3>2. k - 1 \in (n + 1)..Len(queue') /\ queue'[k - 1] = queue[k]
      BY <2>2, <1>q
    <3> QED
      BY <3>1, <3>2 DEF Later
  <2> QED
    BY <2>1, <2>6, <2>7
<1>5. CASE CloneRepo
  <2>1. job' = job /\ job.kind = "initial" /\ step' = "spawn" /\ child' = child /\ child = 1 /\ UNCHANGED queue
    BY <1>5 DEF CloneRepo, JobSteps, locals
  <2>2. Owed' = Files
    BY <2>1 DEF Owed, InHand, Scope
  <2> QED
    BY <1>2, <2>1, <2>2
<1>6. CASE RefreshHead
  <2>1. UNCHANGED <<queue, disk, store, lost>> /\ step = "start" /\ job.kind = "sync"
    BY <1>6 DEF RefreshHead, history
  <2> QED
    BY <1>3, <2>1, OwedFacts
<1>7. CASE ResetTree
  <2>1. /\ UNCHANGED <<queue, hist, head, store, lost, job>> /\ step = "reset" /\ step' = "decide"
        /\ disk' = hist[head] /\ before' = before
    BY <1>7 DEF ResetTree, history, locals
  <2>2. job.kind = "sync" /\ head # 0
    BY <2>1 DEF JobSteps
  <2>3. Owed = Changed(before, head) /\ Owed' = Changed(before, head)
    BY <2>1, <2>2 DEF Owed, InHand, Changed, Updated, Deleted, Present, TreeAt
  <2>4. ASSUME NEW f \in Files, disk'[f] # disk[f] PROVE f \in lost \cup Owed
    <3>1. CASE disk[f] # TreeAt(before)[f]
      BY <2>1, <3>1 DEF Drift
    <3>2. CASE disk[f] = TreeAt(before)[f]
      BY <2>1, <2>2, <2>3, <2>4, <3>2, ChangedFacts DEF TreeAt
    <3> QED
      BY <3>1, <3>2
  <2>5. ASSUME NEW n \in 1..Len(queue), NEW f \in Files, Misses(queue[n], f)', f \notin lost \cup Owed
        PROVE  Misses(queue[n], f)
    <3>1. disk'[f] = disk[f]
      BY <2>4, <2>5
    <3> QED
      BY <2>1, <2>5, <3>1 DEF Misses, Chunks
  <2> QED
    BY <1>2, <2>1, <2>3, <2>5
<1>8. CASE DecideSync
  <2>1. UNCHANGED <<queue, disk, store, lost, hist, head>> /\ step = "decide" /\ job.kind = "sync" /\ child = 1
    BY <1>8 DEF DecideSync, checkout, history, JobSteps
  <2>2. Owed = Changed(before, head)
    BY <2>1, OwedFacts
  <2>3. CASE (before = head /\ known) \/ Changed(before, head) = {}
    <3>1. Changed(before, head) = {}
      BY <2>3 DEF Changed, Updated, Deleted
    <3> QED
      BY <1>3, <2>1, <2>2, <3>1
  <2>4. CASE ~ ((before = head /\ known) \/ Changed(before, head) = {})
    <3>1. step' = "spawn" /\ UNCHANGED <<job, before, child>>
      BY <1>8, <2>4 DEF DecideSync, locals
    <3>2. Owed' = Changed(before, head)
      BY <2>1, <3>1 DEF Owed, InHand, Changed, Updated, Deleted, Present, TreeAt
    <3> QED
      BY <1>3, <2>1, <2>2, <3>2
  <2> QED
    BY <2>3, <2>4
<1>9. CASE SpawnChild /\ child # 1
  <2>1. PICK x \in Jobs : x.kind # "index" /\ queue' \in {queue, Append(queue, x)}
    BY <1>9, LaterSpawns
  <2>2. UNCHANGED <<disk, store, lost>> /\ step = "spawn" /\ Owed = {}
    BY <1>9, OwedFacts DEF SpawnChild, checkout, history
  <2>3. CASE queue' = queue
    BY <1>3, <2>2, <2>3
  <2>4. CASE queue' = Append(queue, x)
    <3>1. /\ Len(queue') = Len(queue) + 1 /\ queue'[Len(queue) + 1] = x
          /\ \A n \in 1..Len(queue) : queue'[n] = queue[n]
      BY <1>q, <2>4
    <3> SUFFICES ASSUME NEW n \in 1..Len(queue'), NEW f \in Files, Misses(queue[n], f)'
                 PROVE  f \in lost \/ Later(queue', n, f)
      BY <2>2 DEF QueueCovers, Later
    <3>2. n \in 1..Len(queue)
      BY <1>q, <2>1, <3>1 DEF Misses
    <3>3. Misses(queue[n], f)
      BY <2>2, <3>1, <3>2 DEF Misses, Chunks
    <3>4. f \in lost \/ Later(queue, n, f)
      BY <2>2, <3>2, <3>3 DEF QueueCovers
    <3> QED
      BY <1>q, <2>4, <3>2, <3>4, AppendLater
  <2> QED
    BY <2>1, <2>3, <2>4
<1>10. CASE SpawnChild /\ child = 1
  <2> DEFINE x == IF job.kind = "initial" THEN Full("index")
                  ELSE Job("index", TRUE, Updated(before, head), Deleted(before, head))
  <2>1. queue' = Append(queue, x) /\ x \in Jobs
    BY <1>10, AppendIsQueued
  <2>2. UNCHANGED <<disk, store, lost>> /\ step = "spawn"
    BY <1>10 DEF SpawnChild, checkout, history
  <2>3. job.kind \in {"initial", "sync"}
    BY <2>2 DEF JobSteps
  <2>4. \A f \in Owed : f \in Scope(x)
    BY <1>10, <2>2, <2>3, OwedFacts DEF Scope, Full, Job, Changed
  <2>5. ASSUME NEW f \in Files, Misses(x, f) PROVE f \in lost
    <3>1. x = Job("index", TRUE, Updated(before, head), Deleted(before, head))
      BY <2>5 DEF Misses, Full, Job
    <3>2. disk[f] # TreeAt(head)[f]
      BY <2>5, <3>1, ChangedFacts DEF Misses, Job
    <3> QED
      BY <2>2, <3>2 DEF Drift
  <2> HIDE DEF x
  <2>6. /\ Len(queue') = Len(queue) + 1 /\ queue'[Len(queue) + 1] = x
        /\ \A n \in 1..Len(queue) : queue'[n] = queue[n]
    BY <1>q, <2>1
  <2> SUFFICES ASSUME NEW n \in 1..Len(queue'), NEW f \in Files, Misses(queue[n], f)'
               PROVE  f \in lost \/ Later(queue', n, f)
    BY <2>2 DEF QueueCovers, Later
  <2>7. CASE n = Len(queue) + 1
    <3>1. Misses(x, f)
      BY <2>2, <2>6, <2>7 DEF Misses, Chunks
    <3> QED
      BY <2>5, <3>1
  <2>8. CASE n # Len(queue) + 1
    <3>1. n \in 1..Len(queue)
      BY <1>q, <2>6, <2>8
    <3>2. Misses(queue[n], f)
      BY <2>2, <2>6, <3>1 DEF Misses, Chunks
    <3>3. f \in lost \cup Owed \/ Later(queue, n, f)
      BY <3>1, <3>2 DEF QueueCovers
    <3> QED
      BY <1>q, <2>1, <2>4, <3>1, <3>3, AppendLater
  <2> QED
    BY <2>7, <2>8
<1>11. CASE BeginFiles
  <2>1. UNCHANGED <<queue, disk, job>> /\ job.kind \in IndexKinds
    BY <1>11 DEF BeginFiles, checkout, IndexKinds
  <2>2. Owed = {}
    BY <2>1, OwedFacts DEF IndexKinds
  <2>3. ASSUME NEW n \in 1..Len(queue), NEW f \in Files, Misses(queue[n], f)'
        PROVE  Misses(queue[n], f) /\ ~ (f \in lost /\ f \notin lost')
    <3>1. Chunks(f)' \in {0, Chunks(f)}
      BY <1>11, BeginFilesFacts
    <3>2. Misses(queue[n], f)
      BY <2>1, <2>3, <3>1 DEF Misses
    <3>3. ASSUME f \in lost, f \notin lost' PROVE FALSE
      <4>1. f \in Settled /\ f \in Scope(job) /\ f \notin job.upd /\ (job.diff => disk[f] = 0)
        BY <1>11, <3>3, BeginLost
      <4>2. ~ (f \in queue[n].del)
        BY <3>2, <4>1 DEF Settled, Misses
      <4>3. disk[f] = 0 /\ Chunks(f)' # 0
        BY <2>1, <2>3, <4>2 DEF Misses
      <4>4. job.kind = "index"
        BY <2>1, <4>1 DEF Scope, IndexKinds
      <4>5. job.diff => f \in job.del
        BY <4>1, <4>4 DEF Scope
      <4> QED
        BY <1>11, <4>3, <4>4, <4>5, BeginFilesFacts
    <3> QED
      BY <3>2, <3>3
  <2> QED
    BY <1>2, <2>1, <2>2, <2>3
<1>12. ASSUME NEW g \in Files, WriteFile(g) PROVE QueueCovers'
  <2>1. UNCHANGED <<queue, disk>> /\ step = "files" /\ disk[g] # 0
    BY <1>12, WriteFileFacts DEF WriteFile, checkout
  <2>2. Owed = {}
    BY <2>1, OwedFacts
  <2>3. ASSUME NEW n \in 1..Len(queue), NEW f \in Files, Misses(queue[n], f)'
        PROVE  Misses(queue[n], f) /\ ~ (f \in lost /\ f \notin lost')
    <3>1. CASE f = g
      <4>1. Misses(queue[n], f) /\ f \in queue[n].del
        BY <2>1, <2>3, <3>1 DEF Misses
      <4>2. f \notin Settled
        BY <4>1 DEF Misses, Settled
      <4> QED
        BY <1>12, <4>1, <4>2, WriteLost
    <3>2. CASE f # g
      <4>1. Chunks(f)' = Chunks(f)
        BY <1>12, <3>2, WriteFileFacts
      <4>2. Misses(queue[n], f)
        BY <2>1, <2>3, <4>1 DEF Misses
      <4> QED
        BY <1>12, <3>2, <4>2, WriteLost
    <3> QED
      BY <3>1, <3>2
  <2> QED
    BY <1>2, <2>1, <2>2, <2>3
<1>13. CASE EndFiles \/ \E f \in Files : TakeFile(f) \/ FileFails(f)
  <2>1. step = "files" /\ UNCHANGED <<queue, disk, store>> /\ lost \subseteq lost'
    BY <1>13 DEF EndFiles, TakeFile, FileFails, checkout, history
  <2> QED
    BY <1>3, <2>1, OwedFacts
<1>14. CASE JobStops \/ Crash
  <2>1. UNCHANGED <<queue, disk, store>> /\ lost' = lost \cup InHand
    BY <1>14 DEF JobStops, Crash, checkout
  <2>2. Owed \subseteq InHand
    BY DEF Owed
  <2> QED
    BY <1>3, <2>1, <2>2
<1> QED
  BY <1>1, <1>4, <1>5, <1>6, <1>7, <1>8, <1>9, <1>10, <1>11, <1>12, <1>13, <1>14, NextSplits DEF Handling
-----------------------------------------------------------------------------
(* A running differential index job leaves no file behind either.          *)
LEMMA RunningStep ==
  ASSUME TypeOK, JobSteps, HandWrites, Commits, QueueCovers, StartCovers, FilesCover, [Next]_vars
  PROVE  StartCovers' /\ FilesCover'
<1>q. queue \in Seq(Jobs)
  BY ScopesTyped
<1>0. step' \notin {"start", "files"} => StartCovers' /\ FilesCover'
  BY DEF StartCovers, FilesCover
<1>1. CASE Around
  <2>1. PICK D : lost' = lost \cup D /\ Evolves(queue, queue', D)
    BY <1>1, AroundStep
  <2>2. UNCHANGED <<disk, store, job, step, todo>>
    BY <1>1, AroundStep DEF checkout, locals
  <2>3. ASSUME NEW f \in Files, f \in lost \/ Later(queue, 0, f)
        PROVE  f \in lost' \/ Later(queue', 0, f)
    BY <2>1, <2>3 DEF Evolves
  <2>4. \A f \in Files : Later(queue, 0, f)' <=> Later(queue', 0, f)
    BY DEF Later
  <2>5. StartCovers'
    BY <2>2, <2>3, <2>4 DEF StartCovers, Misses, Chunks
  <2>6. FilesCover'
    BY <2>2, <2>3, <2>4 DEF FilesCover, Chunks, TypeOK
  <2> QED
    BY <2>5, <2>6
<1>2. CASE ClaimJob
  <2>1. /\ queue' = Tail(queue) /\ queue # <<>> /\ UNCHANGED <<disk, store, lost>>
        /\ step = "idle" /\ step' = "start" /\ job' = Head(queue)
    BY <1>2 DEF ClaimJob, checkout, history
  <2>2. /\ Len(queue) \in Nat \ {0} /\ Len(queue') = Len(queue) - 1 /\ job' = queue[1]
        /\ \A n \in 1..Len(queue') : queue'[n] = queue[n + 1]
    BY <1>q, <2>1, HeadTailProperties, EmptySeq
  <2>3. Owed = {}
    BY <2>1, OwedFacts
  <2>4. ASSUME NEW f \in Files, Misses(job, f)' PROVE (f \in lost \/ Later(queue, 0, f))'
    <3>1. Misses(queue[1], f)
      BY <2>1, <2>2, <2>4 DEF Misses, Chunks
    <3>2. f \in lost \/ Later(queue, 1, f)
      BY <2>2, <2>3, <3>1 DEF QueueCovers
    <3>3. ASSUME Later(queue, 1, f) PROVE Later(queue, 0, f)'
      <4>1. PICK k \in 2..Len(queue) : f \in Scope(queue[k])
        BY <3>3 DEF Later
      <4>2. k - 1 \in 1..Len(queue') /\ queue'[k - 1] = queue[k]
        BY <2>2
      <4> QED
        BY <4>1, <4>2 DEF Later
    <3> QED
      BY <2>1, <3>2, <3>3
  <2> QED
    BY <2>1, <2>4 DEF StartCovers, FilesCover
<1>3. CASE CloneRepo \/ RefreshHead \/ ResetTree
  BY <1>0, <1>3 DEF CloneRepo, RefreshHead, ResetTree
<1>4. CASE DecideSync \/ SpawnChild \/ EndFiles \/ JobStops \/ Crash
  <2>1. step' \in {"idle", "spawn"}
    BY <1>4 DEF DecideSync, SpawnChild, EndFiles, JobStops, Crash, EndJob
  <2> QED
    BY <1>0, <2>1
<1>5. CASE BeginFiles
  <2>1. /\ UNCHANGED <<queue, disk, job>> /\ step = "start" /\ step' = "files"
        /\ todo' = IF job.diff THEN job.upd ELSE Present(disk)
    BY <1>5 DEF BeginFiles, checkout
  <2> SUFFICES ASSUME job.kind = "index", NEW f \in todo', disk[f] = 0, Chunks(f)' # 0
               PROVE  f \in lost' \/ Later(queue, 0, f)'
    BY <2>1 DEF StartCovers, FilesCover
  <2>2. job.diff /\ f \in job.upd /\ f \in Files
    BY <2>1 DEF Present, TypeOK
  <2>3. Chunks(f) # 0
    BY <1>5, <2>2, BeginFilesFacts
  <2>4. f \in lost \/ Later(queue, 0, f)
    BY <2>1, <2>2, <2>3 DEF StartCovers, Misses
  <2>5. f \in lost => f \in lost'
    BY <1>5, <2>2, BeginLost
  <2> QED
    BY <2>1, <2>4, <2>5 DEF Later
<1>6. CASE \E g \in Files : TakeFile(g) \/ FileFails(g)
  <2>1. /\ UNCHANGED <<queue, disk, store, job, step>> /\ step = "files" /\ todo' \subseteq todo /\ lost \subseteq lost'
    BY <1>6 DEF TakeFile, FileFails, checkout, history
  <2> QED
    BY <2>1 DEF StartCovers, FilesCover, Chunks, Later
<1>7. ASSUME NEW g \in Files, WriteFile(g) PROVE StartCovers' /\ FilesCover'
  <2>1. UNCHANGED <<queue, disk, job, step, todo>> /\ step = "files" /\ disk[g] # 0
    BY <1>7, WriteFileFacts DEF WriteFile, checkout
  <2>2. ASSUME NEW f \in todo, disk[f] = 0 PROVE Chunks(f)' = Chunks(f) /\ (f \in lost => f \in lost')
    BY <1>7, <2>1, <2>2, WriteFileFacts, WriteLost DEF TypeOK
  <2> QED
    BY <2>1, <2>2 DEF StartCovers, FilesCover, Later
<1> QED
  BY <1>1, <1>2, <1>3, <1>4, <1>5, <1>6, <1>7, NextSplits DEF Handling

(* A file whose row has the present mtime while its chunks are old is      *)
(* being indexed, lost or outrun.                                          *)
LEMMA RowFreshStep ==
  ASSUME TypeOK, JobSteps, HandWrites, Commits, RowBehind, RowFresh, [Next]_vars
  PROVE  RowFresh'
<1>0. /\ Len(hist) \in Nat \ {0} /\ head \in 0..Len(hist) /\ before \in 0..Len(hist)
  BY DEF TypeOK
<1>1. ASSUME UNCHANGED <<disk, store>>,
             lost \cup outrun \cup Making \subseteq (lost \cup outrun \cup Making)'
      PROVE  RowFresh'
  BY <1>1 DEF RowFresh, Row, Chunks
<1>2. CASE Around
  <2>1. UNCHANGED <<disk, store, job, step, hand, todo, outrun>> /\ lost \subseteq lost'
    BY <1>2, AroundStep DEF checkout, locals
  <2>2. Making' = Making
    BY <2>1 DEF Making
  <2> QED
    BY <1>1, <2>1, <2>2
<1>3. step # "files" => Making = {}
  BY DEF Making
<1>4. CASE ClaimJob \/ RefreshHead \/ DecideSync \/ SpawnChild
  <2>1. UNCHANGED <<disk, store, lost, outrun>> /\ step \in {"idle", "start", "decide", "spawn"}
    BY <1>4 DEF ClaimJob, RefreshHead, DecideSync, SpawnChild, checkout, history
  <2> QED
    BY <1>1, <1>3, <2>1
<1>5. CASE CloneRepo \/ ResetTree
  <2>1. PICK d \in 0..head : disk = TreeAt(d) /\ \A f \in Files : Row(f) <= d
    BY DEF RowBehind
  <2>2. PICK e \in 1..Len(hist) : disk' = hist[e] /\ d <= e
    <3>1. CASE CloneRepo
      <4>1. disk' = hist[Len(hist)] /\ Len(hist) \in 1..Len(hist) /\ d <= Len(hist)
        BY <1>0, <3>1, <2>1 DEF CloneRepo, Remote
      <4> QED
        BY <4>1
    <3>2. CASE ResetTree
      <4>1. disk' = hist[head] /\ head # 0
        BY <3>2 DEF ResetTree, JobSteps
      <4> QED
        BY <1>0, <2>1, <4>1
    <3> QED
      BY <1>5, <3>1, <3>2
  <2>3. UNCHANGED <<store, lost, outrun>> /\ step # "files"
    BY <1>5 DEF CloneRepo, ResetTree, history
  <2>4. ASSUME NEW f \in Files, disk'[f] # 0, Row(f) = disk'[f] PROVE disk'[f] = disk[f]
    <3>1. Row(f) \in Nat /\ Row(f) <= d
      BY <2>1 DEF Row, TypeOK, Version, Parts
    <3>2. d # 0
      BY <1>0, <2>4, <3>1
    <3>3. d \in 1..e /\ disk[f] = hist[d][f]
      BY <1>0, <2>1, <2>2, <3>2 DEF TreeAt
    <3>4. hist[e][f] \in {hist[d][f], 0} \/ hist[e][f] > d
      BY <3>3 DEF Commits
    <3>5. ~ (hist[e][f] > d)
      BY <1>0, <2>1, <2>2, <2>4, <3>1
    <3> QED
      BY <2>2, <2>4, <3>3, <3>4, <3>5
  <2> QED
    BY <1>3, <2>3, <2>4 DEF RowFresh, Row, Chunks
<1>6. CASE BeginFiles
  <2>1. /\ UNCHANGED <<disk, job, outrun, hand>> /\ step = "start" /\ step' = "files"
        /\ todo' = IF job.diff THEN job.upd ELSE Present(disk)
    BY <1>6 DEF BeginFiles, checkout
  <2> SUFFICES ASSUME NEW f \in Files, disk[f] # 0, Row(f)' = disk[f], Chunks(f)' # disk[f]
               PROVE  f \in (lost \cup outrun \cup Making)'
    BY <2>1 DEF RowFresh
  <2>2. CASE job.kind = "index" /\ ~ job.diff
    BY <2>1, <2>2 DEF Making, Present
  <2>3. CASE ~ (job.kind = "index" /\ ~ job.diff)
    <3>1. Row(f)' = Row(f) /\ Chunks(f)' = Chunks(f)
      BY <1>6, <2>3, BeginFilesFacts
    <3>2. f \in lost \cup outrun
      BY <1>3, <2>1, <3>1 DEF RowFresh
    <3>3. f \in lost => f \in lost'
      <4>1. job.kind \in IndexKinds
        BY <1>6 DEF BeginFiles, IndexKinds
      <4>2. f \in Scope(job) => job.diff
        BY <2>3, <4>1 DEF Scope, IndexKinds
      <4> QED
        BY <1>6, <4>2, BeginLost
    <3> QED
      BY <2>1, <3>2, <3>3
  <2> QED
    BY <2>2, <2>3
<1>7. ASSUME NEW g \in Files, TakeFile(g) PROVE RowFresh'
  <2>1. UNCHANGED <<disk, store, lost, outrun, job, step>> /\ todo' = todo \ {g} /\ hand = {} /\ step = "files"
    BY <1>7 DEF TakeFile, checkout, history
  <2>2. ASSUME NEW f \in Files, disk[f] # 0, Row(f) = disk[f], Chunks(f) # disk[f]
        PROVE  f \in lost \cup outrun \cup Making'
    <3>1. f \in lost \cup outrun \cup Making
      BY <2>2 DEF RowFresh
    <3>2. CASE f \in Making /\ f = g
      <4>1. job.kind = "index" /\ ~ job.diff
        BY <2>1, <3>2 DEF Making
      <4>2. hand' = {g}
        BY <1>7, <2>2, <3>2, <4>1 DEF TakeFile, Unchanged
      <4> QED
        BY <2>1, <3>2, <4>1, <4>2 DEF Making
    <3>3. CASE f \in Making /\ f # g
      BY <2>1, <3>3 DEF Making
    <3> QED
      BY <3>1, <3>2, <3>3
  <2> QED
    BY <2>1, <2>2 DEF RowFresh, Row, Chunks
<1>8. ASSUME NEW g \in Files, WriteFile(g) PROVE RowFresh'
  <2>1. UNCHANGED <<disk, job, step, todo>> /\ step = "files" /\ hand = {g} /\ disk[g] # 0
    BY <1>8, WriteFileFacts DEF WriteFile, checkout
  <2>2. /\ ops # <<>> /\ Head(ops) = ops[1]
        /\ Row(g)' = (IF "row" \notin ops[1].parts THEN Row(g) ELSE IF ops[1].wipe THEN 0 ELSE disk[g])
        /\ Chunks(g)' = (IF "chunks" \notin ops[1].parts THEN Chunks(g) ELSE IF ops[1].wipe THEN 0 ELSE disk[g])
        /\ \A f \in Files \ {g} : Row(f)' = Row(f) /\ Chunks(f)' = Chunks(f)
    BY <1>8, WriteFileFacts
  <2> SUFFICES ASSUME NEW f \in Files, disk[f] # 0, Row(f)' = disk[f], Chunks(f)' # disk[f]
               PROVE  f \in (lost \cup outrun \cup Making)'
    BY <2>1 DEF RowFresh
  <2>3. CASE f # g
    <3>1. f \in lost \cup outrun \cup Making
      BY <2>2, <2>3 DEF RowFresh
    <3>2. f \in lost => f \in lost'
      BY <1>8, <2>3, WriteLost
    <3>3. f \in outrun => f \in outrun'
      BY <1>8, <2>3 DEF WriteFile
    <3>4. f \in Making => f \in Making'
      BY <2>1, <2>3 DEF Making
    <3> QED
      BY <3>1, <3>2, <3>3, <3>4
  <2>4. CASE f = g
    <3>0. Head(ops) # Fill({"chunks"})
      BY <2>2, <2>4 DEF Fill
    <3>00. lost' = lost /\ (Head(ops) = Fill({"row"}) /\ job.kind # "index" /\ Chunks(g) # disk[g] => g \in outrun') /\ outrun \subseteq outrun'
      BY <1>8, <3>0 DEF WriteFile, Chunks
    <3>1. CASE job.kind = "index"
      <4>1. hand' = {g}
        <5>1. Len(ops) # 1
          BY <2>1, <2>2, <3>0, <3>1 DEF HandWrites
        <5> QED
          BY <1>8, <2>1, <5>1 DEF WriteFile
      <4> QED
        BY <2>1, <2>4, <3>1, <4>1 DEF Making
    <3>2. CASE job.kind # "index"
      <4>1. Making = {}
        BY <3>2 DEF Making
      <4>2. "chunks" \notin ops[1].parts
        <5>1. 1 \in 1..Len(ops)
          BY <2>2, EmptySeq DEF TypeOK
        <5> QED
          BY <2>1, <3>2, <5>1 DEF HandWrites
      <4>3. Chunks(g)' = Chunks(g)
        BY <2>2, <4>2
      <4>4. CASE Row(g) = disk[g]
        BY <2>4, <3>00, <4>1, <4>3, <4>4 DEF RowFresh
      <4>5. CASE Row(g) # disk[g]
        <5>1. "row" \in ops[1].parts /\ ~ ops[1].wipe
          BY <2>2, <2>4, <4>5
        <5>2. ops[1] = Fill({"row"})
          <6>1. 1 \in 1..Len(ops)
            BY <2>2, EmptySeq DEF TypeOK
          <6> QED
            BY <2>1, <5>1, <6>1 DEF HandWrites
        <5> QED
          BY <2>2, <2>4, <3>00, <3>2, <4>3, <5>2
      <4> QED
        BY <4>4, <4>5
    <3> QED
      BY <3>1, <3>2
  <2> QED
    BY <2>3, <2>4
<1>9. ASSUME NEW g \in Files, FileFails(g) PROVE RowFresh'
  <2>1. /\ UNCHANGED <<disk, store, outrun, job, step, todo>> /\ hand = {g} /\ hand' = {} /\ step = "files"
        /\ lost' = lost \cup (InHand \cap {g})
    BY <1>9 DEF FileFails, checkout
  <2>2. job.kind = "index" => g \in InHand
    BY <2>1 DEF InHand
  <2>3. Making \subseteq lost' \cup Making'
    BY <2>1, <2>2 DEF Making
  <2> QED
    BY <1>1, <2>1, <2>3
<1>10. CASE JobStops \/ Crash
  <2>1. UNCHANGED <<disk, store, outrun>> /\ lost' = lost \cup InHand
    BY <1>10 DEF JobStops, Crash, checkout
  <2>2. Making \subseteq InHand
    BY DEF Making, InHand
  <2> QED
    BY <1>1, <2>1, <2>2
<1>11. CASE EndFiles
  <2>1. UNCHANGED <<disk, store, lost, outrun>> /\ todo = {} /\ hand = {}
    BY <1>11 DEF EndFiles, checkout, history
  <2>2. Making = {}
    BY <2>1 DEF Making
  <2> QED
    BY <1>1, <2>1, <2>2
<1> QED
  BY <1>2, <1>4, <1>5, <1>6, <1>7, <1>8, <1>9, <1>10, <1>11, NextSplits DEF Handling
-----------------------------------------------------------------------------
LEMMA PendingFacts ==
  ASSUME NEW f
  PROVE  f \in Pending <=> f \in InHand \/ Later(queue, 0, f)
  BY DEF Pending, Later

(* A stale file keeps a job that is to index it.                           *)
LEMMA StaleStep ==
  ASSUME TypeOK, JobSteps, HandWrites, Commits, Drift, StartCovers, FilesCover, RowFresh,
         StaleIsPending, [Next]_vars
  PROVE  StaleIsPending'
<1>q. queue \in Seq(Jobs)
  BY ScopesTyped
<1>0. /\ Len(hist) \in Nat \ {0} /\ head \in 0..Len(hist) /\ before \in 0..Len(hist)
  BY DEF TypeOK
<1>i. \A f \in Files : Chunks(f) # disk[f] => f \in lost \cup outrun \cup InHand \/ Later(queue, 0, f)
  BY PendingFacts DEF StaleIsPending, Chunks
<1> SUFFICES ASSUME NEW f \in Files, Chunks(f)' # disk'[f]
             PROVE  f \in lost' \cup outrun' \cup InHand' \/ Later(queue', 0, f)
  BY DEF StaleIsPending, Chunks, Pending, Later
<1>1. ASSUME UNCHANGED <<disk, store, queue>>,
             lost \cup outrun \cup InHand \subseteq lost' \cup outrun' \cup InHand'
      PROVE  f \in lost' \cup outrun' \cup InHand' \/ Later(queue', 0, f)
  BY <1>1, <1>i DEF Chunks
<1>2. CASE Around
  <2>1. PICK D : lost' = lost \cup D /\ Evolves(queue, queue', D)
    BY <1>2, AroundStep
  <2>2. UNCHANGED <<disk, store, outrun>> /\ InHand' = InHand
    BY <1>2, AroundStep DEF checkout
  <2>3. f \in lost \cup outrun \cup InHand \/ Later(queue, 0, f)
    BY <1>i, <2>2 DEF Chunks
  <2> QED
    BY <2>1, <2>2, <2>3 DEF Evolves
<1>3. CASE ClaimJob
  <2>1. /\ queue' = Tail(queue) /\ queue # <<>> /\ UNCHANGED <<disk, store, lost, outrun>>
        /\ step = "idle" /\ step' = "start" /\ job' = Head(queue) /\ child' = child
    BY <1>3 DEF ClaimJob, checkout, history, locals
  <2>2. /\ Len(queue) \in Nat \ {0} /\ Len(queue') = Len(queue) - 1 /\ job' = queue[1]
        /\ \A n \in 1..Len(queue') : queue'[n] = queue[n + 1]
    BY <1>q, <2>1, HeadTailProperties, EmptySeq
  <2>3. InHand = {}
    BY <2>1 DEF InHand, Scope, JobSteps, NoJob, Full, Job
  <2>4. Scope(queue[1]) \subseteq InHand'
    BY <2>1, <2>2 DEF InHand, Scope
  <2>5. f \in lost \cup outrun \/ Later(queue, 0, f)
    BY <1>i, <2>1, <2>3 DEF Chunks
  <2>6. ASSUME Later(queue, 0, f) PROVE f \in InHand' \/ Later(queue', 0, f)
    <3>1. PICK k \in 1..Len(queue) : f \in Scope(queue[k])
      BY <2>6 DEF Later
    <3>2. CASE k = 1
      BY <2>4, <3>1, <3>2
    <3>3. CASE k # 1
      <4>1. k - 1 \in 1..Len(queue') /\ queue'[k - 1] = queue[k]
        BY <2>2, <3>3
      <4> QED
        BY <3>1, <4>1 DEF Later
    <3> QED
      BY <3>2, <3>3
  <2> QED
    BY <2>1, <2>5, <2>6
<1>4. CASE CloneRepo
  <2>1. job' = job /\ job.kind = "initial" /\ step' = "spawn" /\ child' = child /\ child = 1
    BY <1>4 DEF CloneRepo, JobSteps, locals
  <2>2. InHand' = Files
    BY <2>1 DEF InHand, Scope
  <2> QED
    BY <2>2
<1>5. CASE RefreshHead
  <2>1. UNCHANGED <<disk, store, queue, lost, outrun>> /\ step = "start" /\ job.kind = "sync"
    BY <1>5 DEF RefreshHead, history
  <2>2. InHand = {}
    BY <2>1 DEF InHand
  <2> QED
    BY <1>1, <2>1, <2>2
<1>6. CASE ResetTree
  <2>1. /\ UNCHANGED <<queue, hist, head, before, store, lost, outrun, job>> /\ step = "reset" /\ step' = "decide"
        /\ disk' = hist[head]
    BY <1>6 DEF ResetTree, history, locals
  <2>2. job.kind = "sync" /\ head # 0
    BY <2>1 DEF JobSteps
  <2>3. InHand = Changed(before, head) /\ InHand' = Changed(before, head)
    BY <2>1, <2>2 DEF InHand, Changed, Updated, Deleted, Present, TreeAt
  <2>4. CASE disk'[f] = disk[f]
    BY <1>i, <2>1, <2>3, <2>4 DEF Chunks
  <2>5. CASE disk[f] # TreeAt(before)[f]
    BY <2>1, <2>5 DEF Drift
  <2>6. CASE disk[f] = TreeAt(before)[f] /\ disk'[f] # disk[f]
    BY <2>1, <2>2, <2>3, <2>6, ChangedFacts DEF TreeAt
  <2> QED
    BY <2>4, <2>5, <2>6
<1>7. CASE DecideSync
  <2>1. /\ UNCHANGED <<queue, disk, store, lost, outrun, hist, head>> /\ step = "decide"
        /\ job.kind = "sync" /\ child = 1
    BY <1>7 DEF DecideSync, checkout, history, JobSteps
  <2>2. InHand = Changed(before, head)
    BY <2>1 DEF InHand
  <2>3. CASE (before = head /\ known) \/ Changed(before, head) = {}
    <3>1. Changed(before, head) = {}
      BY <2>3 DEF Changed, Updated, Deleted
    <3> QED
      BY <1>1, <2>1, <2>2, <3>1
  <2>4. CASE ~ ((before = head /\ known) \/ Changed(before, head) = {})
    <3>1. step' = "spawn" /\ UNCHANGED <<job, before, child>>
      BY <1>7, <2>4 DEF DecideSync, locals
    <3>2. InHand' = Changed(before, head)
      BY <2>1, <3>1 DEF InHand, Changed, Updated, Deleted, Present, TreeAt
    <3> QED
      BY <1>1, <2>1, <2>2, <3>2
  <2> QED
    BY <2>3, <2>4
<1>s. step = "spawn" => /\ job.kind \in {"initial", "sync"}
                        /\ child # 1 => InHand = {}
                        /\ child = 1 => InHand = IF job.kind = "sync" THEN Changed(before, head) ELSE Files
  <2>1. child # 1 <=> child > 1
    BY DEF TypeOK, FollowUp
  <2> QED
    BY <2>1 DEF InHand, Scope, JobSteps
<1>8. CASE SpawnChild /\ child # 1
  <2>1. PICK x \in Jobs : queue' \in {queue, Append(queue, x)}
    BY <1>8, LaterSpawns
  <2>2. UNCHANGED <<disk, store, lost, outrun>> /\ InHand = {}
    BY <1>8, <1>s DEF SpawnChild, checkout, history
  <2>3. f \in lost \cup outrun \/ Later(queue, 0, f)
    BY <1>i, <2>2 DEF Chunks
  <2>4. Later(queue, 0, f) => Later(queue', 0, f)
    <3>1. 0 \in 0..Len(queue)
      BY <1>q
    <3> QED
      BY <1>q, <2>1, <3>1, AppendLater
  <2> QED
    BY <2>2, <2>3, <2>4
<1>9. CASE SpawnChild /\ child = 1
  <2> DEFINE x == IF job.kind = "initial" THEN Full("index")
                  ELSE Job("index", TRUE, Updated(before, head), Deleted(before, head))
  <2>1. queue' = Append(queue, x) /\ x \in Jobs
    BY <1>9, AppendIsQueued
  <2>2. UNCHANGED <<disk, store, lost, outrun>> /\ step = "spawn"
    BY <1>9 DEF SpawnChild, checkout, history
  <2>3. f \in InHand => f \in Scope(x)
    BY <1>9, <1>s, <2>2 DEF Scope, Full, Job, Changed
  <2> HIDE DEF x
  <2>4. f \in lost \cup outrun \cup InHand \/ Later(queue, 0, f)
    BY <1>i, <2>2 DEF Chunks
  <2>5. 0 \in 0..Len(queue)
    BY <1>q
  <2>6. f \in InHand \/ Later(queue, 0, f) => Later(queue', 0, f)
    BY <1>q, <2>1, <2>3, <2>5, AppendLater
  <2> QED
    BY <2>2, <2>4, <2>6
<1>10. CASE BeginFiles
  <2>1. /\ UNCHANGED <<disk, job, outrun, hand, queue>> /\ step = "start" /\ step' = "files"
        /\ todo' = IF job.diff THEN job.upd ELSE Present(disk)
        /\ job.kind \in IndexKinds
    BY <1>10 DEF BeginFiles, checkout, IndexKinds
  <2>2. CASE job.kind = "index" /\ ~ job.diff
    <3>1. Chunks(f)' = 0 /\ f \in todo'
      BY <1>10, <2>1, <2>2, BeginFilesFacts DEF Present
    <3> QED
      BY <2>1, <2>2, <3>1 DEF InHand
  <2>3. CASE job.kind = "index" /\ job.diff /\ f \in job.del /\ f \notin job.upd
    <3>1. disk[f] # 0
      BY <1>10, <2>1, <2>3, BeginFilesFacts
    <3>2. f \in lost \/ Later(queue, 0, f)
      BY <2>1, <2>3, <3>1 DEF StartCovers, Misses
    <3>3. f \in lost => f \in lost'
      BY <1>10, <2>3, <3>1, BeginLost
    <3> QED
      BY <2>1, <3>2, <3>3
  <2>4. CASE job.kind = "index" /\ job.diff /\ f \in job.upd
    BY <2>1, <2>4 DEF InHand
  <2>5. CASE job.kind = "index" /\ job.diff /\ f \notin job.del /\ f \notin job.upd
    <3>1. Chunks(f)' = Chunks(f)
      BY <1>10, <2>5, BeginFilesFacts
    <3>2. f \notin Scope(job)
      BY <2>5 DEF Scope
    <3>3. f \notin InHand
      BY <2>1, <2>5, <3>2 DEF InHand
    <3>4. f \in lost => f \in lost'
      BY <1>10, <3>2, BeginLost
    <3> QED
      BY <1>i, <2>1, <3>1, <3>3, <3>4
  <2>6. CASE job.kind # "index"
    <3>1. Chunks(f)' = Chunks(f)
      BY <1>10, <2>6, BeginFilesFacts
    <3>2. f \notin Scope(job) /\ f \notin InHand
      BY <2>1, <2>6 DEF InHand, Scope, IndexKinds
    <3>3. f \in lost => f \in lost'
      BY <1>10, <3>2, BeginLost
    <3> QED
      BY <1>i, <2>1, <3>1, <3>2, <3>3
  <2> QED
    BY <2>2, <2>3, <2>4, <2>5, <2>6
<1>11. ASSUME NEW g \in Files, TakeFile(g)
       PROVE  f \in lost' \cup outrun' \cup InHand' \/ Later(queue', 0, f)
  <2>1. /\ UNCHANGED <<disk, store, lost, outrun, job, step, queue>> /\ todo' = todo \ {g} /\ hand = {}
        /\ step = "files" /\ g \in todo
    BY <1>11 DEF TakeFile, checkout, history
  <2>2. f \in lost \cup outrun \cup InHand \/ Later(queue, 0, f)
    BY <1>i, <2>1 DEF Chunks
  <2>3. CASE f \in InHand /\ f = g /\ job.kind = "index"
    <3>1. CASE disk[g] = 0
      BY <2>1, <2>3, <3>1 DEF FilesCover, Chunks
    <3>2. CASE disk[g] # 0 /\ Unchanged(g)
      <4>1. Row(f) = disk[f] /\ job.diff
        BY <2>3, <3>2 DEF Unchanged, Row
      <4>2. Making = {}
        BY <2>1, <4>1 DEF Making
      <4> QED
        BY <2>1, <2>3, <3>2, <4>1, <4>2 DEF RowFresh, Chunks
    <3>3. CASE ~ (disk[g] = 0 \/ Unchanged(g))
      <4>1. hand' = {g}
        BY <1>11, <3>3 DEF TakeFile
      <4> QED
        BY <2>1, <2>3, <4>1 DEF InHand
    <3> QED
      BY <3>1, <3>2, <3>3
  <2>4. CASE f \in InHand /\ ~ (f = g /\ job.kind = "index")
    <3>1. job.kind \in IndexKinds
      BY <2>1 DEF JobSteps
    <3>2. job.kind = "index"
      BY <2>4, <3>1 DEF InHand, Scope, IndexKinds
    <3> QED
      BY <2>1, <2>4, <3>2 DEF InHand
  <2> QED
    BY <2>1, <2>2, <2>3, <2>4
<1>12. ASSUME NEW g \in Files, WriteFile(g)
       PROVE  f \in lost' \cup outrun' \cup InHand' \/ Later(queue', 0, f)
  <2>1. UNCHANGED <<disk, job, step, todo, queue>> /\ step = "files" /\ hand = {g} /\ disk[g] # 0
    BY <1>12, WriteFileFacts DEF WriteFile, checkout
  <2>2. /\ ops # <<>> /\ Head(ops) = ops[1]
        /\ Chunks(g)' = (IF "chunks" \notin ops[1].parts THEN Chunks(g) ELSE IF ops[1].wipe THEN 0 ELSE disk[g])
        /\ \A h \in Files \ {g} : Chunks(h)' = Chunks(h)
    BY <1>12, WriteFileFacts
  <2>3. CASE f # g
    <3>1. f \in lost \cup outrun \cup InHand \/ Later(queue, 0, f)
      BY <1>i, <2>1, <2>2, <2>3
    <3>2. f \in lost => f \in lost'
      BY <1>12, <2>3, WriteLost
    <3>3. f \in outrun => f \in outrun'
      BY <1>12, <2>3 DEF WriteFile
    <3>4. f \in InHand => f \in InHand'
      <4>1. job.kind = "index" => InHand = todo \cup hand /\ InHand' = (todo \cup hand)'
        BY <2>1 DEF InHand
      <4>2. job.kind # "index" => InHand = {}
        BY <2>1 DEF InHand, Scope, JobSteps, IndexKinds
      <4> QED
        BY <2>1, <2>3, <4>1, <4>2
    <3> QED
      BY <2>1, <3>1, <3>2, <3>3, <3>4
  <2>4. CASE f = g
    <3>0. Head(ops) # Fill({"chunks"})
      BY <2>1, <2>2, <2>4 DEF Fill
    <3>1. CASE job.kind = "index"
      <4>1. Len(ops) # 1
        BY <2>1, <2>2, <3>0, <3>1 DEF HandWrites
      <4>2. hand' = {g}
        BY <1>12, <2>1, <4>1 DEF WriteFile
      <4> QED
        BY <2>1, <2>4, <3>1, <4>2 DEF InHand
    <3>2. CASE job.kind # "index"
      <4>1. 1 \in 1..Len(ops)
        BY <2>2, EmptySeq DEF TypeOK
      <4>2. "chunks" \notin ops[1].parts
        BY <2>1, <3>2, <4>1 DEF HandWrites
      <4>3. Chunks(f) # disk[f]
        BY <2>1, <2>2, <2>4, <4>2
      <4>4. InHand = {}
        BY <2>1, <3>2 DEF InHand, Scope, JobSteps, IndexKinds
      <4>5. lost' = lost /\ outrun \subseteq outrun'
        BY <1>12, <3>0 DEF WriteFile
      <4> QED
        BY <1>i, <2>1, <4>3, <4>4, <4>5
    <3> QED
      BY <3>1, <3>2
  <2> QED
    BY <2>3, <2>4
<1>13. ASSUME NEW g \in Files, FileFails(g)
       PROVE  f \in lost' \cup outrun' \cup InHand' \/ Later(queue', 0, f)
  <2>1. /\ UNCHANGED <<disk, store, outrun, job, step, todo, queue>> /\ hand = {g} /\ hand' = {} /\ step = "files"
        /\ lost' = lost \cup (InHand \cap {g})
    BY <1>13 DEF FileFails, checkout
  <2>2. InHand \subseteq lost' \cup InHand'
    <3>1. job.kind = "index" => InHand = todo \cup hand /\ InHand' = (todo \cup hand)'
      BY <2>1 DEF InHand
    <3>2. job.kind # "index" => InHand = {}
      BY <2>1 DEF InHand, Scope, JobSteps, IndexKinds
    <3> QED
      BY <2>1, <3>1, <3>2
  <2> QED
    BY <1>1, <2>1, <2>2
<1>14. CASE JobStops \/ Crash
  <2>1. UNCHANGED <<disk, store, outrun, queue>> /\ lost' = lost \cup InHand
    BY <1>14 DEF JobStops, Crash, checkout
  <2> QED
    BY <1>1, <2>1
<1>15. CASE EndFiles
  <2>1. UNCHANGED <<disk, store, lost, outrun, queue>> /\ todo = {} /\ hand = {} /\ step = "files"
    BY <1>15 DEF EndFiles, checkout, history
  <2>2. InHand = {}
    BY <2>1 DEF InHand, Scope, JobSteps, IndexKinds
  <2> QED
    BY <1>1, <2>1, <2>2
<1> QED
  BY <1>2, <1>3, <1>4, <1>5, <1>6, <1>7, <1>8, <1>9, <1>10, <1>11, <1>12, <1>13, <1>14, <1>15,
     NextSplits DEF Handling

-----------------------------------------------------------------------------
LEMMA InitIInv == Init => IInv
<1> SUFFICES ASSUME Init PROVE IInv
  OBVIOUS
<1> USE RepoConstantsAssumption
<1>1. [f \in Files |-> 1] \in Tree /\ [f \in Files |-> 0] \in Tree
  BY DEF Tree, Version
<1>2. hist \in Seq(Tree) /\ Len(hist) = 1 /\ hist[1] = [f \in Files |-> 1]
  BY <1>1 DEF Init
<1>3. Full("initial") \in Jobs /\ ~ Full("initial").diff
  BY DEF Full, Job, Jobs, Kinds
<1>4. queue \in Seq(Jobs) /\ Len(queue) = 1 /\ queue[1] = Full("initial")
  BY <1>3 DEF Init
<1>5. NoJob \in [kind : Kinds \cup {"none"}, diff : BOOLEAN, upd : SUBSET Files, del : SUBSET Files]
      /\ NoJob.kind = "none"
  BY DEF NoJob, Full, Job
<1>6. store \in [Files -> [Parts -> Version]]
  BY DEF Init, Version
<1>7. <<>> \in Seq([parts : SUBSET Parts, wipe : BOOLEAN])
  OBVIOUS
<1>8. TypeOK
  <2>1. Len(hist) \in 1..MaxCommits /\ head \in 0..Len(hist) /\ before \in 0..Len(hist)
    BY <1>2 DEF Init
  <2>2. child \in 1..Len(FollowUp) /\ submits \in 0..MaxSubmits /\ failures \in 0..MaxFailures
    BY DEF Init, FollowUp
  <2>3. disk \in Tree /\ job \in [kind : Kinds \cup {"none"}, diff : BOOLEAN, upd : SUBSET Files, del : SUBSET Files]
    BY <1>1, <1>5 DEF Init
  <2>4. queue \in Seq([kind : Kinds, diff : BOOLEAN, upd : SUBSET Files, del : SUBSET Files])
    BY <1>4 DEF Jobs
  <2>5. /\ repoStatus = "added" /\ indexedAt = FALSE /\ known = FALSE /\ step = "idle" /\ due = FALSE
        /\ todo = {} /\ hand = {} /\ lost = {} /\ outrun = {} /\ ops = <<>>
    BY DEF Init
  <2> QED
    BY <1>2, <1>6, <1>7, <2>1, <2>2, <2>3, <2>4, <2>5 DEF TypeOK
<1>9. JobSteps /\ HandWrites
  BY <1>5 DEF Init, JobSteps, HandWrites
<1>10. Commits
  BY <1>2 DEF Commits
<1>11. \A f \in Files : Row(f) = 0 /\ Chunks(f) = 0 /\ disk[f] = 0
  BY DEF Init, Row, Chunks, Parts
<1>12. RowBehind
  BY <1>11 DEF Init, RowBehind, TreeAt
<1>13. Drift
  BY DEF Init, Drift, TreeAt
<1>14. QueueCovers
  BY <1>3, <1>4 DEF QueueCovers, Misses
<1>15. StartCovers /\ FilesCover /\ RowFresh
  BY <1>11 DEF Init, StartCovers, FilesCover, RowFresh
<1>16. StaleIsPending
  BY <1>11 DEF StaleIsPending, Chunks
<1> QED
  BY <1>8, <1>9, <1>10, <1>12, <1>13, <1>14, <1>15, <1>16 DEF IInv

LEMMA IInvStep == IInv /\ [Next]_vars => IInv'
<1> SUFFICES ASSUME IInv, [Next]_vars PROVE IInv'
  OBVIOUS
<1> USE DEF IInv
<1>1. TypeOK' /\ JobSteps'
  BY TypeStep
<1>2. HandWrites'
  BY HandStep
<1>3. Commits'
  BY CommitsStep
<1>4. RowBehind' /\ Drift'
  BY RowBehindStep, DriftStep
<1>5. QueueCovers' /\ StartCovers' /\ FilesCover'
  BY QueueStep, RunningStep
<1>6. RowFresh' /\ StaleIsPending'
  BY RowFreshStep, StaleStep
<1> QED
  BY <1>1, <1>2, <1>3, <1>4, <1>5, <1>6

(* Every variable of the repository's index keeps its type.                *)
THEOREM IndexTypes == Spec => []TypeOK
<1>1. IInv => TypeOK
  BY DEF IInv
<1> QED
  BY InitIInv, IInvStep, <1>1, PTL DEF Spec

(* However many files, commits, jobs and failures there are, a file whose  *)
(* chunks are not those of the working tree is in the scope of a job that  *)
(* is still to index it, unless its work was dropped or outrun.            *)
THEOREM NothingForgotten == Spec => []StaleIsPending
<1>1. IInv => StaleIsPending
  BY DEF IInv
<1> QED
  BY InitIInv, IInvStep, <1>1, PTL DEF Spec
=============================================================================
