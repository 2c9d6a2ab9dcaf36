---------------------------- MODULE Contemplation ----------------------------
(***************************************************************************)
(* The knowledge graph (db/knowledge_graph.py) and its maintenance         *)
(* (knowledge/maintenance.py, contemplate_engine.py,                       *)
(* contemplate_matching.py, contemplate_report.py).                        *)
(*                                                                         *)
(* Editors create, connect, rewrite, delete and merge nodes.  Workers run  *)
(* contemplations: each is a row of kg_maintenance_runs, takes a session   *)
(* advisory lock, prepares embeddings, and then, in one transaction that   *)
(* locks both tables against writers, promotes staged nodes, merges        *)
(* duplicates and writes a report of every row it changed.                 *)
(*                                                                         *)
(* Nodes are numbered in the order in which they are created.              *)
(***************************************************************************)
EXTENDS Naturals, Sequences, FiniteSets, FiniteSetsExt

CONSTANTS
  N,            \* nodes are 1..N
  Domains,      \* those of type domain; all others are of one other type
  Title,        \* Title[n]: the normalised title of n
  Fact,         \* Fact[n]: the text n is created with
  Supersedes,   \* Supersedes[n]: the node n names as superseded by it, or 0
  Unlike,       \* pairs of nodes whose embeddings stay below the threshold
  EdgeTypes, MaxWeight,
  Workspaces,
  Hops,         \* root_domains looks this far
  MaxAffected,  \* MAX_AFFECTED_NODES
  Seeds,        \* graphs to start from
  Workers, Editors,
  MaxRuns, MaxEdits, MaxFaults   \* bounds

Nodes   == 1..N
Triples == Nodes \X Nodes \X EdgeTypes
Runs    == 1..MaxRuns
None    == "none"
Facts   == {Fact[n] : n \in Nodes}

Graph ==
  [status : [Nodes -> {"unborn", "staged", "committed", "gone"}],
   content : [Nodes -> Seq(Facts)],
   ws : [Nodes -> SUBSET Workspaces],
   sup : [Nodes -> 0..N],
   edge : [Triples -> 0..MaxWeight]]     \* weight zero: there is no such edge

Alive(g) == {n \in Nodes : g.status[n] \in {"staged", "committed"}}

(* Foreign keys of kg_edges.                                               *)
Attached(g) == \A e \in Triples : g.edge[e] > 0 => {e[1], e[2]} \subseteq Alive(g)

VARIABLES
  graph,          \* kg_nodes and kg_edges
  nruns, run,     \* kg_maintenance_runs, and whether the job of a run is active
  report,         \* kg_maintenance_reports
  advisory,       \* who holds the advisory lock MAINTENANCE_LOCK_ID
  tables,         \* who has locked the two tables in SHARE ROW EXCLUSIVE mode
  wpc, wrun,      \* workers: step, and run
  cache,          \* workers: texts with an embedding
  before,         \* workers: the snapshot taken in the transaction
  epc, hand,      \* editors inside merge_nodes: step, and what they read
  edits, faults   \* bounds

records == <<nruns, run, report>>
worker  == <<wpc, wrun, cache, before>>
editor  == <<epc, hand>>
vars == <<graph, records, advisory, tables, worker, editor, edits, faults>>

Empty == [n \in {} |-> {}]

(* A report: what became of the run, the rows it changed with what they    *)
(* were and became, and which node went into which.                        *)
Unreported == [outcome |-> None, node |-> Empty, edge |-> Empty,
               into |-> Empty, replaced |-> {}]

Idle  == [survivor |-> 0, absorbed |-> 0, from |-> Empty]

Init ==
  /\ graph \in Seeds
  /\ nruns = 0
  /\ run = [r \in Runs |-> [status |-> "unborn", active |-> FALSE]]
  /\ report = [r \in Runs |-> Unreported]
  /\ advisory = None /\ tables = None
  /\ wpc = [w \in Workers |-> "idle"]
  /\ wrun = [w \in Workers |-> 0]
  /\ cache = [w \in Workers |-> {}]
  /\ before = [w \in Workers |-> Empty]
  /\ epc = [c \in Editors |-> "idle"]
  /\ hand = [c \in Editors |-> Idle]
  /\ edits = 0 /\ faults = 0

-----------------------------------------------------------------------------
(* Merging.                                                                *)

Larger(a, b) == IF a > b THEN a ELSE b

(* Mutant: where both ends have the edge, both rows go.                    *)
RewiredDropsTwin(edge, s, a) ==
  [e \in Triples |->
     IF a \in {e[1], e[2]} THEN 0
     ELSE CASE s = e[1] /\ s # e[2] -> IF edge[<<a, e[2], e[3]>>] > 0 /\ edge[e] > 0 THEN 0
                                       ELSE Larger(edge[e], edge[<<a, e[2], e[3]>>])
            [] s = e[2] /\ s # e[1] -> Larger(edge[e], edge[<<e[1], a, e[3]>>])
            [] OTHER -> edge[e]]

(* What the loop of _rewire_edges and the deletion of a leave: an edge     *)
(* between a and another node becomes one of s, of two alike the stronger  *)
(* stays, and edges among a and s from or to a go.                         *)
Rewired(edge, s, a) ==
  [e \in Triples |->
     IF a \in {e[1], e[2]} THEN 0
     ELSE CASE s = e[1] /\ s # e[2] -> Larger(edge[e], edge[<<a, e[2], e[3]>>])
            [] s = e[2] /\ s # e[1] -> Larger(edge[e], edge[<<e[1], a, e[3]>>])
            [] OTHER -> edge[e]]

(* Contents are joined unless they are the same, or one is empty.          *)
Joined(c, d) == IF c = d THEN c ELSE c \o d

Removed(g, n) ==
  [g EXCEPT !.status[n] = "gone",
            !.edge = [e \in Triples |-> IF n \in {e[1], e[2]} THEN 0 ELSE g.edge[e]]]

(* Mutant: c keeps its scope, as the survivor of merge_nodes does.         *)
AbsorbedUnscoped(g, c, n, replace) ==
  [status  |-> [g.status EXCEPT ![c] = "committed", ![n] = "gone"],
   content |-> [g.content EXCEPT ![c] = IF replace THEN g.content[n]
                                        ELSE Joined(@, g.content[n])],
   ws      |-> g.ws,
   sup     |-> g.sup,
   edge    |-> Rewired(g.edge, c, n)]

(* _absorb: n goes into c, which takes over its content, or adds it.       *)
Absorbed(g, c, n, replace) ==
  [status  |-> [g.status EXCEPT ![c] = "committed", ![n] = "gone"],
   content |-> [g.content EXCEPT ![c] = IF replace THEN g.content[n]
                                        ELSE Joined(@, g.content[n])],
   ws      |-> [g.ws EXCEPT ![c] = @ \cup g.ws[n]],
   sup     |-> [g.sup EXCEPT ![c] = IF @ = 0 THEN g.sup[n] ELSE @],
   edge    |-> Rewired(g.edge, c, n)]

-----------------------------------------------------------------------------
(* Reconciliation, inside the transaction.                                 *)

(* CandidateIndex, text_guard.                                             *)
Twins(g, m, n) == Title[m] = Title[n] \/ g.content[m] = g.content[n]

Text(g, n) == <<Title[n], g.content[n]>>

Neighbours(g, S) ==
  {m \in Nodes : \E n \in S, k \in EdgeTypes : g.edge[<<n, m, k>>] + g.edge[<<m, n, k>>] > 0}

(* root_domains                                                            *)
Within(g, n) ==
  LET reach[h \in 0..Hops] ==
        IF h = 0 THEN {n} ELSE LET S == reach[h - 1] IN S \cup Neighbours(g, S)
  IN  reach[Hops] \ {n}

(* Everything reconcile works on; roots are those of the snapshot.         *)
Work(g, c) ==
  [graph |-> g, texts |-> c,
   roots |-> [n \in Nodes |-> Within(g, n) \cap Domains],
   affected |-> {}, deferred |-> {}, changed |-> {}, into |-> [n \in Nodes |-> n],
   replaced |-> {}]

(* Mutant: a node near no domain is compared by workspace alone.           *)
CompatibleNearNone(x, m, n) ==
  /\ {m, n} \cap Domains = {}
  /\ IF x.roots[m] # {} /\ x.roots[n] # {}
     THEN x.roots[m] = x.roots[n]
     ELSE x.graph.ws[m] \cap x.graph.ws[n] # {}

Compatible(x, m, n) ==
  /\ {m, n} \cap Domains = {}
  /\ IF x.roots[m] \cup x.roots[n] # {}
     THEN x.roots[m] = x.roots[n]
     ELSE x.graph.ws[m] \cap x.graph.ws[n] # {}

(* Where n ended up, by the merges of x so far, or of a report.            *)
Heir(x, n) ==
  LET at[k \in 0..N] == IF k = 0 THEN n ELSE x.into[at[k - 1]] IN at[N]

(* The nodes that went into c: what they say goes when c's text does.      *)
OfHeir(x, c) == {m \in Nodes : Heir(x, m) = c}

Deferred(x, n) == [x EXCEPT !.deferred = @ \cup {n}]

(* Mutant: the new pair is not counted.                                    *)
MergeCountsLate(x, c, n, replace) ==
  IF Cardinality(x.affected) > MaxAffected THEN Deferred(x, n)
  ELSE [x EXCEPT !.graph = Absorbed(@, c, n, replace),
                 !.affected = @ \cup {c, n}, !.changed = @ \cup {c},
                 !.into[n] = c, !.replaced = IF replace THEN @ \cup OfHeir(x, c) ELSE @]

Merge(x, c, n, replace) ==
  IF Cardinality(x.affected \cup {c, n}) > MaxAffected THEN Deferred(x, n)
  ELSE [x EXCEPT !.graph = Absorbed(@, c, n, replace),
                 !.affected = @ \cup {c, n}, !.changed = @ \cup {c},
                 !.into[n] = c, !.replaced = IF replace THEN @ \cup OfHeir(x, c) ELSE @]

Promote(x, n) == [x EXCEPT !.graph.status[n] = "committed"]

Candidates(x, n) ==
  {c \in Nodes \ ({n} \cup Domains) :
     /\ x.graph.status[c] = "committed"
     /\ Twins(x.graph, c, n)
     /\ x.graph.status[n] = "committed" => c < n}

(* SimilarityMatcher.vector: only texts prepared before the tables were    *)
(* locked have an embedding, and those of survivors of this run, from when *)
(* they are first compared with another node.                              *)
Known(x, S) ==
  IF x.texts = {} THEN {} ELSE x.texts \cup {Text(x.graph, c) : c \in S \cap x.changed}

Compared(x, c, n) == {d \in Candidates(x, n) : d <= c /\ Compatible(x, d, n)}

(* score, after the candidates before c.                                   *)
Similar(x, c, n) ==
  /\ {c, n} \notin Unlike
  /\ {Text(x.graph, c), Text(x.graph, n)} \subseteq Known(x, Compared(x, c, n))

(* match: the oldest fitting candidate takes n; a node whose candidates    *)
(* do not fit is deferred.                                                 *)
Match(x, n) ==
  LET fit == {c \in Candidates(x, n) : Compatible(x, c, n) /\ Similar(x, c, n)}
      y   == [x EXCEPT !.texts = Known(x, Compared(x, IF fit = {} THEN N ELSE Min(fit), n))] IN
  IF fit # {} THEN Merge(y, Min(fit), n, FALSE)
  ELSE IF Candidates(x, n) # {} THEN Deferred(y, n)
  ELSE x

(* The first loop of reconcile: what is staged.                            *)
Settle(x, n) ==
  LET c == x.graph.sup[n] IN
  IF c # 0
  THEN IF x.graph.status[c] = "committed" /\ Compatible(x, c, n)
       THEN Merge(x, c, n, TRUE)
       ELSE Deferred(x, n)
  ELSE LET y == IF n \in Domains THEN x ELSE Match(x, n) IN
       IF y.graph.status[n] = "gone" \/ n \in y.deferred THEN y ELSE Promote(y, n)

(* The second: what is committed by then.                                  *)
Condense(x, n) == IF n \in Domains \cup x.deferred THEN x ELSE Match(x, n)

Reconciled(g, texts) ==
  LET settled[n \in 0..N] ==
        IF n = 0 THEN Work(g, texts)
        ELSE LET x == settled[n - 1] IN IF g.status[n] = "staged" THEN Settle(x, n) ELSE x
      condensed[n \in 0..N] ==
        IF n = 0 THEN settled[N]
        ELSE LET x == condensed[n - 1] IN
             IF x.graph.status[n] = "committed" THEN Condense(x, n) ELSE x
  IN  [condensed[N] EXCEPT !.graph.edge =
         [e \in Triples |-> IF e[1] = e[2] THEN 0 ELSE @[e]]]

-----------------------------------------------------------------------------
(* Editors.                                                                *)

Edit(g) ==
  /\ tables = None
  /\ edits < MaxEdits /\ edits' = edits + 1
  /\ graph' = g
  /\ UNCHANGED <<records, advisory, tables, worker, editor, faults>>

CreateNode(n, s, W) ==
  /\ \A m \in n..N : graph.status[m] = "unborn"
  /\ Edit([graph EXCEPT !.status[n] = s, !.content[n] = <<Fact[n]>>, !.ws[n] = W,
                        !.sup[n] = Supersedes[n]])

(* update_node with a new content.                                         *)
RewriteNode(n, f) ==
  /\ n \in Alive(graph)
  /\ Edit([graph EXCEPT !.content[n] = <<f>>])

DeleteNode(n) ==
  /\ n \in Alive(graph)
  /\ Edit(Removed(graph, n))

CommitNode(n) ==
  /\ n \in Alive(graph)
  /\ Edit([graph EXCEPT !.status[n] = "committed"])

UncommitNode(n) ==
  /\ n \in Alive(graph)
  /\ Edit([graph EXCEPT !.status[n] = "staged"])

(* create_edge: an edge that exists is answered as it is.                  *)
CreateEdge(e, weight) ==
  /\ {e[1], e[2]} \subseteq Alive(graph)
  /\ graph.edge[e] = 0
  /\ Edit([graph EXCEPT !.edge[e] = weight])

DeleteEdge(e) ==
  /\ graph.edge[e] > 0
  /\ Edit([graph EXCEPT !.edge[e] = 0])

(* merge_nodes reads the nodes and their edges without locking them, ...   *)
MergeRead(c, s, a) ==
  /\ epc[c] = "idle"
  /\ s # a /\ {s, a} \subseteq Alive(graph)
  /\ edits < MaxEdits
  /\ epc' = [epc EXCEPT ![c] = "merging"]
  /\ hand' = [hand EXCEPT ![c] = [survivor |-> s, absorbed |-> a, from |-> graph]]
  /\ UNCHANGED <<graph, records, advisory, tables, worker, edits, faults>>

(* ... rewires the edges it read that are still there, writes the content  *)
(* it put together and deletes the absorbed node, with whatever edges it   *)
(* has been given since.  An edge moved to a survivor that is gone breaks  *)
(* a foreign key, and nothing is written.                                  *)
MergeWrite(c) ==
  LET s == hand[c].survivor
      a == hand[c].absorbed
      from == hand[c].from
      read == [e \in Triples |->
                 IF a \in {e[1], e[2]} /\ from.edge[e] = 0 THEN 0 ELSE graph.edge[e]]
      moved == Rewired(read, s, a)
      orphan == s \notin Alive(graph) /\ \E e \in Triples : s \in {e[1], e[2]} /\ moved[e] > 0
      next == [graph EXCEPT
                 !.status[a] = "gone",
                 !.content[s] = IF s \in Alive(graph)
                                THEN Joined(from.content[s], from.content[a]) ELSE @,
                 !.ws[s] = IF s \in Alive(graph) THEN from.ws[s] ELSE @,
                 !.sup[s] = IF s \in Alive(graph) THEN from.sup[s] ELSE @,
                 !.edge = moved] IN
  /\ epc[c] = "merging"
  /\ tables = None
  /\ edits < MaxEdits /\ edits' = edits + 1
  /\ graph' = IF orphan THEN graph ELSE next
  /\ epc' = [epc EXCEPT ![c] = "idle"]
  /\ hand' = [hand EXCEPT ![c] = Idle]
  /\ UNCHANGED <<records, advisory, tables, worker, faults>>

EditorStep ==
  \/ \E n \in Nodes :
       \/ \E s \in {"staged", "committed"}, W \in SUBSET Workspaces : CreateNode(n, s, W)
       \/ \E f \in Facts : RewriteNode(n, f)
       \/ DeleteNode(n) \/ CommitNode(n) \/ UncommitNode(n)
  \/ \E e \in Triples : DeleteEdge(e) \/ \E weight \in 1..MaxWeight : CreateEdge(e, weight)
  \/ \E c \in Editors : MergeWrite(c) \/ \E s, a \in Nodes : MergeRead(c, s, a)

-----------------------------------------------------------------------------
(* Workers.                                                                *)

(* SimilarityMatcher.prepare: the texts of nodes that have a twin.         *)
Prepared(g) ==
  {Text(g, n) : n \in {m \in Alive(g) \ Domains :
                         \E k \in Alive(g) \ (Domains \cup {m}) : Twins(g, m, k)}}

Row(g, n) == <<g.status[n], g.content[n], g.ws[n], g.sup[n]>>

ChangeSet(g, h) ==
  [node |-> [n \in {m \in Nodes : Row(g, m) # Row(h, m)} |-> <<Row(g, n), Row(h, n)>>],
   edge |-> [e \in {f \in Triples : g.edge[f] # h.edge[f]} |-> <<g.edge[e], h.edge[e]>>]]

(* _finish_run and persist_report in one transaction.  A second report of  *)
(* a run breaks the primary key; then nothing is written, and the handler  *)
(* that wants to report the error fails in the same way.                   *)
Finish(r, outcome, details) ==
  IF report[r] = Unreported
  THEN /\ run' = [run EXCEPT ![r].status = outcome]
       /\ report' = [report EXCEPT ![r] = details]
  ELSE UNCHANGED <<run, report>>

Failure(outcome) == [Unreported EXCEPT !.outcome = outcome]

Goto(w, step) == wpc' = [wpc EXCEPT ![w] = step]

BeginRun(w) ==
  /\ wpc[w] = "idle"
  /\ nruns < MaxRuns
  /\ nruns' = nruns + 1
  /\ run' = [run EXCEPT ![nruns + 1] = [status |-> "running", active |-> TRUE]]
  /\ wrun' = [wrun EXCEPT ![w] = nruns + 1]
  /\ Goto(w, "begun")
  /\ UNCHANGED <<graph, report, advisory, tables, cache, before, editor, edits, faults>>

TryLock(w) ==
  /\ wpc[w] = "begun"
  /\ IF advisory = None
     THEN advisory' = w /\ Goto(w, "holding")
     ELSE UNCHANGED advisory /\ Goto(w, "skipping")
  /\ UNCHANGED <<graph, records, tables, wrun, cache, before, editor, edits, faults>>

FinishSkipped(w) ==
  /\ wpc[w] = "skipping"
  /\ Finish(wrun[w], "skipped", Failure("skipped"))
  /\ Goto(w, "leaving")
  /\ UNCHANGED <<graph, nruns, advisory, tables, wrun, cache, before, editor, edits, faults>>

Abandoned(r) == {q \in 1..(r - 1) : run[q].status = "running" /\ ~run[q].active}

(* The transaction that fails the abandoned runs and reads the nodes to    *)
(* embed; the model may be unavailable.                                    *)
MarkAbandoned(w) ==
  LET old == Abandoned(wrun[w]) IN
  /\ wpc[w] = "holding"
  /\ run' = [r \in Runs |-> IF r \in old THEN [run[r] EXCEPT !.status = "failed"] ELSE run[r]]
  /\ report' = [r \in Runs |-> IF r \in old THEN Failure("failed") ELSE report[r]]
  /\ \E texts \in {Prepared(graph), {}} : cache' = [cache EXCEPT ![w] = texts]
  /\ Goto(w, "prepared")
  /\ UNCHANGED <<graph, nruns, advisory, tables, wrun, before, editor, edits, faults>>

(* Mutant: writers are not kept out.                                       *)
SnapshotOnly(w) ==
  /\ wpc[w] = "prepared"
  /\ tables = None
  /\ before' = [before EXCEPT ![w] = graph]
  /\ Goto(w, "writing")
  /\ UNCHANGED <<graph, records, advisory, tables, wrun, cache, editor, edits, faults>>

LockTables(w) ==
  /\ wpc[w] = "prepared"
  /\ tables = None
  /\ tables' = w
  /\ before' = [before EXCEPT ![w] = graph]
  /\ Goto(w, "writing")
  /\ UNCHANGED <<graph, records, advisory, wrun, cache, editor, edits, faults>>

CommitRun(w) ==
  LET done    == Reconciled(before[w], cache[w])
      changes == ChangeSet(before[w], done.graph) IN
  /\ wpc[w] = "writing"
  /\ graph' = IF report[wrun[w]] = Unreported THEN done.graph ELSE graph
  /\ Finish(wrun[w], "success",
            [outcome |-> "success", node |-> changes.node, edge |-> changes.edge,
             into |-> done.into, replaced |-> done.replaced])
  /\ tables' = None
  /\ before' = [before EXCEPT ![w] = Empty]
  /\ Goto(w, "leaving")
  /\ UNCHANGED <<nruns, advisory, wrun, cache, editor, edits, faults>>

(* An exception: what is not committed is rolled back.                     *)
FailRun(w) ==
  /\ wpc[w] \in {"begun", "holding", "prepared", "writing", "skipping"}
  /\ faults < MaxFaults /\ faults' = faults + 1
  /\ Finish(wrun[w], "failed", Failure("failed"))
  /\ tables' = IF tables = w THEN None ELSE tables
  /\ before' = [before EXCEPT ![w] = Empty]
  /\ Goto(w, "leaving")
  /\ UNCHANGED <<graph, nruns, advisory, wrun, cache, editor, edits>>

(* The finally block; the job of the run is over.                          *)
Leave(w) ==
  /\ wpc[w] = "leaving"
  /\ advisory' = IF advisory = w THEN None ELSE advisory
  /\ run' = [run EXCEPT ![wrun[w]].active = FALSE]
  /\ wrun' = [wrun EXCEPT ![w] = 0]
  /\ cache' = [cache EXCEPT ![w] = {}]
  /\ Goto(w, "idle")
  /\ UNCHANGED <<graph, nruns, report, tables, before, editor, edits, faults>>

(* The session of the worker ends, and with it its locks.                  *)
Crash(w) ==
  /\ wpc[w] # "idle"
  /\ faults < MaxFaults /\ faults' = faults + 1
  /\ advisory' = IF advisory = w THEN None ELSE advisory
  /\ tables' = IF tables = w THEN None ELSE tables
  /\ wrun' = [wrun EXCEPT ![w] = 0]
  /\ cache' = [cache EXCEPT ![w] = {}]
  /\ before' = [before EXCEPT ![w] = Empty]
  /\ Goto(w, "idle")
  /\ UNCHANGED <<graph, records, editor, edits>>

(* The job of a run stops being queued or running, while the run may be    *)
(* alive: it is asked to cancel, or a worker that starts recovers it.      *)
Deactivate(r) ==
  /\ run[r].active
  /\ run' = [run EXCEPT ![r].active = FALSE]
  /\ UNCHANGED <<graph, nruns, report, advisory, tables, worker, editor, edits, faults>>

WorkerStep ==
  \/ \E w \in Workers :
       \/ BeginRun(w) \/ TryLock(w) \/ FinishSkipped(w) \/ MarkAbandoned(w)
       \/ LockTables(w) \/ CommitRun(w) \/ FailRun(w) \/ Leave(w) \/ Crash(w)
  \/ \E r \in Runs : Deactivate(r)

Next == EditorStep \/ WorkerStep

Spec == Init /\ [][Next]_vars

-----------------------------------------------------------------------------
TypeOK ==
  /\ graph \in Graph /\ Attached(graph)
  /\ nruns \in 0..MaxRuns
  /\ run \in [Runs -> [status : {"unborn", "running", "success", "failed", "skipped"},
                       active : BOOLEAN]]
  /\ advisory \in Workers \cup {None} /\ tables \in Workers \cup {None}
  /\ \A w \in Workers :
       /\ wpc[w] \in {"idle", "begun", "holding", "skipping", "prepared", "writing", "leaving"}
       /\ wrun[w] \in 0..nruns
       /\ tables = w => wpc[w] = "writing"

(* A run is finished when, and only when, its report is there, whichever   *)
(* of the workers that believed to own it came first, and whatever failed. *)
ReportedIffFinished ==
  \A r \in Runs : /\ report[r].outcome # None <=> run[r].status \in {"success", "failed", "skipped"}
                  /\ report[r].outcome # None => report[r].outcome = run[r].status

(* The report undoes the run: putting the rows it lists back as they were  *)
(* leads from what the run committed to what was there before, edits of    *)
(* others included; and only a run with such a report changes the graph.   *)
Restored(h, rep) ==
  [status  |-> [n \in Nodes |-> IF n \in DOMAIN rep.node THEN rep.node[n][1][1] ELSE h.status[n]],
   content |-> [n \in Nodes |-> IF n \in DOMAIN rep.node THEN rep.node[n][1][2] ELSE h.content[n]],
   ws      |-> [n \in Nodes |-> IF n \in DOMAIN rep.node THEN rep.node[n][1][3] ELSE h.ws[n]],
   sup     |-> [n \in Nodes |-> IF n \in DOMAIN rep.node THEN rep.node[n][1][4] ELSE h.sup[n]],
   edge    |-> [e \in Triples |-> IF e \in DOMAIN rep.edge THEN rep.edge[e][1] ELSE h.edge[e]]]

Succeeds(r) == run[r].status # "success" /\ run'[r].status = "success"

Undoable ==
  [][/\ \A r \in Runs : Succeeds(r) => Restored(graph', report'[r]) = graph
     /\ records' # records /\ (\A r \in Runs : ~Succeeds(r)) => graph' = graph
     /\ graph' # graph /\ edits' = edits => \E r \in Runs : Succeeds(r)]_vars

Absorbers(rep) == {rep.into[n] : n \in {m \in Nodes : rep.into[m] # m}}

(* A run merges at most MaxAffected nodes, those that absorb others counted.*)
WithinBudget ==
  \A r \in Runs : report[r].outcome = "success" =>
    Cardinality(Absorbers(report[r]) \cup {n \in Nodes : report[r].into[n] # n}) <= MaxAffected

(* No connection is lost to a run: an edge between nodes that do not end   *)
(* up as one is there between their heirs, at least as strong.             *)
LinksSurvive ==
  [][\A r \in Runs : Succeeds(r) =>
       \A e \in Triples :
         LET s == Heir(report'[r], e[1])
             t == Heir(report'[r], e[2]) IN
         s # t => graph'.edge[<<s, t, e[3]>>] >= graph.edge[e]]_vars

(* Nor is a fact, but for those of the nodes whose text an explicit        *)
(* supersession replaced.                                                  *)
FactsSurvive ==
  [][\A r \in Runs : Succeeds(r) =>
       \A n \in Alive(graph) :
         LET h == Heir(report'[r], n) IN
         /\ h \in Alive(graph') /\ graph.ws[n] \subseteq graph'.ws[h]
         /\ n \in Domains => h = n
         /\ n \notin report'[r].replaced =>
              {graph.content[n][i] : i \in DOMAIN graph.content[n]}
                \subseteq {graph'.content[h][i] : i \in DOMAIN graph'.content[h]}]_vars

(* Nodes of different scope are never made one, however the merges chain:  *)
(* all that went into a node were near the same domains.                   *)
ScopesApart ==
  [][\A r \in Runs : Succeeds(r) =>
       \A n \in Alive(graph) \ Domains :
         Within(graph, n) \cap Domains = Within(graph, Heir(report'[r], n)) \cap Domains]_vars
=============================================================================
