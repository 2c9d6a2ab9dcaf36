# Savant Server in TLA+

Savant Server is a Flask application, a set of MCP servers and a worker over
one PostgreSQL database. It keeps the memory of software agents and their
users: indexed source repositories, a knowledge graph, notebooks with
conversations and curated statements, tasks, workspaces, reminders and jobs.
This directory holds TLA+ modules of the parts where processes, transactions
and failures meet, TLC configurations that check them on small instances, and
theorems about them checked by TLAPS.

    tlc -workers 2 -config Engrams.cfg Engrams     # model-check one run
    tlapm EngramsProofs.tla                        # check the proofs of one module

`PROJECT.json` lists the components, the runs, for every definition the lines
of code it models, for every property a mutant of the code that breaks it, the
hazards, and the places where the code departs from what its comments say.

## The system

| Component | State | Operations | Who meets there |
|---|---|---|---|
| Job queue (`db/jobs.py`, `context/job_worker.py`, `routes/jobs_system.py`) | rows of `jobs` | submit, claim, report progress, cancel, finish, delete, recover | request threads, the periodic runner, workers that crash and restart |
| Repository index (`context/`) | checkout on disk, `ctx_repos`, `ctx_files`, `ctx_chunks`, `ctx_ast_nodes`, `ctx_lossless_trees` | clone, refresh, full and differential index, AST, LST, stop | the worker, users, the periodic runner, the remote |
| Code intelligence (`code_intelligence/`, `codegraph_bridge/`) | graphs on disk, and the bridge's memory of who writes, watches and has to recover them | register, index, query, check health, cancel | the worker, users, threads that hang or die, timers |
| Knowledge graph (`db/knowledge_graph.py`, `knowledge/routes.py`) | `kg_nodes`, `kg_edges`, `user_domains` | create, rewrite, delete, commit, uncommit, connect, merge, link to workspaces, import, purge | users, agents, administrators, maintenance |
| Maintenance (`knowledge/maintenance.py`, `contemplate_*.py`) | `kg_maintenance_runs`, `kg_maintenance_reports`, an advisory lock | queue, run, mark abandoned runs | workers, the scheduler, editors |
| Engrams (`db/engrams.py`) | items and their versions, `notebook_engrams`, snapshots, events | create, decide, revise, resolve, supersede, snapshot | editors of one notebook |
| Notebooks (`db/notebooks.py`, `routes/notebooks.py`) | notebooks, members, sources, conversations, events, compactions, artifacts, renditions | create, share, append, delete, compact, publish, render, list | owners, editors, revoked members, agents |
| Tasks and workspaces (`db/tasks.py`, `db/workspaces.py`, `db/workspace_session_links.py`) | tasks, their arming and configuration, dependencies, a counter, ended days, session links | create, arm, claim, report, review, end a day, depend, attach | users, headless runners, agents |
| MCP servers (`mcp/`) | session bindings in memory and in a table, remembered roles, usage | bind a session to a key, look up a role, count a call | agents, user administration, replicas |
| Users (`db/users.py`, `app.py`) | `users`, `user_login_days`, a throttle in memory | authenticate, touch, create, delete, seed | servers, administrators |
| Notifications (`db/notifications.py`) | `notifications` | create, poll | jobs, maintenance, clients |
| Start (`postgres_client.py`) | the schema, `schema_migrations` | migrate, replay, backfill | servers that start and those that serve |
| Abilities (`abilities/`) | files | read, resolve, match, edit | users |
| Shell (`app.py`, `hardening.py`) | connection pool, rate limits | authenticate, retry | everybody |

Components meet in the database. Handlers call the database class of their
component, each call of which is one transaction; the job worker calls the
index, the graph bridge and the maintenance; little is shared in memory between
processes. What is hard is therefore what happens between two transactions of
one handler, and between a process's death and its restart. What each component
has to get right is stated below with its module.

## Modules

| Module | Models | Extends or uses |
|---|---|---|
| `JobLifecycle` | what the queue promises: the life of a job | |
| `JobQueue` | the queue as it is coded | instantiates `JobLifecycle` |
| `MCJobQueue` | instances for TLC | `JobQueue` |
| `JobQueueProofs` | theorems, and the refinement | `JobQueue` |
| `RepoIndex` | a repository and its index, served by a queue | |
| `RepoIndexProofs` | theorems | `RepoIndex` |
| `CodeGraphBridge` | the graph bridge and the worker that asks it for graphs | |
| `CodeGraphBridgeProofs` | theorems | `CodeGraphBridge` |
| `KnowledgeScopes` | the knowledge graph as its routes scope it | |
| `KnowledgeScopesProofs` | theorems about it and about the maintenance | `KnowledgeScopes`, `MCContemplation` |
| `MCKnowledgeScopes` | which routes meet in a behaviour | `KnowledgeScopes` |
| `Contemplation` | knowledge graph, its editors, its maintenance | |
| `MCContemplation` | which seeds and faults meet in a behaviour | instantiates `Contemplation` |
| `Engrams` | the engram of one notebook | |
| `EngramsProofs` | theorems | `Engrams` |
| `Notebooks` | one notebook: access, members and what is written in it | |
| `NotebooksProofs` | theorems about it, `Pages` and `Feed` | `MCNotebooks` |
| `Pages` | lists read page by page | |
| `Feed` | notifications and a client that polls | |
| `MCNotebooks` | one behaviour of one of the three | `Notebooks`, instantiates `Pages`, `Feed` |
| `Conversation` | events and summaries of a conversation, and their readers | |
| `MCConversation` | symmetry for TLC | `Conversation` |
| `ServerProofs` | theorems about it and the four parts of `MCServer` | `Conversation`, `MCServer` |
| `TaskClaims` | tasks as work for headless runners | |
| `TasksProofs` | theorems about it, `Workdays` and `Workspaces` | `MCTasks` |
| `Workdays` | ending days and rolling work over | |
| `Workspaces` | workspaces, numbers of tasks, dependencies, attached sessions | |
| `MCTasks` | one behaviour of one of the three | `TaskClaims`, instantiates `Workdays`, `Workspaces` |
| `Startup` | servers starting on one database | |
| `Accounts` | a user's account and logins | |
| `McpSessions` | how a request to an MCP server comes to act for a client | |
| `McpCalls` | the role and the counting of a tool call | |
| `MCServer` | one behaviour of one of the four | instantiates `Startup`, `Accounts`, `McpSessions`, `McpCalls` |

`MCTasks`, `MCNotebooks` and `MCServer` put modules into one run that share no
state: a behaviour chooses its part and leaves the variables of the others
alone, so the run checks each part completely and nothing of their product,
which has no behaviour of its own. They and `MCContemplation` declare the
constants and variables of the modules they instantiate, so the theorems speak of
each part (`Boot!Spec`, `List!Spec`, `Maint!Spec`) for any values.

### JobQueue

Every call of `JobDB` is a transaction, and an action. A row is `status`,
`phase`, `kind`, `started`; rows are numbered in the order they are committed, and
the oldest queued row is the least. (`created_at`, which the claim sorts by, is taken
just before the commit, `src/db/jobs.py:34` and `:44`: two submissions that overlap may
be claimed in the other order. No property depends on which of them is.) A worker's `wpc` goes through the
statements of `_process_next_job`; of the job's body the model keeps the
progress callbacks (`LoopCheck` inside the indexer's loop, `DirectCheck`
elsewhere), the follow-up jobs (`Spawn`) and the way it ends (`Return`,
`Raise`). `SubmitLook` and `SubmitInsert` are the two transactions of a
submission; `Refused` is the partial unique index on structural jobs.

- `queue_one_worker`: one worker that may crash. `ActiveIsOwned`: no row stays
  active with nobody at work on it. `SettledRowAgrees`: phase and
  notifications agree with the final status. `LifecycleSpec`: the table
  implements `JobLifecycle`. `EveryJobSettles`, under weak fairness of each
  worker's own steps (the loop polls every two seconds, and the container is
  restarted when it dies); it assumes neither that users submit nor that they
  stop, only `MaxJobs`.
- `queue_two_workers`: two processes at once (replicas, rolling restarts), with
  database failures. `NoSharedJob`, `WithdrawnNeverRuns`, `OnlyOwnerRewrites`.
- `queue_seen_cancel_stops`: a statement of the code's comments that does not
  hold; see the finding.

Bounds: two or three jobs are enough for a job, its follow-up and a competing
one; two callbacks for one before and one after a cancellation; one crash and
one failure at every place.

### RepoIndex

A file's content is the number of the commit that last changed it. `store` has,
for each file, the version its `ctx_files` row, chunks, AST and tree were made
from, so that "stale" is an inequality. A synchronisation is `RefreshHead`,
`ResetTree`, `DecideSync`, and `SpawnChild` once per follow-up job (`RefreshHead` is
one step, although `src/context/ingestion.py:262` reads the old head before it takes
the lock of the pull: the worker is the only one to pull, and were there another, a
refresh would report a move the other made and queue one job more); a
generation job takes files one by one (`TakeFile`) and commits its writes one
by one (`WriteFile`). `lost` and `outrun` are history. `lost`: the files whose
pending work a failure or a user dropped; it makes "a failure is the only way to be
forgotten" a state predicate, and the proof showed that it is not the only way:
a structural job writes the file's new mtime into its row
(`src/context/indexer.py:619`), and the differential index job that comes after it
takes the file for unchanged (`src/context/indexer.py:722`), although its chunks are
of the version before. The files it happened to are `outrun`, and are all that
happens to: nothing else is forgotten.

- `index_fresh`: `StaleIsPending`, and `EventuallyFresh` under weak fairness of
  the worker and of the periodic runner, for two files, two commits, one user
  job (an index or an AST) and two failures (crash, failing file, cancelled or
  failing job). Two failures are the least that lets a failed synchronisation be
  followed by a failed repair, and one AST job the least that outruns.

### CodeGraphBridge

The bridge is single-threaded: an action is what runs between two awaits or
events. Its maps are variables of their own (`registered`, `instances` and
`watched`, `writes`, `recovery`), and so are the fields of a task's state, by
the job whose id is that of the request: `phase` (where `runTask` is), `thread`
(what the disposable thread has sent or how it ended), `graces` (who is waiting
to terminate it), `timed`, `settled`. `Message`, `ThreadLost`, `TimerFires`,
`CancelTask` and `GraceEnds` are the callbacks of `worker.js`, `FinishTask` the
function they all end in. The worker goes through `_run_code_intelligence_sync`:
`Begin`, `Register` (each provider that is built registers again), `EnsureIndex`,
`Answered`, `Trees`, `CheckHealth`, `HealthAnswered`, `Record`. `cut` and
`broken` are history: graphs whose writer was stopped or lost, and those whose
last writer did not end well. A thread that exits with code zero, or while someone
is ending it, is left to the timer or to who ends it (`src/codegraph_bridge/worker.js:88`).
A cancellation sets the job's row, and is told to the bridge only if the route read the
job as running and reaches the bridge: otherwise the request goes on to its end.

- `code_intelligence`: two jobs of one repository, one restart; threads end well,
  with an error, by dying or not at all. `GraphsHold`: a repository has one
  writer, which is the one that holds its claim, though graces of earlier tasks
  end late (`WritersApart`); what was interrupted is marked before the next
  writer may come, and no row says "fresh" of a graph that was not finished
  (`InterruptedIsStale`). `TasksSettle`: every request ends and frees its
  repository, under weak fairness of the callbacks that are due. Node runs them;
  nothing is assumed of threads and of opening graphs, which may hang. Two jobs
  are the least that lets one's timer, cancellation or message come in the
  other's time; more repositories share nothing but the cache, whose eviction is
  a step at any moment.

Assumed: one job worker, and a container in which worker and bridge restart
together (the entry point ends it when either ends). Queries are modelled as far
as they open graphs; the threads they read in share nothing.

### KnowledgeScopes

The graph as its routes see it: `nodes` under domains, `assigned` and `writable`
(the two readings of `user_domains`), `staged`, `spaces` (the list of workspaces
in a node's metadata). A request is a record `req[u]` that holds what its
transactions have read: a creation is `CreateCheck` (the connections that are there
are checked before anything is written), `CreateInsert` or `CreateFails` (identifiers
may be the client's, be in use, or have been used and deleted), `CreateLink` once per
connection, and without a domain among them `CreateRead` and `CreateRoot`; a purge is
`PurgeClassify`, then `PurgeDelete` and `PurgeUnlink` node by node; a link to a
workspace is `SpaceRead` and `SpaceWrite`; an update of a node is `EditSpaces` when
it names workspaces and `EditRead`, `EditWrite` when it does not. `Walk`, `Neighbors`,
`FullGraph`, `Listing` and `Summary` are the read side; `Pages` are what a limit may
leave of a listing. `kept` and `crossed` are history: the links answered as made, and
the nodes whose list changed after a request had read it.

- `knowledge_scopes`: two domains, two nodes that bear one title, two workspaces;
  two administrators, a user who may create, a guest. `Plans` says who uses which
  routes in one behaviour; any of a plan interleave. `LinksHold`: a link answered as
  made outlives purges of another workspace, imports and edits; it is lost only to a
  write of the node's list that was read before the node last changed, which the code
  permits. `HungInScope`: a node is hung only where its creator may write, or might
  when it was checked, or under what was not there when it was checked: a connection
  to a missing node is passed over by the check (`src/knowledge/routes.py:242`) and
  made later if a domain of that identifier has been created meanwhile. `ViewsAgree`:
  roots are the domains within five hops (two in the instance) by the definition
  of distance; what is shown is closed under its edges, but for a staged node asked
  for by its own identifier; and the totals counted are those of the listing exactly
  when the whole workspace is on its page, as the docstring of the count says
  (`src/db/knowledge_graph.py:463`). Pages have two nodes in place of a thousand, so
  that both cases occur.

Users the plan does not let ask may write nothing at first, and where workspaces are
written and purged there is one domain at most (`MCInit`): neither is looked at there.
A node keeps the type its identifier has, although an update may change it;
`merge_nodes` is in `Contemplation`; how many nodes a purge classifies (10000) and an
import indexes (5000) at most is left out.

### Contemplation

Nodes are numbered in the order of creation, and carry status, content (a
sequence of texts, one for each node whose content was joined), workspaces and
the node they supersede; an edge is its weight. Editors act in single
transactions (`CreateNode` to `DeleteEdge`), but for `merge_nodes`, whose reads
(`MergeRead`) take no lock and whose writes (`MergeWrite`) come later. A worker
goes through `BeginRun`, `TryLock`, `MarkAbandoned`, `LockTables`, `CommitRun`
and `Leave`, each one transaction of `run_contemplate_now`, or `FinishSkipped`;
`FailRun` is its handler, `Crash` the end of its session. `Reconciled` is the
engine: `Settle` for the staged nodes, `Condense` for the committed ones, both
through `Match`, `Merge` and `Absorbed`. `Deactivate` is a job that stops being
queued or running while its run may be alive, which is when another worker
calls the run abandoned.

- `contemplation`: a behaviour is one run with one edit at any moment, on two
  graphs (twins around a domain; twins related by workspaces only, one of which
  supersedes another), or three runs of two workers and two faults: one that
  leaves a run behind and one more while it is being marked. `ReportsHold`: each
  run that ended has one report, of the same outcome, and none merged more than
  the ceiling, three in place of twenty: four twins exceed it. `Undoable`:
  restoring the rows listed in the report leads back to the graph that was there;
  `LinksSurvive`, `FactsSurvive`, `ScopesApart`: what merging keeps, along chains
  of merges.

Embeddings are a set of pairs that stay below the threshold and a choice of whether
the model loads. That of a survivor whose text changed is computed when it is first
compared and cached (`Known`, `src/knowledge/contemplate_matching.py:131`), and a text
that is not known is similar to none. The history `replaced` names the nodes whose
text a supersession replaced; only those are exempt from `FactsSurvive`'s "every text
is its heir's". That a stale text is deferred rather than merged is a guard of
`Similar`, which no property restates.

Not modelled: the expiry flag, link types' labels, the metadata that merging
only collects. Users' updates of metadata are in `KnowledgeScopes`, as far as
workspaces go.

### Engrams

A writer locks the row of `notebook_engrams` (`LockState`), checks what its
request carries, and commits in one step; readers take no lock and read the
revision and the items in two (`ReadRevision`, `ReadAccepted`, `ReadItem`).
`page` is what the user last saw, so that optimistic locking can be stated for
the user and not for the number in the request: `DecidedAsSeen` and
`EditedAsSeen`. A page has a limit (`src/db/engrams.py:282`), so it shows any part of
the accepted items; those it leaves out (`cut`) the user did not see, but they are
still the accepted ones when the request commits. `SnapshotChain`, `TimelineCounts` and `NeverCurrentAgain` are
about the history the tables keep.

`engrams`: two items, two clients, one of whom reads before writing, revision up
to five: a create, a decision, a competing decision, a revision and a snapshot.

### Notebooks, Pages and Feed

`Notebooks`: access is looked up (`Check`), then what else the route reads before it
writes (`Look`, `SeeRow`), and the request takes effect in another transaction
(`Insert`, `Rewrite`, `Delete`, `Grant`, `Change`, `Revoke`, `Mark`, and `BeginVersion`,
`LockVersion`, `CommitVersion` for the only write with a lock of its own);
`Batch` is the one route that does it all at once. Changes of members, renditions and
covers are read back in one transaction more before they are answered (`Reread`).
`Delete` takes with it what the foreign keys say. `ended`, `landed`, `bereft` (the
requests whose result was deleted before they read it back) and `overlap` are history.

`Pages`: one reader of one of six lists, whose cursor is a row that is looked up
again; `Feed`: a client that polls for what is newer than the last it knows.

- `notebooks`: three requests of an owner and one other, in five plans of
  operations that read or write the same rows; four rows, pages of two; four
  notifications, answers of two. `WritersHadAccess`: who writes had access when
  the request came, though it may have ended under way. `AnswersAreTrue`: an
  answer says what happened, with two exceptions that the code has: an edit, a
  cleared cover or a version of a notebook deleted under way is answered as done
  and is nothing; and a change of a member, a rendition or a cover that was
  committed is answered as not found, or as an error, when what it changed was
  deleted before it was read back. `VersionsInTurn`: no number is drawn twice. `PagesCover`: no row
  that stayed is left out or repeated unless a row a cursor named was deleted or
  moved; that exception is the code's too. `ToldOnce`: a notification is told once,
  or it is one the exceptions name: left out of a full answer, or committed after
  one of its time or later had been told.

### Conversation

An event is its place in the order `(created_at, event_id)`; since `created_at`
is taken before the row is inserted, events commit in any order of their places.
An agent takes the latest summary (`ReadBase`), pages through what comes after
its cutoff (`ReadPage`, up to the first page that is not full), and may post a
summary of all it knows, with its last event as the cutoff (`LockConversation`,
`ShareCutoff`, `CountEvents`, `CommitCompaction`: the statements of
`create_compaction`). Row locks are guards: an insert waits for the
conversation's row because of its foreign key, a deletion for a cutoff that is
shared. `covers`, `told`, `goal` and `late` are history: the events a summary
stands for, by the one before it and by reading; those an agent was told in its
summary; those there were when it began; and those that committed after one
placed later.

- `conversation`: two agents, three events, pages of one event, two summaries of
  which the second rests on the first or has an earlier cutoff.
  `NothingMissed`: at the last page an agent knows every live event there was
  when it began, but for late ones; deleting the event a cursor stands on does
  not end the reading. `ToldOnce`: and none twice. `CountedAll`: what a compaction
  counted is what it stands for when it commits. Three events are the least that lets one be summarised, one be the
  cursor and be deleted, and one come after it.

The exception in `NothingMissed` is real: an event that commits after one placed
later, below a cutoff, is in no summary and no tail. Roles are not modelled, nor
are transcripts that include deleted events.

### TaskClaims, Workdays and Workspaces

`TaskClaims`: most routes read the task in one transaction and write it in one or
two others; `req[a]` holds what was read. `PutStatus` and `SetReadyState` are the
two transactions of an update, which anyone may send at any time; `ReviewLook`,
`ReviewWrite` and `SetReadyState` the three of a review, `RunLook`, `PatchRead` and
`ConfigWrite` the three of a filed run, `ConfigRead` and `ConfigWrite` those of an
edited or armed configuration; `Claim` is the one that locks. No guard looks at
history, which is: `running`, who executes a task, from claim to report; `overridden`,
those of them whose task someone else moved on; `stale`, reviewers whose task's status
was written since they read it; `filed`, runs answered as posted; `crossed`, those
written while another request had the list.

`Workdays`: a window's request to end a day closes the days left open, oldest
first, each by `Record`, `ReadBack` and `Move`. A day is recorded for one user only,
since the table's key is the date alone (`src/postgres_client.py:412`). `closed` is
history: the endings that were answered, whatever the table says; so are `lapsed`,
those for which the row was another user's or was taken back, and `late`, windows about to move
tasks to a day that another window has ended since. `Workspaces`: `CreateNumber` and
`CreateInsert` are the two transactions of a task's creation; `Attach`, `Detach`
and `Resolved` are the attached sessions.

- `tasks`: two runners and two people around one task, in two plans: claims,
  updates, arming and reviews; runs, configurations and comments. Three windows, two
  of one user, and two days to end, looking four ahead. Two users, workspaces and
  tasks. `OneRunner`: two runners execute one task only if someone else wrote its
  status while the first did, or a review was decided on a status older than the
  task's. `RunsKept`: a filed run stays filed, although its list is written back two
  transactions later, unless another request had read the list when it was written.
  `RollsToAnOpenDay`: once a user's requests are answered, rolled work does not wait
  on a day answered as ended, unless another user had ended that day first or a
  window moved the work to a day that another window ended after it had read the days.
  `NumbersNameOneTask`: no number names two tasks, ever. `ResolvesToLast`: a session
  resolves to what it was attached to last.

The exceptions are the code's. The claim "keeps multiple runners from executing the
same development task" (`src/db/tasks.py:515`) against other claims, not against an
update or a late review that queues the task again while it is executed.
`ResolvesToLast` assumes that attachments of one session are made one at a time.

### Startup, Accounts, McpSessions and McpCalls

`Startup`: a server takes the advisory lock, migrates and replays in one
transaction (`Migrate`), which may deadlock with servers at work and is tried
again; then `Seed` inserts the default users or sets their name, address, role and
activity back to the defaults (`src/db/users.py:219`), or fails, and the server serves
in either case; meanwhile accounts are created, changed and deleted (`ChangeAccount`).
A database may be left by any of five
earlier versions, with or without the migrations whose numbers were used twice.
`Accounts`: a request touches the user's row through each server's throttle, in a
statement that reads (`Begin`) before it locks (`Finish`); a server's throttle
(`app.py`) outlives the account it is of, so that an account deleted and created
again within it is not touched at once. `McpSessions`:
`CaptureLook` and `CaptureBind` are the middleware, `CallTool` what the tool finds
later; memory of each replica and a table that may fail. `McpCalls`: the lookup of
a role (`AskRole`, `ReadRole`, `RememberRole`) and the thread that counts a call
(`Post`, `Write`, and the server's `RecordLate`).

- `server`: two servers, two deadlocks, as many as an attempt is repeated, and one
  crash; logins over four ticks, one a throttle and two a gap, with two creations
  or deletions of the account; three requests
  of two keys at two replicas; a tool call with two losses. `StartsAreSafe`: who
  serves finds the whole schema, and starting undoes nothing users did, with the one
  exception that each start undoes what was done to the default users: one that was
  deactivated, demoted or deleted is back as it was.
  `LoginsAreResumptions`: logins are the times the user came back, whichever
  servers saw them. `SessionsHold`: a session acts for a key its client sent, at
  every replica; the table has the one sent last; calls are counted for the client
  they act for. `CallsHold`: a remembered role is a recent one; a call is counted
  once, or the history says why not.

Assumed: a client that sends a key sends its app's name with it, and a lookup or a
statement takes less than the time it is bounded by (`Tick`).

## What is proved

TLAPS proves the following for every value of the constants that satisfies the
named assumptions of the modules (`ConstantsAssumption`, `RepoConstantsAssumption`,
`BridgeAssumption`, `ScopesAssumption`, `GraphConstantsAssumption`,
`EngramConstantsAssumption`, `ConversationConstantsAssumption`, `TasksAssumption`,
`ServerAssumption`); what a theorem assumes besides is in its statement. The
assumptions say what the code's constants are: that bounds are numbers, that
absent values (`None`, the `"_last"` of a session binding) name nothing that is there, that a
throttle is no longer than the gap between two logins, and, in
`GraphConstantsAssumption`, that maintenance starts from graphs without dangling
edges. Every safety property of every passing run, state or action property, is
the subject of a theorem.

- `JobQueueProofs`: `TypeCorrect`, `ExclusiveExecution`, `WithdrawnStaysUnrun`,
  `FinalStatusOwned`. The inductive invariant is `IInv`: types, `Held` (a busy
  worker's job was started), `Known`, and `NoSharedJob`. `NoSharedJob` is not
  inductive alone: claiming a job takes one that is queued, and that a queued
  job is in nobody's hands is what `Held` says, since a started row never
  becomes queued again. With one worker and no database failure,
  `NothingOrphaned`, `ImplementsLifecycle` (every initial state and every step maps to one of `JobLifecycle`) and
  `SettledRowsAgree`. The invariant adds `Alone`: one row at most is active, and
  it is the one in the worker's hands; and, for what submitters are told, that
  nobody is told of an unfinished job (`Unsettled`) and that a worker about to
  tell has recorded just that (`Telling`).
- `RepoIndexProofs`: `IndexTypes`, `NothingForgotten`. That a stale file is in the
  scope of some job is far from inductive, since a job drops from its scope what
  it takes for done: the invariant adds that rows are never ahead of the working
  tree (`RowBehind`), where the tree may have drifted from HEAD (`Drift`), that what a
  differential job would misjudge is taken up by a later one (`QueueCovers`,
  `StartCovers`, `FilesCover`), and what a row of the present mtime may hide
  (`RowFresh`), which is where `outrun` came to light.
- `CodeGraphBridgeProofs`: `GraphsSafe`. That writers stay apart is not inductive
  alone, because a task is settled by whoever comes first and its thread may
  outlive none of them: the invariant adds where each task's thread can be
  (`Pending`, `Ending`, `Unbegun`), that no two open tasks are of one repository
  (`Alone`), that an interrupted graph is marked from the moment its claim is
  free and that a task on its way to an answer left a whole graph (`CutKnown`,
  `DoneWhole`), and that the worker brings "fresh" only of such a one
  (`RowsSound`).
- `KnowledgeScopesProofs`, of the routes: `TypeCorrect`; `HungInItsScope`;
  `LinksKept`, for any administrators and finitely many workspaces;
  `ViewsAlwaysAgree`, for finitely many nodes and any limit of a page. What has to be
  added is what requests have read and not yet used: as long as a node has not changed
  since, the list about to be written, or the classification about to be carried out,
  is what the node says now (`Read`, by `Filed`, `Edited`, `Purged`); and a node is
  aimed only at domains of its creator, or absent ones, before it is made, too
  (`Aimed`). The rounds of a walk are a recursive
  function; that round by round it
  holds the nodes within that many hops is proved by the least round at which it
  would not (`Upwards`, from the well-foundedness of the numbers). That counts differ
  when the page leaves something out follows from finite sets: a proper part of the
  workspace's nodes is fewer.
- `KnowledgeScopesProofs`, of the maintenance: `ReportsAlwaysHold`, `ReportsUndo`,
  `MergedLinksSurvive`, `MergedFactsSurvive`, `MergedScopesApart`. The invariant
  `Recorded` says whose the runs and the locked tables are (`Own`: who writes has
  the tables, and the snapshot is still the graph) and that rows and reports are
  written together. What reconciling keeps is proved of its two loops node by
  node: `Works` is what every merge and promotion preserves, and `Traces` says
  there is, for the graph so far, a function from each node to the node it ended
  in and one that bounds the steps on the way (`Heirs`), such that edges, texts,
  workspaces and domains are those of the ends (`Linked`, `Preserved`). That the heir
  a report's reader computes, by following `into` as often as there are nodes, is
  that end, follows from the bound (`HeirFound`).
- `EngramsProofs`: `TypeCorrect`, `DecisionsPinned`, `EditsPinned`,
  `SnapshotsChained`, `TimelineAccounts`, `SupersededStaysOut`. The core is that
  every change of the accepted items steps the revision, and that a page's
  revision is read before its items: a page that is not torn is pinned by its
  revision, and one that is torn carries an older revision and is refused.
- `NotebooksProofs`: `TypeCorrect`, `WritersMay`, `AnswersTold`,
  `VersionsOneByOne`, for finitely many requests of operations the routes have
  (`Sensible`). `Shape` says what a step of any request does. A request under way
  keeps its access or was seen to lose it (`Access`), which is all a revocation
  cannot reach; it has changed nothing before it is answered or about to read back
  what it wrote (`Unanswered`), and then what it wrote is there or is known to have
  been deleted (`Written`); and
  while no two versions overlapped they are in the order of their times and
  before the one under way (`InOrder`). `NotificationsAreToldOnce`: what was told is
  no later than the last told, and what is passed over was left out or came late
  (`FeedInv`). `PagesCoverTheirList`, for lists with times and pages with rows
  (`ListsSensible`): what a reader has not been told comes after its cursor
  (`Covered`), what comes after has not been told (`Once`), and the cursor's row is
  there or its absence ended the reading (`Placed`).
- `ServerProofs`, of conversations: `TypeCorrect`, `SummaryAndTail`,
  `NoRepetition`, `CountsAll`, `VersionsNeverCollide`, `CutoffsAlive`.
  `NothingMissed` speaks of agents that are done; the invariant says it of
  everyone, up to the cursor (`Complete`), and of every summary, up to its cutoff
  (`Summaries`), so that each hands it to the next. It is kept when events are
  appended because cursors and cutoffs are committed events (`Places`): what
  appears below one is late.
- `ServerProofs`, of the parts of `MCServer`: `StartsUndoNothing` (who serves has
  seen the schema whole, `SchemaThere`, what a replay would overwrite is marked,
  `Claims`, and an account is what its users made it or, since the last seeding, its
  default, `AccountsKept`); `LoginsAreReturns` (nothing is recorded of the
  future, `Past`; statements belong to a life of the account, `Lives`, and saw its row
  or lost it to another, `Read`; counted logins are a gap apart, `Apart`; unless
  something was missed the row lags behind a server's memory by a throttle, `Told`); `SessionsAreKept` (what a request has captured, bound and been served
  is right at each of its stages, `Good`, and the middleware has one request of a
  replica in hand, `Alone`); `CallsAreCounted` (remembered roles and lookups are no
  older than their time, `CacheInTime`, `LookupInTime`, and each call is accounted for
  at each stage of its two writes, `Counting`).
- `TasksProofs`: `TypeCorrect`; `ClaimsExclude`, for any runners, people and tasks;
  `FiledRunsStay`, for any number of writers. That a claim excludes another is not
  inductive alone, since updates, reports and reviews queue a task again: the invariant
  adds that who executes a task that is not in progress has been overridden (`Busy`)
  and that a review about to decide finds its task waiting unless it is stale
  (`Reviewed`), so that deciding queues nothing that runs. A filed run stays because
  the list a request is about to write back lacks nothing but runs that crossed it
  (`Posting`).
  `WorkRollsToAnOpenDay`, for any users, windows and work weeks: rolled work waits
  on a day that has no row of its user, or a window is about to move it on (`Waits`),
  to a day that stays open, is the day itself or was recorded by another window
  (`Ahead`); and an ending that was answered has its row, or is known to have none
  (`Recorded`). `NumbersAreKept`, `SessionsResolve`: a number drawn and not used is
  nobody's (`Drawn`), and the latest row of a session is where it was attached last
  (`Latest`).

The invariants were checked by TLC before they were proved.

Only model-checked are the liveness properties (`EveryJobSettles`, `EventuallyFresh`,
`TasksSettle`): fairness and `ENABLED` are out of the prover's reach. Of
`LifecycleSpec` the theorem says all there is, since `JobLifecycle`'s specification
states no fairness.

## Findings

A callback that sees the cancellation inside the indexer's loop raises a class
the loop does not know: it is counted as a failed file, and the job ends as done
(`queue_seen_cancel_stops`).

A changed file may stay out of the search index although no job failed: an AST or
tree job that runs first makes the row current, and the differential index job
skips the file as unchanged (`outrun` in `RepoIndex`).

The exceptions named in the properties above are as much a result: what a notebook
deleted under way is answered, and a change that is committed and answered as not
found; the pages after a row that was deleted or moved;
notifications of one time; the call counted twice; the event below a cutoff; links
and runs lost to a list written back, a node hung under a domain nobody checked; the
second runner after an update or a late review; the day that another user ended
first; default users who are reset by every start.

## Not modelled

- Text, vectors and parsers: walking, chunking, embedding, reranking, ASTs, impact
  analysis. They compute on one file at a time; what could be stated about them is
  about grammars and models outside the repository.
- Session files of other programs, and abilities: files one process reads and
  writes at a time.
- Notes, reminders, preferences, Jira and merge requests: rows that are read and
  written singly.
- The connection pool, rate limits and validation of single requests; the schema
  kept for exports of an earlier database.
- Files of covers and renditions, bundles, marking notifications as read, the order
  of tasks within a day, metadata of nodes other than workspaces, and the text search.

## Plan

1. The expiry flag of nodes in `Contemplation`, provenance in `Engrams`, marking
   and pruning in `Feed`.
2. Operators checked against reference definitions: the chunker's windows, the
   dependency walk of impact analysis.
