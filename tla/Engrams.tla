------------------------------- MODULE Engrams -------------------------------
(***************************************************************************)
(* The engram of one notebook (db/engrams.py, routes/notebooks.py): items  *)
(* that are proposed, accepted or rejected, revised, resolved and          *)
(* superseded, snapshots of the accepted ones, and the append-only         *)
(* timeline of events.                                                     *)
(*                                                                         *)
(* A writer locks the notebook's row of notebook_engrams, reads, and       *)
(* commits; readers take no lock.  What a client was shown it may send     *)
(* back as expected_revision or expected_lock_version.                     *)
(***************************************************************************)
EXTENDS Naturals, Sequences, FiniteSets

CONSTANTS
  Items,        \* identifiers of items
  Clients,      \* request handlers with the user behind them
  Readers,      \* those whose users look at the engram first
  MaxRevision   \* bound on the revision

ASSUME EngramConstantsAssumption == 
  IsFiniteSet(Items) /\ MaxRevision \in Nat /\ Readers \subseteq Clients

VARIABLES
  revision, current,    \* notebook_engrams
  item,                 \* engram_items, with lock_version and current_version
  parents,              \* engram_snapshots: the parent of every snapshot
  logged, about,        \* engram_events: how many, and how many of each item
  once,                 \* history: items that have been superseded
  holder,               \* who has locked the row
  pc, op,               \* handlers: step and request
  mine,                 \* handlers: what the transaction read under the lock
  page                  \* users: what they were last shown

table == <<revision, current, item, parents, logged, about, once>>
vars  == <<table, holder, pc, op, mine, page>>

Statuses == {"unborn", "candidate", "accepted", "rejected", "resolved", "superseded"}
Row      == [status : Statuses, version : Nat, lock : Nat]
Absent   == [status |-> "unborn", version |-> 0, lock |-> 0]
NewRow(s) == [status |-> s, version |-> 1, lock |-> 1]
Edited(r, s, v) == [status |-> s, version |-> v, lock |-> r.lock + 1]

Born      == {i \in Items : item[i].status # "unborn"}
Accepted  == {i \in Items : item[i].status = "accepted"}
Listed(S) == [i \in Items |-> IF i \in S THEN item[i] ELSE Absent]

(* A request: its targets, the status it asks for, and whether it carries  *)
(* the revision, or the lock version, its user was shown.                  *)
NoRequest == [kind |-> "none", on |-> {}, to |-> "unborn", rev |-> FALSE, lock |-> FALSE]
NoRead    == [row |-> [i \in Items |-> Absent], parent |-> 0, next |-> 0]

Init ==
  /\ revision = 0 /\ current = 0
  /\ item = [i \in Items |-> Absent]
  /\ parents = <<>>
  /\ logged = 0
  /\ about = [i \in Items |-> 0]
  /\ once = {}
  /\ holder = {}
  /\ pc = [c \in Clients |-> "idle"]
  /\ op = [c \in Clients |-> NoRequest]
  /\ mine = [c \in Clients |-> NoRead]
  /\ page = [c \in Clients |-> [full |-> FALSE, rev |-> 0, cut |-> {},
                                row |-> [i \in Items |-> Absent]]]

-----------------------------------------------------------------------------
(* Readers.                                                                *)

(* get_current, first transaction: the revision.                           *)
ReadRevision(c) ==
  /\ c \in Readers /\ pc[c] = "idle"
  /\ page' = [page EXCEPT ![c] = [full |-> FALSE, rev |-> revision, cut |-> {},
                                  row |-> [i \in Items |-> Absent]]]
  /\ pc' = [pc EXCEPT ![c] = "reading"]
  /\ UNCHANGED <<table, holder, op, mine>>

(* Second transaction, list_items: the accepted items, or as many of them  *)
(* as the limit of the request lets through, which is at least one.        *)
ReadAccepted(c) ==
  /\ pc[c] = "reading"
  /\ \E S \in SUBSET Accepted :
       /\ S = {} => Accepted = {}
       /\ page' = [page EXCEPT ![c] = [full |-> TRUE, rev |-> page[c].rev,
                                       cut |-> Accepted \ S, row |-> Listed(S)]]
  /\ pc' = [pc EXCEPT ![c] = "idle"]
  /\ UNCHANGED <<table, holder, op, mine>>

(* get_item, also the answer to most requests.                             *)
ReadItem(c, i) ==
  /\ c \in Readers /\ pc[c] = "idle"
  /\ i \in Born
  /\ page' = [page EXCEPT ![c].row[i] = item[i]]
  /\ UNCHANGED <<table, holder, pc, op, mine>>

-----------------------------------------------------------------------------
(* Writers.                                                                *)

Shown(c) == {i \in Items : page[c].row[i].status # "unborn"}

(* What the endpoints accept.                                              *)
One == {{i} : i \in Items}
Endpoints ==
  [kind : {"create"}, on : One, to : {"candidate", "accepted"}, rev : BOOLEAN, lock : {FALSE}]
  \cup [kind : {"decide"}, on : (SUBSET Items) \ {{}}, to : {"accepted", "rejected"},
        rev : BOOLEAN, lock : {FALSE}]
  \cup [kind : {"snapshot"}, on : {{}}, to : {"unborn"}, rev : BOOLEAN, lock : {FALSE}]
  \cup [kind : {"revise", "resolve", "supersede"}, on : One, to : {"unborn"},
        rev : {FALSE}, lock : BOOLEAN]

(* A user who was shown the current engram may send its revision, one who  *)
(* was shown an item the item's lock version.                              *)
Requests(c) ==
  {q \in Endpoints : (q.rev => page[c].full) /\ (q.lock => q.on \subseteq Shown(c))}

(* Mutant: whatever became of an item, it may be decided on again.         *)
DecidableAlways == Statuses \ {"unborn"}

(* batch_decide: the statuses an item may be accepted or rejected from.    *)
Decidable == {"candidate", "accepted", "rejected"}

(* EngramConflictError, or a primary key taken already.                    *)
Conflict(c, q) ==
  \/ q.rev /\ page[c].rev # revision
  \/ q.lock /\ \E i \in q.on : page[c].row[i].lock # item[i].lock
  \/ q.kind = "create" /\ q.on \cap Born # {}
  \/ q.kind \in {"decide", "revise", "resolve", "supersede"} /\ ~ q.on \subseteq Born
  \/ q.kind = "decide" /\ \E i \in q.on : item[i].status \notin Decidable
  \/ q.kind = "supersede" /\ \E i \in q.on : item[i].status = "superseded"

(* Mutant: _state without FOR UPDATE.                                      *)
LockStateShared(c, q) ==
  /\ pc[c] = "idle"
  /\ ~ Conflict(c, q)
  /\ holder' = holder \cup {c}
  /\ pc' = [pc EXCEPT ![c] = "locked"]
  /\ op' = [op EXCEPT ![c] = q]
  /\ mine' = [mine EXCEPT ![c] = [row |-> item, parent |-> current,
                                  next |-> Len(parents) + 1]]
  /\ UNCHANGED <<table, page>>

(* _state with FOR UPDATE, the reads that follow it, and the checks.  A    *)
(* request that fails them is rolled back and changes nothing.             *)
LockState(c, q) ==
  /\ pc[c] = "idle"
  /\ holder = {}
  /\ ~ Conflict(c, q)
  /\ holder' = {c}
  /\ pc' = [pc EXCEPT ![c] = "locked"]
  /\ op' = [op EXCEPT ![c] = q]
  /\ mine' = [mine EXCEPT ![c] = [row |-> item, parent |-> current,
                                  next |-> Len(parents) + 1]]
  /\ UNCHANGED <<table, page>>

(* The transaction ends, committed or not, and the row is unlocked.        *)
Release(c) ==
  /\ holder' = holder \ {c}
  /\ pc' = [pc EXCEPT ![c] = "idle"]
  /\ op' = [op EXCEPT ![c] = NoRequest]
  /\ mine' = [mine EXCEPT ![c] = NoRead]
  /\ UNCHANGED page

Locked(c, k) == pc[c] = "locked" /\ op[c].kind = k

(* The revision moves by the number of events appended.                    *)
StepRevision(n) ==
  /\ revision + n <= MaxRevision
  /\ revision' = revision + n
  /\ logged' = logged + n

(* One event about each item of S.                                         *)
Log(S) == about' = [i \in Items |-> IF i \in S THEN about[i] + 1 ELSE about[i]]

(* create_item *)
CommitCreate(c) ==
  /\ Locked(c, "create")
  /\ item' = [i \in Items |-> IF i \in op[c].on THEN NewRow(op[c].to) ELSE item[i]]
  /\ StepRevision(1)
  /\ Log(op[c].on)
  /\ UNCHANGED <<current, parents, once>>
  /\ Release(c)

(* batch_decide *)
CommitDecide(c) ==
  /\ Locked(c, "decide")
  /\ item' = [i \in Items |->
                IF i \in op[c].on
                THEN Edited(item[i], op[c].to, item[i].version)
                ELSE item[i]]
  /\ StepRevision(Cardinality(op[c].on))
  /\ Log(op[c].on)
  /\ UNCHANGED <<current, parents, once>>
  /\ Release(c)

(* revise_item: a new version, numbered from the one that was read.        *)
CommitRevise(c) ==
  /\ Locked(c, "revise")
  /\ item' = [i \in Items |->
                IF i \in op[c].on
                THEN Edited(item[i], item[i].status, mine[c].row[i].version + 1)
                ELSE item[i]]
  /\ StepRevision(1)
  /\ Log(op[c].on)
  /\ UNCHANGED <<current, parents, once>>
  /\ Release(c)

(* Mutant: the revision of the notebook stays.                             *)
CommitResolveKeepsRevision(c) ==
  /\ Locked(c, "resolve")
  /\ item' = [i \in Items |->
                IF i \in op[c].on
                THEN Edited(item[i], "resolved", item[i].version)
                ELSE item[i]]
  /\ Log(op[c].on)
  /\ UNCHANGED <<revision, logged, current, parents, once>>
  /\ Release(c)

(* transition_item, which looks at no status.                              *)
CommitResolve(c) ==
  /\ Locked(c, "resolve")
  /\ item' = [i \in Items |->
                IF i \in op[c].on
                THEN Edited(item[i], "resolved", item[i].version)
                ELSE item[i]]
  /\ StepRevision(1)
  /\ Log(op[c].on)
  /\ UNCHANGED <<current, parents, once>>
  /\ Release(c)

(* Mutant: the replacement is not counted.                                 *)
CommitSupersedeCountsOnce(c, r) ==
  /\ Locked(c, "supersede")
  /\ r \in Items \ Born
  /\ item' = [i \in Items |->
                IF i = r THEN NewRow("accepted")
                ELSE IF i \in op[c].on
                THEN Edited(item[i], "superseded", item[i].version)
                ELSE item[i]]
  /\ revision + 2 <= MaxRevision
  /\ revision' = revision + 1
  /\ logged' = logged + 2
  /\ Log(op[c].on \cup {r})
  /\ once' = once \cup op[c].on
  /\ UNCHANGED <<current, parents>>
  /\ Release(c)

(* supersede_item: an accepted replacement, and two events.                *)
CommitSupersede(c, r) ==
  /\ Locked(c, "supersede")
  /\ r \in Items \ Born
  /\ item' = [i \in Items |->
                IF i = r THEN NewRow("accepted")
                ELSE IF i \in op[c].on
                THEN Edited(item[i], "superseded", item[i].version)
                ELSE item[i]]
  /\ StepRevision(2)
  /\ Log(op[c].on \cup {r})
  /\ once' = once \cup op[c].on
  /\ UNCHANGED <<current, parents>>
  /\ Release(c)

(* create_snapshot: numbered after the highest, child of the current one.  *)
CommitSnapshot(c) ==
  /\ Locked(c, "snapshot")
  /\ mine[c].next = Len(parents) + 1          \* UNIQUE (notebook_id, version_number)
  /\ parents' = Append(parents, mine[c].parent)
  /\ current' = mine[c].next
  /\ StepRevision(1)
  /\ UNCHANGED <<item, about, once>>
  /\ Release(c)

(* The database fails, or the handler dies: nothing is written.            *)
Abort(c) ==
  /\ pc[c] = "locked"
  /\ Release(c)
  /\ UNCHANGED table

-----------------------------------------------------------------------------
Next ==
  \E c \in Clients :
    \/ ReadRevision(c) \/ ReadAccepted(c)
    \/ \E i \in Items : ReadItem(c, i)
    \/ \E q \in Requests(c) : LockState(c, q)
    \/ Abort(c)
    \/ CommitCreate(c) \/ CommitDecide(c) \/ CommitRevise(c) \/ CommitResolve(c)
    \/ CommitSnapshot(c)
    \/ \E r \in Items : CommitSupersede(c, r)

Spec == Init /\ [][Next]_vars

-----------------------------------------------------------------------------
(* Properties.                                                             *)

Requested ==
  [kind : {"none", "create", "decide", "snapshot", "revise", "resolve", "supersede"},
   on : SUBSET Items, to : Statuses, rev : BOOLEAN, lock : BOOLEAN]

TypeOK ==
  /\ revision \in 0..MaxRevision /\ current \in Nat
  /\ item \in [Items -> Row]
  /\ parents \in Seq(Nat)
  /\ logged \in Nat /\ about \in [Items -> Nat]
  /\ once \subseteq Items
  /\ holder \subseteq Clients
  /\ pc \in [Clients -> {"idle", "reading", "locked"}]
  /\ op \in [Clients -> Requested]
  /\ mine \in [Clients -> [row : [Items -> Row], parent : Nat, next : Nat]]
  /\ page \in [Clients -> [full : BOOLEAN, rev : Nat, cut : SUBSET Items, row : [Items -> Row]]]

(* What is accepted is what a user was shown as such, version for version, *)
(* and what the limit of the request left out of the page.                 *)
SeenAccepted(c) ==
  \A i \in Items :
    IF page[c].row[i].status = "accepted" THEN item[i] = page[c].row[i]
    ELSE i \in Accepted => i \in page[c].cut

(* A decision, new item or snapshot sent with expected_revision goes       *)
(* through only while the accepted items, and their versions, are those    *)
(* its user was shown, although get_current reads the revision and the     *)
(* items in two transactions; an item the page left out is still accepted. *)
DecidedAsSeen ==
  \A c \in Clients : pc[c] = "locked" /\ op[c].rev =>
    SeenAccepted(c) /\ page[c].cut \subseteq Accepted

(* An edit sent with expected_lock_version finds its item exactly as its   *)
(* user was shown it: nobody's edit or decision is overwritten unseen.     *)
EditedAsSeen ==
  \A c \in Clients : pc[c] = "locked" /\ op[c].lock =>
    \A i \in op[c].on : item[i] = page[c].row[i]

(* "Versions, timeline events, and snapshots are immutable history"        *)
(* (memory-bank/architecture.md): snapshots form a chain without forks or  *)
(* gaps, of which the newest is the current one.                           *)
SnapshotChain ==
  /\ current = Len(parents)
  /\ \A n \in 1..Len(parents) : parents[n] = n - 1

(* The timeline accounts for the tables: one event for every step of the   *)
(* revision, and for every step of an item's lock version.                 *)
TimelineCounts ==
  /\ logged = revision
  /\ \A i \in Items : about[i] = item[i].lock

(* An item that was superseded never is among the current ones again, by   *)
(* whatever sequence of resolutions and decisions.                         *)
NeverCurrentAgain == \A i \in once : item[i].status # "accepted"
=============================================================================
