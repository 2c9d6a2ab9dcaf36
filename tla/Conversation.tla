---------------------------- MODULE Conversation ----------------------------
(***************************************************************************)
(* One conversation of a notebook (db/notebooks.py, routes/notebooks.py):  *)
(* events that are appended and tombstoned, compactions that summarise all *)
(* events up to a cutoff, and agents that read the latest summary, page    *)
(* through the events after it, and post a summary of what they know.      *)
(*                                                                         *)
(* An event is its place in the order (created_at, event_id).  created_at  *)
(* is taken before the row is inserted, so that events commit in any order *)
(* of their places.                                                        *)
(***************************************************************************)
EXTENDS Naturals, Sequences, FiniteSets

CONSTANTS
  Agents,
  MaxEvents,       \* bound on the events
  MaxCompactions,  \* bound on the compactions
  PageLimit        \* events in a full page

ASSUME ConversationConstantsAssumption ==
  /\ MaxEvents \in Nat /\ MaxCompactions \in Nat
  /\ PageLimit \in Nat \ {0}

VARIABLES
  committed, deleted,   \* notebook_events, and those with a deleted_at
  compactions,          \* conversation_compactions, by version_number
  pc,                   \* where an agent is
  told,                 \* the events that stand in the summary it was given
  cursor,               \* the last event it has read about (0: none)
  seen,                 \* the events it was given
  count, version,       \* create_compaction's event_count and version
  late,                 \* history: events committed after one placed later
  goal                  \* history: what was there when it began to read

events == <<committed, deleted, late>>
reader == <<told, cursor, seen, goal>>
vars   == <<events, compactions, pc, reader, count, version>>

Events == 1..MaxEvents
Live   == committed \ deleted
Known(a) == told[a] \cup seen[a]

UpTo(c) == {e \in Live : e <= c}

(* Transactions that hold the conversation's row, and those that share     *)
(* their cutoff's.                                                         *)
Holds(a)  == pc[a] \in {"locked", "shared", "counted"}
Shares(a) == pc[a] \in {"shared", "counted"}
RowFree   == \A a \in Agents : ~ Holds(a)

Init ==
  /\ committed = {} /\ deleted = {} /\ late = {}
  /\ compactions = <<>>
  /\ pc = [a \in Agents |-> "idle"]
  /\ told = [a \in Agents |-> {}]
  /\ cursor = [a \in Agents |-> 0]
  /\ seen = [a \in Agents |-> {}]
  /\ goal = [a \in Agents |-> {}]
  /\ count = [a \in Agents |-> 0]
  /\ version = [a \in Agents |-> 0]

-----------------------------------------------------------------------------
(* Events.                                                                 *)

(* Mutant: without the foreign key, an insert does not wait for the row.   *)
CreateEventUnlocked(e) ==
  /\ e \notin committed
  /\ committed' = committed \cup {e}
  /\ late' = IF \E f \in committed : f > e THEN late \cup {e} ELSE late
  /\ UNCHANGED <<deleted, compactions, pc, reader, count, version>>

(* create_event: the insert takes the conversation's row FOR KEY SHARE.    *)
CreateEvent(e) ==
  /\ e \notin committed
  /\ RowFree
  /\ committed' = committed \cup {e}
  /\ late' = IF \E f \in committed : f > e THEN late \cup {e} ELSE late
  /\ UNCHANGED <<deleted, compactions, pc, reader, count, version>>

(* tombstone_event takes the event's row FOR UPDATE; the row stays.        *)
TombstoneEvent(e) ==
  /\ e \in Live
  /\ \A a \in Agents : Shares(a) => cursor[a] # e
  /\ deleted' = deleted \cup {e}
  /\ UNCHANGED <<committed, late, compactions, pc, reader, count, version>>

-----------------------------------------------------------------------------
(* Reading.                                                                *)

(* view=compacted, first transaction: the latest summary, and its cutoff   *)
(* as the place to go on from.                                             *)
ReadBase(a) ==
  LET n == Len(compactions) IN
  /\ pc[a] = "idle"
  /\ pc' = [pc EXCEPT ![a] = "reading"]
  /\ told' = [told EXCEPT ![a] = IF n = 0 THEN {} ELSE compactions[n].covers]
  /\ cursor' = [cursor EXCEPT ![a] = IF n = 0 THEN 0 ELSE compactions[n].cutoff]
  /\ seen' = [seen EXCEPT ![a] = {}]
  /\ goal' = [goal EXCEPT ![a] = Live]
  /\ UNCHANGED <<events, compactions, count, version>>

(* Mutant: the row of the cursor is looked for among the rows that are not *)
(* deleted, and a comparison with no row holds for none.                   *)
AfterLive(c) == IF c \in deleted THEN {} ELSE {e \in Live : e > c}

(* Mutant: the comparison includes the cursor.                             *)
AfterOrAt(c) == {e \in Live : e >= c}

(* The subselect of list_events_page finds the cursor's row whether it is  *)
(* deleted or not.                                                         *)
After(c) == {e \in Live : e > c}

(* ORDER BY created_at, event_id LIMIT n.                                  *)
IsPage(P, c) ==
  /\ \A e \in P, f \in After(c) : f < e => f \in P
  /\ \/ Cardinality(P) = PageLimit
     \/ Cardinality(P) < PageLimit /\ P = After(c)

(* list_events_page; a page that is not full is the last one.              *)
ReadPage(a) ==
  /\ pc[a] = "reading"
  /\ \E P \in SUBSET After(cursor[a]) :
       /\ IsPage(P, cursor[a])
       /\ seen' = [seen EXCEPT ![a] = @ \cup P]
       /\ \/ P = {} /\ cursor' = cursor
          \/ \E m \in P : /\ \A e \in P : e <= m
                          /\ cursor' = [cursor EXCEPT ![a] = m]
       /\ pc' = [pc EXCEPT ![a] = IF Cardinality(P) < PageLimit THEN "done" ELSE "reading"]
  /\ UNCHANGED <<events, compactions, told, goal, count, version>>

(* The agent turns to something else, or its request fails: a transaction  *)
(* it is in is rolled back.                                                *)
Leave(a) ==
  /\ pc[a] # "idle"
  /\ pc' = [pc EXCEPT ![a] = "idle"]
  /\ told' = [told EXCEPT ![a] = {}]
  /\ cursor' = [cursor EXCEPT ![a] = 0]
  /\ seen' = [seen EXCEPT ![a] = {}]
  /\ goal' = [goal EXCEPT ![a] = {}]
  /\ count' = [count EXCEPT ![a] = 0]
  /\ version' = [version EXCEPT ![a] = 0]
  /\ UNCHANGED <<events, compactions>>

-----------------------------------------------------------------------------
(* create_compaction, statement by statement.                              *)

(* An agent that knows everything up to its cursor posts a summary of it,  *)
(* with the cursor as cutoff.                                              *)
LockConversation(a) ==
  /\ pc[a] \in {"reading", "done"}
  /\ cursor[a] # 0
  /\ Len(compactions) < MaxCompactions
  /\ RowFree
  /\ pc' = [pc EXCEPT ![a] = "locked"]
  /\ UNCHANGED <<events, compactions, reader, count, version>>

(* The cutoff is taken FOR SHARE; a deleted one is refused (Leave).        *)
ShareCutoff(a) ==
  /\ pc[a] = "locked"
  /\ cursor[a] \in Live
  /\ pc' = [pc EXCEPT ![a] = "shared"]
  /\ UNCHANGED <<events, compactions, reader, count, version>>

CountEvents(a) ==
  /\ pc[a] = "shared"
  /\ count' = [count EXCEPT ![a] = Cardinality(UpTo(cursor[a]))]
  /\ version' = [version EXCEPT ![a] = Len(compactions) + 1]
  /\ pc' = [pc EXCEPT ![a] = "counted"]
  /\ UNCHANGED <<events, compactions, reader>>

(* The insert, which the unique index on the version may refuse (Leave).   *)
CommitCompaction(a) ==
  /\ pc[a] = "counted"
  /\ version[a] = Len(compactions) + 1
  /\ compactions' = Append(compactions,
                      [cutoff |-> cursor[a], count |-> count[a], covers |-> Known(a)])
  /\ pc' = [pc EXCEPT ![a] = "idle"]
  /\ told' = [told EXCEPT ![a] = {}]
  /\ cursor' = [cursor EXCEPT ![a] = 0]
  /\ seen' = [seen EXCEPT ![a] = {}]
  /\ goal' = [goal EXCEPT ![a] = {}]
  /\ count' = [count EXCEPT ![a] = 0]
  /\ version' = [version EXCEPT ![a] = 0]
  /\ UNCHANGED events

-----------------------------------------------------------------------------
Next ==
  \/ \E e \in Events : CreateEvent(e) \/ TombstoneEvent(e)
  \/ \E a \in Agents :
       \/ ReadBase(a) \/ ReadPage(a) \/ Leave(a)
       \/ LockConversation(a) \/ ShareCutoff(a) \/ CountEvents(a) \/ CommitCompaction(a)

Spec == Init /\ [][Next]_vars

-----------------------------------------------------------------------------
(* Properties.                                                             *)

States == {"idle", "reading", "done", "locked", "shared", "counted"}

Compaction == [cutoff : Events, count : Nat, covers : SUBSET Events]

TypeOK ==
  /\ committed \subseteq Events /\ deleted \subseteq committed /\ late \subseteq committed
  /\ compactions \in Seq(Compaction)
  /\ pc \in [Agents -> States]
  /\ told \in [Agents -> SUBSET Events] /\ seen \in [Agents -> SUBSET Events]
  /\ goal \in [Agents -> SUBSET Events]
  /\ cursor \in [Agents -> 0..MaxEvents]
  /\ count \in [Agents -> Nat] /\ version \in [Agents -> Nat]

(* Summary plus tail: an agent that has read to the last page knows every  *)
(* event that was there when it began and is not deleted since, as text or *)
(* as part of the summary; whatever was appended, deleted and summarised   *)
(* by others on the way, and however many summaries rest on one another.   *)
(* The exception is an event that committed after one placed later.        *)
NothingMissed ==
  \A a \in Agents : pc[a] = "done" => goal[a] \cap Live \subseteq Known(a) \cup late

(* No event reaches an agent both as text and in the summary.              *)
ToldOnce == \A a \in Agents : told[a] \cap seen[a] = {}

(* event_count leaves out no event the summary has to stand for, though    *)
(* events are inserted and deleted until the compaction commits.           *)
CountedAll ==
  \A a \in Agents : pc[a] = "counted" => count[a] >= Cardinality(UpTo(cursor[a]))

(* The unique index never refuses a compaction: the version it computed is *)
(* still the next.                                                         *)
VersionFree == \A a \in Agents : pc[a] = "counted" => version[a] = Len(compactions) + 1

(* A compaction commits with a cutoff that is an event of the transcript.  *)
CutoffAlive ==
  [][\A n \in DOMAIN compactions' \ DOMAIN compactions : compactions'[n].cutoff \in Live']_vars
=============================================================================
