------------------------------ MODULE McpSessions ------------------------------
(***************************************************************************)
(* How a request to an MCP server comes to act for a client                *)
(* (src/mcp/auth.py).  A client sends its key and its app's name, or just  *)
(* the id of its session; every replica remembers what it saw, in memory,  *)
(* and shares it through a table (src/db/mcp_sessions.py).  Capturing the  *)
(* headers blocks the replica; the tool is called later, when other        *)
(* requests have been captured.                                            *)
(***************************************************************************)
EXTENDS Integers, FiniteSets

CONSTANTS Replicas, Sessions, Keys, Requests,
          None,         \* the empty string
          MaxFaults,    \* bound: failed operations on the shared table
          MaxRestarts   \* bound: restarts of a replica

VARIABLES keyOf,      \* _session_keys of each replica, "_last" included
          nameOf,     \* _session_app_names: whether the name is known
          row,        \* mcp_sessions
          req,        \* the requests
          faults, restarts,
          presented,  \* history: the keys clients sent with each session
          latest,     \* history: the key sent last with each session
          strained,   \* history: sessions whose last key was sent in a fault or
                      \* while another replica was about to write the row back
          halfway     \* history: sessions whose key a replica learned when a tool
                      \* was called, and so without the name

vars == <<keyOf, nameOf, row, req, faults, restarts, presented, latest, strained, halfway>>

Last == "_last"
Named == [s \in Sessions \cup {Last} |-> FALSE]
Unknown == [s \in Sessions \cup {Last} |-> None]
New == [at |-> "new"]
Lost == [at |-> "lost"]
At(q, p) == req[q].at = p

Init ==
  /\ keyOf = [r \in Replicas |-> Unknown]
  /\ nameOf = [r \in Replicas |-> Named]
  /\ row = [s \in Sessions |-> [key |-> None, named |-> FALSE]]
  /\ req = [q \in Requests |-> New]
  /\ faults = 0 /\ restarts = 0
  /\ presented = [s \in Sessions |-> {}]
  /\ latest = [s \in Sessions |-> None]
  /\ strained = {}
  /\ halfway = [r \in Replicas |-> {}]

(* An operation on the table may fail; the code goes on without it. *)
Down(hit) == (hit => faults < MaxFaults) /\ faults' = faults + (IF hit THEN 1 ELSE 0)

(* The code is synchronous until the request is handed on. *)
Free(r) == \A q \in Requests : At(q, "asked") => req[q].r # r

(* The row is asked for only without a key, here and in memory. *)
AsksRow(r, s, k) == s # None /\ k = None /\ keyOf[r][s] = None

(* _lookup_session_db: nothing when the table cannot be read. *)
Stored(s, hit) == IF hit THEN [key |-> None, named |-> FALSE] ELSE row[s]

(* _capture_scope_context, up to the row: the request's own key and name, *)
(* or those of the row.                                                   *)
CaptureLook(q, r, s, k, hit) ==
  /\ At(q, "new") /\ Free(r)
  /\ hit => AsksRow(r, s, k)
  /\ Down(hit)
  /\ LET got == IF AsksRow(r, s, k) THEN Stored(s, hit) ELSE [key |-> k, named |-> k # None]
     IN req' = [req EXCEPT ![q] =
          [at |-> "asked", r |-> r, s |-> s, sent |-> k, key |-> got.key, named |-> got.named,
           known |-> s # None /\ (row[s].key # None \/ keyOf[r][s] # None),
           hit |-> hit, crossed |-> FALSE]]
  /\ UNCHANGED <<keyOf, nameOf, row, restarts, presented, latest, strained, halfway>>

(* _persist_session_db: an upsert, also of what was just looked up. *)
Persisted(s, k, named) == [row EXCEPT ![s] = [key |-> k, named |-> named]]

(* _bind_request_value, for the value of this request. *)
Bound(value, s, empty, held) ==
  IF value # empty THEN value ELSE IF s # None THEN held[s] ELSE held[Last]

(* ... and what the replica remembers of it. *)
Remembered(value, s, empty, held) ==
  [t \in DOMAIN held |-> IF value # empty /\ t \in {s, Last} THEN value ELSE held[t]]

WritingBack(s) == {q \in Requests : At(q, "asked") /\ req[q].s = s /\ req[q].sent = None /\ req[q].key # None}

CaptureBind(q, hit) ==
  LET e == req[q]
      keeps == e.s # None /\ e.key # None
      fresh == e.s # None /\ e.sent # None
      own == {p \in Requests : req[p] \notin {New, Lost} /\ req[p].s = e.s}
      bound == [at |-> "bound", r |-> e.r, s |-> e.s, sent |-> e.sent,
                key |-> Bound(e.key, e.s, None, keyOf[e.r]),
                named |-> Bound(e.named, e.s, FALSE, nameOf[e.r]),
                known |-> e.known, hit |-> e.hit \/ hit, crossed |-> e.crossed,
                half |-> e.s \in halfway[e.r]]
  IN
  /\ At(q, "asked")
  /\ hit => keeps
  /\ Down(hit)
  /\ row' = IF keeps /\ ~hit THEN Persisted(e.s, e.key, e.named) ELSE row
  /\ keyOf' = [keyOf EXCEPT ![e.r] = Remembered(e.key, e.s, None, @)]
  /\ nameOf' = [nameOf EXCEPT ![e.r] = Remembered(e.named, e.s, FALSE, @)]
  /\ req' = [p \in Requests |-> IF p = q THEN bound
                                ELSE IF p \in own /\ fresh THEN [req[p] EXCEPT !.crossed = TRUE]
                                ELSE req[p]]
  /\ presented' = IF fresh THEN [presented EXCEPT ![e.s] = @ \cup {e.sent}] ELSE presented
  /\ latest' = IF fresh THEN [latest EXCEPT ![e.s] = e.sent] ELSE latest
  /\ strained' = IF ~fresh THEN strained
                 ELSE IF hit \/ WritingBack(e.s) # {} THEN strained \cup {e.s}
                 ELSE strained \ {e.s}
  /\ UNCHANGED <<restarts, halfway>>

(* _usage_api_key, when the tool is called: the request's own key, that of *)
(* its session in memory, else in the table; from there the replica        *)
(* remembers the key alone.                                                *)
UsageKeyOrLast(e, hit) ==
  IF e.sent # None THEN e.sent
  ELSE IF e.s = None THEN e.key
  ELSE IF keyOf[e.r][e.s] # None THEN keyOf[e.r][e.s]
  ELSE IF Stored(e.s, hit).key # None THEN Stored(e.s, hit).key ELSE keyOf[e.r][Last]
UsageKey(e, hit) ==
  IF e.sent # None THEN e.sent
  ELSE IF e.s = None THEN e.key
  ELSE IF keyOf[e.r][e.s] # None THEN keyOf[e.r][e.s]
  ELSE IF Stored(e.s, hit).key # None THEN Stored(e.s, hit).key ELSE e.key

CallTool(q, hit) ==
  LET e == req[q]
      asks == e.sent = None /\ e.s # None /\ keyOf[e.r][e.s] = None
      key == UsageKey(e, hit)
  IN
  /\ At(q, "bound")
  /\ Free(e.r)
  /\ hit => asks
  /\ Down(hit)
  /\ keyOf' = IF asks THEN [keyOf EXCEPT ![e.r][e.s] = Stored(e.s, hit).key] ELSE keyOf
  /\ req' = [req EXCEPT ![q] = [at |-> "called", r |-> e.r, s |-> e.s, key |-> e.key, named |-> e.named,
                                known |-> e.known, hit |-> e.hit \/ hit, crossed |-> e.crossed, half |-> e.half,
                                usage |-> key]]
  /\ halfway' = IF asks THEN [halfway EXCEPT ![e.r] = @ \cup {e.s}] ELSE halfway
  /\ UNCHANGED <<nameOf, row, restarts, presented, latest, strained>>

(* A replica starts again with nothing in memory; its requests are lost. *)
Restart(r) ==
  /\ restarts < MaxRestarts
  /\ restarts' = restarts + 1
  /\ keyOf' = [keyOf EXCEPT ![r] = Unknown]
  /\ nameOf' = [nameOf EXCEPT ![r] = Named]
  /\ req' = [q \in Requests |-> IF req[q].at \in {"asked", "bound"} /\ req[q].r = r THEN Lost ELSE req[q]]
  /\ halfway' = [halfway EXCEPT ![r] = {}]
  /\ UNCHANGED <<row, faults, presented, latest, strained>>

Next ==
  \/ \E q \in Requests, r \in Replicas, s \in Sessions \cup {None}, k \in Keys \cup {None}, hit \in BOOLEAN :
       CaptureLook(q, r, s, k, hit)
  \/ \E q \in Requests, hit \in BOOLEAN : CaptureBind(q, hit) \/ CallTool(q, hit)
  \/ \E r \in Replicas : Restart(r)

Spec == Init /\ [][Next]_vars

-----------------------------------------------------------------------------
(* What a replica, the table and a request know is a key and a name.        *)
TypeOK ==
  /\ keyOf \in [Replicas -> [Sessions \cup {Last} -> Keys \cup {None}]]
  /\ nameOf \in [Replicas -> [Sessions \cup {Last} -> BOOLEAN]]
  /\ row \in [Sessions -> [key : Keys \cup {None}, named : BOOLEAN]]
  /\ \A q \in Requests : req[q].at \in {"new", "asked", "bound", "called", "lost"}
  /\ strained \subseteq Sessions /\ faults \in 0 .. MaxFaults /\ restarts \in 0 .. MaxRestarts

(* A session is known at every replica, after a restart too: a request that *)
(* carries one acts for a key its client once sent with it; it acts for     *)
(* none only if nobody had sent one, or the table could not be reached, and *)
(* for an app without a name only where a tool call had fetched the key     *)
(* (src/mcp/auth.py:212).                                                   *)
KnownEverywhere ==
  \A q \in Requests : req[q].at \in {"bound", "called"} /\ req[q].s # None =>
    LET e == req[q] IN
    /\ e.key # None => e.key \in presented[e.s]
    /\ e.key = None => ~e.known \/ e.hit
    /\ e.key # None /\ ~e.named => e.half

(* The row of a session holds the key its client sent last, unless the      *)
(* table failed then, or a request that had read the row before wrote it    *)
(* back after (src/mcp/auth.py:221).                                        *)
RowIsLatest ==
  \A s \in Sessions : row[s].key # latest[s] => s \in strained

(* A tool call is counted for the client it acts for, unless the table      *)
(* could not be reached for this request, or another request of the session *)
(* brought a key meanwhile (src/mcp/auth.py:277).                           *)
AttributedAsBound ==
  \A q \in Requests : At(q, "called") => req[q].usage = req[q].key \/ req[q].hit \/ req[q].crossed
=============================================================================
