------------------------------- MODULE McpCalls -------------------------------
(***************************************************************************)
(* A tool call at an MCP server (src/mcp/auth.py): the caller's role is    *)
(* looked up, and remembered for a while; the call is counted by a thread  *)
(* of its own, over HTTP and, when that has not worked, in the database.   *)
(* One key, one server process; time passes in ticks of half the time a    *)
(* role is remembered.                                                     *)
(***************************************************************************)
EXTENDS Integers, FiniteSets

CONSTANTS Calls,
          Roles,       \* the roles a row may have; "guest" is also the last resort
          Ttl,         \* _ROLE_CACHE_TTL, in ticks
          MaxTime,     \* bound: ticks
          MaxChanges,  \* bound: changes an administrator makes to the user
          MaxFaults    \* bound: lookups and posts that do not come through

VARIABLES user,     \* the row the key leads to: its role, whether it is active;
                    \* "none" once the key is replaced
          cache,    \* _role_cache of the key
          look,     \* the lookup in progress
          call,     \* each tool call and the thread that counts it
          usage,    \* mcp_tool_usage: how often each call was counted
          clock, changes, faults,
          held,     \* history: <<tick, role>> the key had
          blind,    \* history: ticks in which a lookup came back with nothing
          late,     \* history: calls whose post was answered too late
          unheard,  \* history: calls a post or a write of which got lost
          invalid   \* history: calls during which the key was not valid

vars == <<user, cache, look, call, usage, clock, changes, faults, held, blind, late, unheard, invalid>>

NoUser == [role |-> "none", active |-> FALSE]
Valid == user # NoUser /\ user.active
Never == [role |-> "guest", until |-> 0]

(* The roles the key may be said to have now: a replaced key, and for Flask *)
(* an inactive one, is a guest's.                                           *)
RoleNow == (IF user = NoUser THEN {} ELSE {user.role}) \cup (IF Valid THEN {} ELSE {"guest"})

Init ==
  /\ user \in [role : Roles, active : {TRUE}]
  /\ cache = Never
  /\ look = [at |-> "none"]
  /\ call = [c \in Calls |-> "none"]
  /\ usage = [c \in Calls |-> 0]
  /\ clock = 0 /\ changes = 0 /\ faults = 0
  /\ held = {<<0, user.role>>}
  /\ blind = {} /\ late = {} /\ unheard = {} /\ invalid = {}

Down(hit) == (hit => faults < MaxFaults) /\ faults' = faults + (IF hit THEN 1 ELSE 0)

(* get_user_role: remembered until a time fixed before the lookup. *)
Remembered == clock < cache.until
Until == look.since + Ttl

AskRole ==
  /\ look.at = "none" /\ ~Remembered
  /\ look' = [at |-> "asking", since |-> clock]
  /\ UNCHANGED <<user, cache, call, usage, clock, changes, faults, held, blind, late, unheard, invalid>>

(* The row itself, active or not; failing that /api/auth/validate, to which *)
(* an inactive user is as unknown as a replaced key; failing that a guest.  *)
RoleFound(way) ==
  CASE way = "database" -> IF user = NoUser THEN "guest" ELSE user.role
    [] way = "http"     -> IF Valid THEN user.role ELSE "guest"
    [] OTHER            -> "guest"

ReadRole(way) ==
  /\ look.at = "asking"
  /\ Down(way # "database")
  /\ look' = [at |-> "read", since |-> look.since, role |-> RoleFound(way)]
  /\ blind' = IF way = "neither" THEN blind \cup {clock} ELSE blind
  /\ UNCHANGED <<user, cache, call, usage, clock, changes, held, late, unheard, invalid>>

RememberRole ==
  /\ look.at = "read"
  /\ cache' = [role |-> look.role, until |-> Until]
  /\ look' = [at |-> "none"]
  /\ UNCHANGED <<user, call, usage, clock, changes, faults, held, blind, late, unheard, invalid>>

(* call_tool: a guest's call is refused, another's is counted by a thread. *)
CallTool(c) ==
  /\ call[c] = "none" /\ Remembered
  /\ call' = [call EXCEPT ![c] = IF cache.role = "guest" THEN "refused" ELSE "post"]
  /\ invalid' = IF Valid THEN invalid ELSE invalid \cup {c}
  /\ UNCHANGED <<user, cache, look, usage, clock, changes, faults, held, blind, late, unheard>>

(* _post_usage: the post is recorded and answered 201 in time, or refused,  *)
(* lost on its way, or recorded only when the thread has stopped waiting.   *)
Posted201(outcome) == FALSE  \* takes 200 alone for an answer
Posted(outcome) == outcome = "recorded"

Post(c, outcome) ==
  /\ call[c] = "post"
  /\ outcome = "recorded" => Valid
  /\ outcome = "refused" => ~Valid
  /\ Down(outcome \in {"lost", "late"})
  /\ usage' = IF outcome = "recorded" THEN [usage EXCEPT ![c] = @ + 1] ELSE usage
  /\ call' = [call EXCEPT ![c] = IF Posted(outcome) THEN "done"
                                 ELSE IF outcome = "late" THEN "write, posted" ELSE "write"]
  /\ late' = IF outcome = "late" THEN late \cup {c} ELSE late
  /\ unheard' = IF outcome = "lost" THEN unheard \cup {c} ELSE unheard
  /\ UNCHANGED <<user, cache, look, clock, changes, held, blind, invalid>>

(* The fallback: record_call for an active user, or nothing. *)
Write(c, hit) ==
  /\ call[c] \in {"write", "write, posted"}
  /\ Down(hit)
  /\ usage' = IF Valid /\ ~hit THEN [usage EXCEPT ![c] = @ + 1] ELSE usage
  /\ call' = [call EXCEPT ![c] = IF @ = "write" THEN "done" ELSE "posted"]
  /\ unheard' = IF hit THEN unheard \cup {c} ELSE unheard
  /\ UNCHANGED <<user, cache, look, clock, changes, held, blind, late, invalid>>

(* api_record_mcp_usage, for a client that no longer waits. *)
RecordLate(c) ==
  /\ call[c] \in {"write, posted", "posted"}
  /\ usage' = IF Valid THEN [usage EXCEPT ![c] = @ + 1] ELSE usage
  /\ call' = [call EXCEPT ![c] = IF @ = "posted" THEN "done" ELSE "write"]
  /\ UNCHANGED <<user, cache, look, clock, changes, faults, held, blind, late, unheard, invalid>>

(* UserDB.update, rotate_api_key, delete. *)
ChangeUser(new) ==
  /\ changes < MaxChanges
  /\ user # NoUser /\ new # user
  /\ changes' = changes + 1
  /\ user' = new
  /\ held' = held \cup {<<clock, r>> : r \in RoleNow'}
  /\ invalid' = IF Valid' THEN invalid
                ELSE invalid \cup {c \in Calls : call[c] \notin {"none", "done", "refused"}}
  /\ UNCHANGED <<cache, look, call, usage, clock, faults, blind, late, unheard>>

(* A lookup ends within a tick: its time-outs are short. *)
Tick ==
  /\ clock < MaxTime
  /\ look.at # "none" => look.since = clock
  /\ clock' = clock + 1
  /\ held' = held \cup {<<clock + 1, r>> : r \in RoleNow}
  /\ UNCHANGED <<user, cache, look, call, usage, changes, faults, blind, late, unheard, invalid>>

Next ==
  \/ AskRole \/ RememberRole \/ Tick
  \/ \E way \in {"database", "http", "neither"} : ReadRole(way)
  \/ \E c \in Calls : CallTool(c) \/ RecordLate(c)
  \/ \E c \in Calls, outcome \in {"recorded", "refused", "lost", "late"} : Post(c, outcome)
  \/ \E c \in Calls, hit \in BOOLEAN : Write(c, hit)
  \/ \E new \in [role : Roles, active : BOOLEAN] \cup {NoUser} : ChangeUser(new)

Spec == Init /\ [][Next]_vars

-----------------------------------------------------------------------------
(* A cached role is a role, a call is somewhere between made and counted.   *)
TypeOK ==
  /\ user \in [role : Roles, active : BOOLEAN] \cup {NoUser}
  /\ cache \in [role : Roles \cup {"guest"}, until : 0 .. MaxTime + Ttl]
  /\ call \in [Calls -> {"none", "refused", "post", "write", "write, posted", "posted", "done"}]
  /\ usage \in [Calls -> 0 .. 2]

(* A remembered role is one the key had within the time roles are           *)
(* remembered, or a guest's after a lookup failed in that time, however     *)
(* long the lookup took: a change of role is in force when that time has    *)
(* passed (src/mcp/auth.py:51).                                             *)
RoleIsRecent ==
  Remembered =>
    \/ \E t \in clock - Ttl + 1 .. clock : <<t, cache.role>> \in held
    \/ cache.role = "guest" /\ \E t \in clock - Ttl + 1 .. clock : t \in blind

(* A call is counted once, unless the key was not valid meanwhile, what     *)
(* counts it was lost, or the server recorded what the client had given up  *)
(* on: then it is counted twice, never more (src/mcp/auth.py:356).          *)
CountedOnce ==
  \A c \in Calls : call[c] = "done" =>
    /\ usage[c] = 0 => c \in invalid \cup unheard
    /\ usage[c] = 2 => c \in late
=============================================================================
