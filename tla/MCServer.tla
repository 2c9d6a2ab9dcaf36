------------------------------- MODULE MCServer -------------------------------
(***************************************************************************)
(* The server's shell: servers that start, accounts and logins, the        *)
(* sessions and the calls of MCP clients.  The four modules share no state *)
(* (McpCalls takes the key of a request as McpSessions binds it), so a     *)
(* behaviour runs one of them, its part, and leaves the others alone.      *)
(***************************************************************************)
EXTENDS Integers, Sequences, FiniteSets, TLC

CONSTANTS
  Parts,
  None,
  Processes,                                          \* servers, or replicas of one
  MaxAttempts, MaxDeadlocks, MaxCrashes, MaxUses,     \* Startup
  Throttle, Gap, MaxHour, MaxEdits, MaxMisses,        \* Accounts
  McpIds, Keys, Requests, MaxFaults, MaxRestarts,     \* McpSessions
  Calls, Roles, Ttl, MaxTime, MaxChanges, MaxLosses   \* McpCalls

ASSUME ServerAssumption ==
  /\ None \notin Processes \cup Keys \cup McpIds /\ "_last" \notin McpIds
  /\ {MaxAttempts, MaxDeadlocks, MaxCrashes, MaxUses, Throttle, Gap, MaxHour, MaxEdits, MaxMisses,
      MaxFaults, MaxRestarts, Ttl, MaxTime, MaxChanges, MaxLosses} \subseteq Nat
  /\ MaxAttempts # 0 /\ 0 < Throttle /\ Throttle <= Gap

VARIABLES part,
          boot, attempt, lock, has, stamped, logs, armed, creator, accounts, deadlocks, crashes, uses,
          chosen, said, reset, backfills, deferred,
          seeded, account, touched, touch, logins, hour, edits, misses, seenAt, resumed, counted, back, older, missed,
          keyOf, nameOf, row, req, faults, restarts, presented, latest, strained, halfway,
          user, cache, look, call, usage, clock, changes, losses, held, blind, belated, unheard, invalid

Boot  == INSTANCE Startup WITH Servers <- Processes, pc <- boot

Login == INSTANCE Accounts WITH
  Servers <- Processes, MaxTime <- MaxHour, MaxChanges <- MaxEdits, MaxFaults <- MaxMisses,
  row <- account, clock <- hour, changes <- edits, faults <- misses, seen <- seenAt

Mcp   == INSTANCE McpSessions WITH Replicas <- Processes, Sessions <- McpIds

Tool  == INSTANCE McpCalls WITH MaxFaults <- MaxLosses, faults <- losses, late <- belated

bootVars == <<boot, attempt, lock, has, stamped, logs, armed, creator, accounts, deadlocks, crashes, uses,
              chosen, said, reset, backfills, deferred>>
loginVars == <<seeded, account, touched, touch, logins, hour, edits, misses, seenAt, resumed, counted, back, older, missed>>
mcpVars == <<keyOf, nameOf, row, req, faults, restarts, presented, latest, strained, halfway>>
toolVars == <<user, cache, look, call, usage, clock, changes, losses, held, blind, belated, unheard, invalid>>

MCInit ==
  /\ part \in Parts
  /\ Boot!Init /\ Login!Init /\ Mcp!Init /\ Tool!Init
  /\ part = "boot" \/ (has = {} /\ Boot!Admins = {} /\ accounts["lex"].role = "absent" /\ creator["early"] = "")
  /\ part = "login" \/ seeded
  /\ part = "tool" \/ user.role = "user"

MCNext ==
  /\ UNCHANGED part
  /\ \/ part = "boot"  /\ Boot!Next  /\ UNCHANGED <<loginVars, mcpVars, toolVars>>
     \/ part = "login" /\ Login!Next /\ UNCHANGED <<bootVars, mcpVars, toolVars>>
     \/ part = "mcp"   /\ Mcp!Next   /\ UNCHANGED <<bootVars, loginVars, toolVars>>
     \/ part = "tool"  /\ Tool!Next  /\ UNCHANGED <<bootVars, loginVars, mcpVars>>

MCSpec == MCInit /\ [][MCNext]_<<part, bootVars, loginVars, mcpVars, toolVars>>

MCSymmetry == Permutations(Processes) \cup Permutations(Keys) \cup Permutations(Requests)

(* A server that serves finds the whole schema, and starting undoes nothing *)
(* users did (src/postgres_client.py:1422 and 1513).                        *)
StartsAreSafe == Boot!TypeOK /\ Boot!ServesCurrentSchema /\ Boot!StartsChangeNothing

(* The logins counted are the times the user came back (src/db/users.py:81). *)
LoginsAreResumptions == Login!TypeOK /\ Login!LoginsAreResumptions

(* A session is known at every replica, by the key sent last, and its calls *)
(* are counted for the client they act for (src/mcp/auth.py:212 and 277).   *)
SessionsHold == Mcp!TypeOK /\ Mcp!KnownEverywhere /\ Mcp!RowIsLatest /\ Mcp!AttributedAsBound

(* A remembered role is a recent one, and a call is counted once, or it is  *)
(* known why not (src/mcp/auth.py:51 and 356).                              *)
CallsHold == Tool!TypeOK /\ Tool!RoleIsRecent /\ Tool!CountedOnce
=============================================================================
