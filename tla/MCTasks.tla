-------------------------------- MODULE MCTasks --------------------------------
(***************************************************************************)
(* Three modules about different columns of the table of tasks: claims     *)
(* (status, comments, configuration), working days (date) and workspaces   *)
(* (workspace, number).  No action of one reads what another writes, so a  *)
(* behaviour runs one of them, its part, and leaves the others alone.      *)
(***************************************************************************)
EXTENDS TaskClaims, TLC

CONSTANTS
  Parts,
  Users,
  Items, Tabs, UserOf, Owner, Week, LastDay, FirstWeekday, Horizon, MaxAsked,  \* Workdays
  Spaces, Numbered, Sessions, Providers, MaxDraws                             \* Workspaces

VARIABLES part,
          date, done, ended, tab, rolled, closed, lapsed, late, asked,
          owner, rows, deps, counter, links, clock, wreq, named, last

MCRank == [t \in Tasks |-> 0]

MCPlans == {{"claim", "put", "toggle", "approve"}, {"run", "config", "comment"}}

(* Ann works Monday to Friday, Bob on Thursdays and Saturdays; day 1 is a   *)
(* Thursday.                                                                *)
MCOwner  == ("i1" :> "ann")
MCUserOf == (1 :> "ann") @@ (2 :> "ann") @@ (3 :> "bob")
MCWeek   == ("ann" :> 1..5) @@ ("bob" :> {4, 6})

Day == INSTANCE Workdays

Space == INSTANCE Workspaces WITH Tasks <- Numbered, tasks <- rows, req <- wreq

dayVars   == <<date, done, ended, tab, rolled, closed, lapsed, late, asked>>
spaceVars == <<owner, rows, deps, counter, links, clock, wreq, named, last>>

MCInit ==
  /\ part \in Parts
  /\ Init /\ Day!Init /\ Space!Init
  /\ \/ part = "claims"
     \/ /\ status = [t \in Tasks |-> "todo"] /\ plan = CHOOSE P \in Plans : TRUE
        /\ config = [t \in Tasks |-> [kind |-> "empty", runs |-> {}]]
  /\ part = "days" \/ date = [i \in Items |-> 1]

MCNext ==
  /\ UNCHANGED part
  /\ \/ part = "claims" /\ Next       /\ UNCHANGED <<dayVars, spaceVars>>
     \/ part = "days"   /\ Day!Next   /\ UNCHANGED <<vars, spaceVars>>
     \/ part = "spaces" /\ Space!Next /\ UNCHANGED <<vars, dayVars>>

MCSpec == MCInit /\ [][MCNext]_<<part, vars, dayVars, spaceVars>>

MCSymmetry == Permutations(Runners) \cup Permutations(People) \cup Permutations(Entries)
                \cup Permutations(Spaces) \cup Permutations(Numbered) \cup Permutations(Providers)

(* Work rolled over by ending days waits on an open day (src/db/tasks.py:757). *)
RollsToAnOpenDay == Day!TypeOK /\ Day!RollsToAnOpenDay

(* A number never comes to name another task (src/db/tasks.py:72). *)
NumbersNameOneTask == Space!TypeOK /\ Space!NumbersNameOneTask

(* A session resolves to the workspace it was attached to last              *)
(* (src/db/workspace_session_links.py:19).                                  *)
ResolvesToLast == Space!ResolvesToLast
=============================================================================
