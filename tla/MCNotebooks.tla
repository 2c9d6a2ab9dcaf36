------------------------------ MODULE MCNotebooks ------------------------------
(***************************************************************************)
(* A notebook's requests, the lists clients read page by page and the      *)
(* notifications they poll.  The three share no state, so a behaviour runs *)
(* one of them, its part, and leaves the others alone.                     *)
(***************************************************************************)
EXTENDS Notebooks, TLC

CONSTANTS
  Parts,
  Lists, MaxRows, MaxTime, Limit,  \* Pages; Limit: of a page and of an answer
  Notes, MaxDay                    \* Feed

VARIABLES part,
          list, key, shown, hour, at, more, reading, read, whole, cut, rewound,
          for, time, stored, day, since, told, late, crowded

(* The operations that read or write the same rows are in a plan together.  *)
MCPlans == {{"version", "delete", "edit"}, {"grant", "change", "revoke", "memory"}, {"batch", "artifact", "delete"},
            {"remove source", "remove rendition", "mark", "revoke"}, {"source", "rendition", "set cover", "clear cover", "delete"}}

List == INSTANCE Pages WITH Start <- None, clock <- hour, told <- read

News == INSTANCE Feed WITH MaxTime <- MaxDay, Never <- None, clock <- day

listVars == <<list, key, shown, hour, at, more, reading, read, whole, cut, rewound>>
newsVars == <<for, time, stored, day, since, told, late, crowded>>

MCInit ==
  /\ part \in Parts
  /\ Init /\ List!Init /\ News!Init
  /\ \/ part = "access"
     \/ /\ plan = {"version", "delete", "edit"} /\ rendition = "ready"
        /\ \A u \in Others : member[u] = [role |-> "none", active |-> FALSE]
  /\ part = "pages" \/ (list = "users" /\ \A r \in 1..MaxRows : key[r] = 0)
  /\ part = "feed" \/ (\A n \in Notes : for[n] = "me")

MCNext ==
  /\ UNCHANGED part
  /\ \/ part = "access" /\ Next /\ UNCHANGED <<listVars, newsVars>>
     \/ part = "pages"  /\ List!Next /\ UNCHANGED <<vars, newsVars>>
     \/ part = "feed"   /\ News!Next /\ UNCHANGED <<vars, listVars>>

MCSpec == MCInit /\ [][MCNext]_<<part, vars, listVars, newsVars>>

MCSymmetry == Permutations(Requests) \cup Permutations(Notes)

(* Pages cover their list (src/db/notebooks.py:109 and 1271).               *)
PagesCover == List!TypeOK /\ List!PagesCover

(* A notification is told once (src/db/notifications.py:229).               *)
ToldOnce == News!ToldOnce
=============================================================================
