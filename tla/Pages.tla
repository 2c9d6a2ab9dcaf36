--------------------------------- MODULE Pages ---------------------------------
(***************************************************************************)
(* Lists read page by page while their rows come, change and go            *)
(* (src/db/notebooks.py, src/db/engrams.py).  A request names the last row *)
(* it was given; the server looks that row's key up again and answers what *)
(* comes after it in the order of the list.                                *)
(***************************************************************************)
EXTENDS Integers, Sequences, FiniteSets

CONSTANTS Lists, MaxRows, MaxTime, Limit, Start  \* "start": a reader without a cursor

VARIABLES list,   \* the list that is read
          key,    \* the time a row is ordered by; 0: there is no such row
          shown,  \* the rows that are of the list: active users, items of a status
          clock, at, more, reading,
          told,   \* history: how often a row was told
          whole,  \* history: the rows that were of the list, unchanged, from the start
          cut, rewound \* history: the row named by a request was gone, or had moved

vars == <<list, key, shown, clock, at, more, reading, told, whole, cut, rewound>>

Rows == 1..MaxRows   \* identifiers, in their order; they say nothing of the time

Ascending == {"memories"}               \* by time; users: by identifier
ByChange  == {"notebooks", "items"}       \* ordered by updated_at
Deleted   == {"notebooks", "renditions", "users"}
Filtered  == {"notebooks", "items", "users"}  \* by membership, status, activity
OneMore   == {"renditions", "items", "timeline", "users"} \* ask for one row more than they tell

There == {r \in Rows : key[r] # 0}

Init ==
  /\ list \in Lists
  /\ key \in [Rows -> 0..1]
  /\ clock = 1
  /\ shown = There
  /\ at = Start /\ more = TRUE /\ reading = TRUE
  /\ told = [r \in Rows |-> 0]
  /\ whole = There
  /\ cut = FALSE /\ rewound = FALSE

(* ORDER BY a time and the identifier, or by the identifier alone.          *)
Older(r, s) == key[r] < key[s] \/ (key[r] = key[s] /\ r < s)
Precedes(r, s) ==
  CASE list = "users"      -> r < s
    [] list \in Ascending  -> Older(r, s)
    [] OTHER               -> Older(s, r)

(* A user's own identifier is compared; of every other row, the key the     *)
(* table has for it: none, and nothing comes after it, if it is gone.       *)
AfterOrAt(r) == at = Start \/ ((list = "users" \/ at \in There) /\ ~Precedes(r, at))
After(r) == at = Start \/ ((list = "users" \/ at \in There) /\ Precedes(at, r))

Rest == {r \in shown : After(r)}
First(n) == {r \in Rest : Cardinality({s \in Rest : Precedes(s, r)}) < n}
LastOf(page) == CHOOSE r \in page : \A s \in page : ~Precedes(r, s)

(* limit + 1 rows are read to know whether there are more; the lists that   *)
(* do not are read until a page is not full.                                *)
More(page) == IF list \in OneMore THEN First(Limit + 1) # page ELSE Cardinality(page) = Limit

Read ==
  LET page == First(Limit) IN
  /\ reading /\ more
  /\ told' = [r \in Rows |-> IF r \in page THEN told[r] + 1 ELSE told[r]]
  /\ at' = IF page = {} THEN at ELSE LastOf(page)
  /\ more' = More(page)
  /\ reading' = More(page)
  /\ UNCHANGED <<list, key, shown, clock, whole, cut, rewound>>

Create(r) ==
  /\ clock < MaxTime /\ key[r] = 0 /\ told[r] = 0
  /\ clock' = clock + 1
  /\ key' = [key EXCEPT ![r] = clock + 1]
  /\ shown' = shown \cup {r}
  /\ UNCHANGED <<list, at, more, reading, told, whole, cut, rewound>>

(* An update gives a row a new place in a list ordered by updated_at.       *)
Update(r) ==
  /\ clock < MaxTime /\ list \in ByChange /\ r \in There
  /\ clock' = clock + 1
  /\ key' = [key EXCEPT ![r] = clock + 1]
  /\ whole' = whole \ {r}
  /\ rewound' = (rewound \/ at = r)
  /\ UNCHANGED <<list, shown, at, more, reading, told, cut>>

Delete(r) ==
  /\ clock < MaxTime /\ list \in Deleted /\ r \in There
  /\ clock' = clock + 1
  /\ key' = [key EXCEPT ![r] = 0]
  /\ shown' = shown \ {r}
  /\ whole' = whole \ {r}
  /\ cut' = (cut \/ (at = r /\ list # "users"))
  /\ UNCHANGED <<list, at, more, reading, told, rewound>>

(* A membership ends, an item gets another status, a user is deactivated.   *)
Hide(r) ==
  /\ list \in Filtered /\ r \in shown
  /\ shown' = shown \ {r}
  /\ whole' = whole \ {r}
  /\ UNCHANGED <<list, key, clock, at, more, reading, told, cut, rewound>>

Next ==
  /\ reading
  /\ Read \/ \E r \in Rows : Create(r) \/ Update(r) \/ Delete(r) \/ Hide(r)

Spec == Init /\ [][Next]_vars

-----------------------------------------------------------------------------
TypeOK ==
  /\ shown \subseteq There /\ whole \subseteq shown
  /\ key \in [Rows -> 0..MaxTime] /\ clock \in 1..MaxTime
  /\ at \in Rows \cup {Start}

(* A reader that has come to the end was told of every row that was of the  *)
(* list all the while and did not change, unless a row it had to name had   *)
(* been deleted meanwhile; and of none twice, unless such a row had moved   *)
(* (src/db/notebooks.py:109 and 1271).                                      *)
PagesCover ==
  ~reading => \A r \in whole : (told[r] >= 1 \/ cut) /\ (told[r] <= 1 \/ rewound)
=============================================================================
