------------------------- MODULE KnowledgeScopesProofs -------------------------
(***************************************************************************)
(* Theorems about KnowledgeScopes, for any graph, users and workspaces:    *)
(* nodes are hung in scope, links answered as made hold, and what readers  *)
(* are shown agrees with distances and totals; and about the maintenance   *)
(* of the graph, Contemplation as MCContemplation instantiates it.         *)
(***************************************************************************)
EXTENDS KnowledgeScopes, MCContemplation, FiniteSetTheorems, WellFoundedInduction, TLAPS

-----------------------------------------------------------------------------
(* A request by what it is at. *)
Inserting == [at : {"insert"}, node : Plain, todo : SUBSET Ids, space : SUBSET Spaces,
              rooted : BOOLEAN, scope : SUBSET Domains, absent : SUBSET Ids]
Linking   == [at : {"link"}, node : Plain, todo : SUBSET Ids, rooted : BOOLEAN, scope : SUBSET Domains,
              absent : SUBSET Ids]
Rooting   == [at : {"root"}, node : Plain, todo : SUBSET Domains, scope : SUBSET Domains]
Founding  == [at : {"domain"}, node : Domains]
Deleting  == [at : {"delete"}, node : Ids]
Bulk      == [at : {"bulk"}, node : Admins, delete : SUBSET Ids]
Marking   == [at : {"status"}, node : Spaces, commit : BOOLEAN, ids : SUBSET Ids]
Filing    == [at : {"space"}, node : Ids, space : Spaces, link : BOOLEAN, list : SUBSET Spaces]
Editing   == [at : {"edit"}, node : Ids, list : SUBSET Spaces]
Purging   == [at : {"purge"}, node : Spaces, delete : SUBSET Ids, unlink : SUBSET (Ids \X SUBSET Spaces)]
Importing == [at : {"import"}, node : Plain, space : Spaces, list : SUBSET Spaces]

LEMMA Kinds ==
  Requests = {Idle} \cup Inserting \cup Linking \cup Rooting \cup Founding \cup Deleting \cup Bulk
               \cup Marking \cup Filing \cup Editing \cup Purging \cup Importing
  BY Zenon DEF Requests, Inserting, Linking, Rooting, Founding, Deleting, Bulk, Marking, Filing, Editing, Purging,
       Importing

LEMMA ByPlace ==
  ASSUME NEW r \in Requests
  PROVE  /\ r.at = "insert" => r \in Inserting
         /\ r.at = "link" => r \in Linking
         /\ r.at = "root" => r \in Rooting
         /\ r.at = "domain" => r \in Founding
         /\ r.at = "delete" => r \in Deleting
         /\ r.at = "bulk" => r \in Bulk
         /\ r.at = "status" => r \in Marking
         /\ r.at = "space" => r \in Filing
         /\ r.at = "edit" => r \in Editing
         /\ r.at = "purge" => r \in Purging
         /\ r.at = "import" => r \in Importing
<1>1. /\ Idle.at = "idle"
      /\ \A x \in Inserting : x.at = "insert"
      /\ \A x \in Linking : x.at = "link"
      /\ \A x \in Rooting : x.at = "root"
      /\ \A x \in Founding : x.at = "domain"
      /\ \A x \in Deleting : x.at = "delete"
      /\ \A x \in Bulk : x.at = "bulk"
      /\ \A x \in Marking : x.at = "status"
      /\ \A x \in Filing : x.at = "space"
      /\ \A x \in Editing : x.at = "edit"
      /\ \A x \in Purging : x.at = "purge"
      /\ \A x \in Importing : x.at = "import"
  BY DEF Idle, Inserting, Linking, Rooting, Founding, Deleting, Bulk, Marking, Filing, Editing, Purging, Importing
<1> QED
  BY <1>1, Kinds

(* What a step of one request writes. *)
LEMMA StepTyped ==
  ASSUME TypeOK, NEW u \in Users, NEW r \in Requests, Step(u, r)
  PROVE  req' \in [Users -> Requests] /\ req'[u] = r /\ \A v \in Users \ {u} : req'[v] = req[v]
  BY DEF TypeOK, Step

LEMMA EndTyped ==
  ASSUME TypeOK, NEW u \in Users, End(u)
  PROVE  req' \in [Users -> Requests] /\ req'[u] = Idle /\ \A v \in Users \ {u} : req'[v] = req[v]
<1>1. Idle \in Requests
  BY Kinds
<1> QED
  BY <1>1, StepTyped DEF End

LEMMA StartTyped ==
  ASSUME TypeOK, NEW u \in Users, NEW r \in Requests, Start(u, r)
  PROVE  req' \in [Users -> Requests] /\ req[u] = Idle /\ req'[u] = r /\ \A v \in Users \ {u} : req'[v] = req[v]
  BY DEF TypeOK, Start

LEMMA GoneTyped ==
  ASSUME TypeOK, NEW D, Gone(D)
  PROVE  /\ nodes' \subseteq nodes /\ staged' \subseteq nodes'
         /\ edges' \in SUBSET (nodes' \X nodes')
         /\ spaces' \in [Ids -> SUBSET Spaces]
<1>1. nodes' = nodes \ D /\ staged' = staged \ D
  BY DEF Gone
<1>2. ASSUME NEW e \in edges' PROVE e \in nodes' \X nodes'
  BY <1>1, <1>2 DEF Gone, TypeOK
<1>3. spaces' \in [Ids -> SUBSET Spaces]
  BY DEF Gone, TypeOK
<1> QED
  BY <1>1, <1>2, <1>3 DEF TypeOK

-----------------------------------------------------------------------------
(* Beside each step, the history of crossed writes.  A node whose list a    *)
(* request has read and goes on holding has not changed unless it is        *)
(* crossed.                                                                 *)
Beside == Crossing /\ UNCHANGED plan

LEMMA CrossedTyped == ASSUME Crossing PROVE \A u \in Users : crossed'[u] \subseteq Lists(req'[u])
  BY DEF Crossing

LEMMA Carried ==
  ASSUME Crossing, NEW u \in Users, NEW n \in Ids, n \in Lists(req[u]), n \in Lists(req'[u]), n \notin crossed'[u]
  PROVE  n \notin crossed[u] /\ (n \in nodes <=> n \in nodes') /\ spaces'[n] = spaces[n]
<1>1. n \notin Changed /\ n \notin crossed[u]
  BY DEF Crossing
<1> QED
  BY <1>1 DEF Changed

LEMMA ListsOf ==
  ASSUME NEW r
  PROVE  /\ r.at \in {"space", "edit"} => Lists(r) = {r.node}
         /\ r.at = "purge" => Lists(r) = r.delete \cup {x[1] : x \in r.unlink}
         /\ r.at \notin {"space", "edit", "purge"} => Lists(r) = {}
<1>1. r.at = "purge" => r.at \notin {"space", "edit"}
  OBVIOUS
<1> QED
  BY <1>1 DEF Lists

(* What the requests on workspaces have read, as it still is of nodes that  *)
(* have not changed.                                                        *)
Filed(u) ==
  req[u].at = "space" =>
    /\ req[u].link => req[u].space \in req[u].list
    /\ req[u].node \notin crossed[u] =>
         req[u].list = IF req[u].link THEN spaces[req[u].node] \cup {req[u].space}
                       ELSE spaces[req[u].node] \ {req[u].space}

Edited(u) ==
  req[u].at = "edit" /\ req[u].node \notin crossed[u] => req[u].list = spaces[req[u].node]

Purged(u) ==
  req[u].at = "purge" =>
    /\ \A n \in req[u].delete : n \notin crossed[u] => spaces[n] \subseteq {req[u].node}
    /\ \A x \in req[u].unlink : x[1] \notin crossed[u] => x[2] = spaces[x[1]] \ {req[u].node}

Imported(u) == req[u].at = "import" => req[u].space \in req[u].list

Read(u) == Filed(u) /\ Edited(u) /\ Purged(u) /\ Imported(u)
LinksInv == TypeOK /\ LinksHold /\ \A u \in Users : Read(u)

LEMMA SameRead ==
  ASSUME TypeOK, Crossing, NEW u \in Users, Read(u), req'[u] = req[u]
  PROVE  Read(u)'
<1> USE DEF Read
<1>0. \A n \in Ids : n \in Lists(req[u]) /\ n \notin crossed'[u] => n \notin crossed[u] /\ spaces'[n] = spaces[n]
  BY Carried
<1>1. Filed(u)'
  <2>1. req[u].at = "space" => req[u].node \in Ids /\ req[u].node \in Lists(req[u])
    BY ByPlace, ListsOf DEF TypeOK, Filing
  <2> QED BY <1>0, <2>1 DEF Filed
<1>2. Edited(u)'
  <2>1. req[u].at = "edit" => req[u].node \in Ids /\ req[u].node \in Lists(req[u])
    BY ByPlace, ListsOf DEF TypeOK, Editing
  <2> QED BY <1>0, <2>1 DEF Edited
<1>3. Purged(u)'
  <2> SUFFICES ASSUME req[u].at = "purge" PROVE Purged(u)'
    BY DEF Purged
  <2>1. req[u].delete \subseteq Ids /\ \A x \in req[u].unlink : x[1] \in Ids
    BY ByPlace DEF TypeOK, Purging
  <2>2. req[u].delete \subseteq Lists(req[u]) /\ \A x \in req[u].unlink : x[1] \in Lists(req[u])
    BY ListsOf
  <2> QED BY <1>0, <2>1, <2>2 DEF Purged
<1>4. Imported(u)'
  BY DEF Imported
<1> QED
  BY <1>1, <1>2, <1>3, <1>4

LEMMA NoRead ==
  ASSUME NEW u \in Users, req'[u].at \notin {"space", "edit", "purge", "import"}
  PROVE  Read(u)'
  BY DEF Read, Filed, Edited, Purged, Imported

LEMMA FrameStep ==
  ASSUME Beside, TypeOK', LinksHold', NEW u \in Users, \A v \in Users \ {u} : req'[v] = req[v], Read(u)'
  PROVE  LinksInv => LinksInv'
<1>1. ASSUME LinksInv, NEW v \in Users PROVE Read(v)'
  BY <1>1, SameRead DEF LinksInv, Beside
<1> QED
  BY <1>1 DEF LinksInv

(* What users are assigned, and what of it they may write. *)
Granted ==
  /\ assigned \in [Users -> SUBSET Domains] /\ writable \in [Users -> SUBSET Domains]
  /\ \A u \in Users : writable[u] \subseteq assigned[u]

(* Steps that touch neither nodes nor their workspaces. *)
LEMMA QuietStep ==
  ASSUME TypeOK, Beside, UNCHANGED <<nodes, spaces, kept>>, NEW u \in Users,
         req' \in [Users -> Requests], \A v \in Users \ {u} : req'[v] = req[v],
         staged' \subseteq nodes, edges' \in SUBSET (nodes \X nodes), Granted'
  PROVE  /\ TypeOK'
         /\ (LinksInv => Read(u)') => (LinksInv => LinksInv')
         /\ req'[u].at \notin {"space", "edit", "purge", "import"} => (LinksInv => LinksInv')
<1>1. TypeOK'
  BY CrossedTyped DEF Beside, TypeOK, Granted
<1>2. LinksHold => LinksHold'
  BY DEF LinksHold
<1>3. LinksInv => LinksHold
  BY DEF LinksInv
<1> QED
  BY <1>1, <1>2, <1>3, FrameStep, NoRead

(* Steps that remove nodes. *)
LEMMA RemovalStep ==
  ASSUME TypeOK, Beside, UNCHANGED <<assigned, writable>>, NEW D, Gone(D), kept' \subseteq kept,
         NEW u \in Users, req' \in [Users -> Requests], \A v \in Users \ {u} : req'[v] = req[v]
  PROVE  /\ TypeOK'
         /\ LinksInv /\ (\A k \in kept' : k[1] \notin D) /\ Read(u)' => LinksInv'
         /\ (\A k \in kept' : k[1] \notin D) /\ req'[u].at \notin {"space", "edit", "purge", "import"} =>
              (LinksInv => LinksInv')
<1>1. TypeOK'
  BY GoneTyped, CrossedTyped DEF Beside, TypeOK
<1>2. \A n \in Ids : n \in nodes' => spaces'[n] = spaces[n]
  BY DEF Gone
<1>3. (\A k \in kept' : k[1] \notin D) /\ LinksHold => LinksHold'
  <2> SUFFICES ASSUME \A k \in kept' : k[1] \notin D, LinksHold, NEW k \in kept'
               PROVE k[1] \in nodes' /\ k[2] \in spaces'[k[1]]
    BY DEF LinksHold
  <2>1. k[1] \in nodes /\ k[2] \in spaces[k[1]] /\ k[1] \notin D
    BY DEF LinksHold
  <2>2. k[1] \in nodes' /\ k[1] \in Ids
    BY <2>1 DEF Gone, TypeOK
  <2> QED BY <1>2, <2>1, <2>2
<1>4. LinksInv => LinksHold
  BY DEF LinksInv
<1> QED
  BY <1>1, <1>3, <1>4, FrameStep, NoRead

(* Steps that insert a node with its workspaces. *)
LEMMA InsertionStep ==
  ASSUME TypeOK, Beside, UNCHANGED <<edges, assigned, writable>>, NEW u \in Users,
         NEW n \in Ids, n \notin nodes, NEW S \in SUBSET Spaces,
         nodes' = nodes \cup {n}, spaces' = [spaces EXCEPT ![n] = S], staged' \subseteq staged \cup {n},
         kept' \subseteq kept \cup ({n} \X Spaces),
         req' \in [Users -> Requests], \A v \in Users \ {u} : req'[v] = req[v],
         req'[u].at \notin {"space", "edit", "purge", "import"}
  PROVE  TypeOK' /\ (LinksInv /\ kept' \subseteq kept \cup ({n} \X S) => LinksInv')
<1>1. kept' \subseteq Ids \X Spaces
  BY DEF TypeOK
<1>2. edges' \in SUBSET (nodes' \X nodes') /\ spaces' \in [Ids -> SUBSET Spaces] /\ staged' \subseteq nodes'
      /\ nodes' \subseteq Ids
  BY DEF TypeOK
<1>3. TypeOK'
  BY <1>1, <1>2, CrossedTyped DEF Beside, TypeOK
<1>4. (\A m \in Ids : m # n => spaces'[m] = spaces[m]) /\ spaces'[n] = S
  BY DEF TypeOK
<1>5. kept' \subseteq kept \cup ({n} \X S) /\ LinksHold => LinksHold'
  <2> SUFFICES ASSUME kept' \subseteq kept \cup ({n} \X S), LinksHold, NEW k \in kept'
               PROVE k[1] \in nodes' /\ k[2] \in spaces'[k[1]]
    BY DEF LinksHold
  <2>1. CASE k \in kept
    <3>1. k[1] \in nodes /\ k[2] \in spaces[k[1]] /\ k[1] # n /\ k[1] \in Ids
      BY <2>1 DEF LinksHold, TypeOK
    <3> QED BY <1>4, <3>1
  <2>2. CASE k \in {n} \X S
    BY <1>4, <2>2
  <2> QED BY <2>1, <2>2
<1> QED
  BY <1>3, <1>5, FrameStep, NoRead DEF LinksInv

(* Steps that write one node's list. *)
LEMMA RewriteStep ==
  ASSUME TypeOK, Beside, UNCHANGED <<nodes, staged, edges, assigned, writable>>, NEW a \in Users,
         NEW n \in Ids, NEW L \in SUBSET Spaces, Rewritten(n, L), kept' \subseteq Ids \X Spaces,
         req' \in [Users -> Requests], \A v \in Users \ {a} : req'[v] = req[v]
  PROVE  /\ TypeOK'
         /\ IF n \in nodes THEN spaces'[n] = L /\ \A m \in Ids \ {n} : spaces'[m] = spaces[m]
            ELSE spaces' = spaces
         /\ Read(a)' /\ (LinksInv => LinksHold') => (LinksInv => LinksInv')
<1>1. spaces' \in [Ids -> SUBSET Spaces]
  BY DEF Rewritten, TypeOK
<1>2. TypeOK'
  BY <1>1, CrossedTyped DEF Beside, TypeOK
<1>3. IF n \in nodes THEN spaces'[n] = L /\ \A m \in Ids \ {n} : spaces'[m] = spaces[m] ELSE spaces' = spaces
  BY DEF Rewritten, TypeOK
<1> QED
  BY <1>2, <1>3, FrameStep

(* A purge that goes on holds less of what it has read. *)
LEMMA PurgeGoesOn ==
  ASSUME TypeOK, Crossing, NEW a \in Users, Read(a), req[a] \in Purging, req'[a] \in Purging,
         req'[a].node = req[a].node, req'[a].delete \subseteq req[a].delete, req'[a].unlink \subseteq req[a].unlink
  PROVE  Read(a)'
<1>1. req[a].at = "purge" /\ req'[a].at = "purge"
  BY DEF Purging
<1>2. /\ req'[a].delete \subseteq Lists(req[a]) \cap Lists(req'[a])
      /\ \A x \in req'[a].unlink : x[1] \in Lists(req[a]) \cap Lists(req'[a])
  <2>1. /\ Lists(req[a]) = req[a].delete \cup {x[1] : x \in req[a].unlink}
        /\ Lists(req'[a]) = req'[a].delete \cup {x[1] : x \in req'[a].unlink}
    BY <1>1, ListsOf
  <2> QED BY <2>1
<1>3. req[a].delete \subseteq Ids /\ \A x \in req[a].unlink : x[1] \in Ids
  BY DEF Purging
<1>4. \A n \in Ids : n \in Lists(req[a]) \cap Lists(req'[a]) /\ n \notin crossed'[a] =>
        n \notin crossed[a] /\ spaces'[n] = spaces[n]
  BY Carried
<1>5. Purged(a)'
  BY <1>1, <1>2, <1>3, <1>4 DEF Read, Purged
<1> QED
  BY <1>1, <1>5 DEF Read, Filed, Edited, Imported

-----------------------------------------------------------------------------
(* The routes that create, edit and delete nodes. *)
LEMMA ScopeTyped ==
  ASSUME TypeOK, NEW u \in Users
  PROVE  writable[u] \in SUBSET Domains /\ RootsFor(u) \in SUBSET Domains
  BY DEF TypeOK, RootsFor

LEMMA TypedTables ==
  ASSUME TypeOK
  PROVE  /\ staged \subseteq nodes /\ edges \in SUBSET (nodes \X nodes)
         /\ Granted
         /\ \A n, t : Joined(n, t) \in SUBSET (nodes \X nodes)
  BY DEF TypeOK, Joined, Granted

LEMMA CreateCheckStep ==
  ASSUME TypeOK, Beside, NEW u \in Users,
         NEW n \in Plain, NEW c \in SUBSET Ids, NEW s \in SUBSET Spaces, CreateCheck(u, n, c, s)
  PROVE  TypeOK' /\ (LinksInv => LinksInv')
<1> DEFINE r == [at |-> "insert", node |-> n, todo |-> c, space |-> s,
                 rooted |-> RootsOf(c) # {}, scope |-> writable[u], absent |-> c \ nodes]
<1>1. r \in Inserting /\ r.at = "insert"
  BY ScopeTyped DEF Inserting
<1>2. r \in Requests
  BY <1>1, Kinds
<1>3. Start(u, r) /\ UNCHANGED <<nodes, edges, staged, spaces, assigned, writable, kept>>
  BY DEF CreateCheck
<1> HIDE DEF r
<1>4. req' \in [Users -> Requests] /\ req'[u] = r /\ \A v \in Users \ {u} : req'[v] = req[v]
  BY <1>2, <1>3, StartTyped
<1>5. staged' \subseteq nodes /\ edges' \in SUBSET (nodes \X nodes) /\ Granted'
  BY <1>3, TypedTables DEF Granted
<1> QED
  BY <1>1, <1>3, <1>4, <1>5, QuietStep

LEMMA CreateInsertStep ==
  ASSUME TypeOK, Beside, NEW u \in Users, CreateInsert(u)
  PROVE  TypeOK' /\ (LinksInv => LinksInv')
<1> DEFINE r == req[u]
           q == [at |-> "link", node |-> r.node, todo |-> r.todo, rooted |-> r.rooted, scope |-> r.scope,
                 absent |-> r.absent]
<1>1. r \in Inserting
  BY ByPlace DEF CreateInsert, TypeOK
<1>2. q \in Requests /\ q.at = "link"
  <2>1. q \in Linking
    BY <1>1 DEF Inserting, Linking
  <2> QED BY <2>1, Kinds
<1>3. req' \in [Users -> Requests] /\ req'[u] = q /\ \A v \in Users \ {u} : req'[v] = req[v]
  BY <1>2, StepTyped DEF CreateInsert
<1>4. PICK n \in Ids, S \in SUBSET Spaces : n = req[u].node /\ S = req[u].space
  BY <1>1 DEF Inserting, Ids
<1>5. /\ nodes' = nodes \cup {n} /\ spaces' = [spaces EXCEPT ![n] = S] /\ n \notin nodes
      /\ kept' \subseteq kept \cup ({n} \X S) /\ kept' \subseteq kept \cup ({n} \X Spaces)
      /\ UNCHANGED <<edges, assigned, writable>>
      /\ staged' \subseteq staged \cup {n}
  BY <1>4 DEF CreateInsert
<1>6. req'[u].at \notin {"space", "edit", "purge", "import"}
  BY <1>2, <1>3
<1> HIDE DEF q, r
<1> QED
  BY <1>3, <1>5, <1>6, InsertionStep, Zenon

LEMMA LinkStep ==
  ASSUME TypeOK, Beside, NEW u \in Users,
         CreateFails(u) \/ CreateRead(u) \/ CreateRoot(u) \/ \E t \in Ids : CreateLink(u, t)
  PROVE  TypeOK' /\ (LinksInv => LinksInv')
<1>1. UNCHANGED <<nodes, spaces, kept, staged, assigned, writable>>
  BY DEF CreateFails, CreateRead, CreateRoot, CreateLink
<1>2. edges' \in SUBSET (nodes \X nodes)
  BY TypedTables DEF CreateFails, CreateRead, CreateRoot, CreateLink, Granted
<1>3. \E q \in Requests : Step(u, q) /\ q.at \in {"idle", "link", "root"}
  <2>0. Idle \in Requests /\ Idle.at = "idle"
    BY Kinds DEF Idle
  <2>1. CASE CreateRead(u)
    <3>1. req[u] \in Linking
      BY <2>1, ByPlace DEF CreateRead, TypeOK
    <3> DEFINE q == [at |-> "root", node |-> req[u].node, todo |-> RootsFor(u), scope |-> req[u].scope \cup RootsFor(u)]
    <3>2. q \in Rooting /\ q.at = "root"
      BY <3>1, ScopeTyped DEF Linking, Rooting
    <3>3. q \in Requests
      BY <3>2, Kinds
    <3>4. Step(u, Idle) \/ Step(u, q)
      BY <2>1 DEF CreateRead, End
    <3> QED BY <2>0, <3>2, <3>3, <3>4
  <2>2. CASE CreateRoot(u)
    <3>1. req[u] \in Rooting
      BY <2>2, ByPlace DEF CreateRoot, TypeOK
    <3>2. CASE End(u)
      BY <2>0, <3>2 DEF End
    <3>3. CASE ~End(u)
      <4>1. PICK d : Step(u, [req[u] EXCEPT !.todo = @ \ {d}])
        BY <2>2, <3>3 DEF CreateRoot
      <4>2. [req[u] EXCEPT !.todo = @ \ {d}] \in Rooting /\ [req[u] EXCEPT !.todo = @ \ {d}].at = "root"
        BY <3>1 DEF Rooting
      <4> QED BY <4>1, <4>2, Kinds
    <3> QED BY <3>2, <3>3
  <2>3. CASE \E t \in Ids : CreateLink(u, t)
    <3>1. PICK t \in Ids : CreateLink(u, t)
      BY <2>3
    <3>2. req[u] \in Linking
      BY <3>1, ByPlace DEF CreateLink, TypeOK
    <3>3. Step(u, [req[u] EXCEPT !.todo = @ \ {t}])
      BY <3>1 DEF CreateLink
    <3>4. [req[u] EXCEPT !.todo = @ \ {t}] \in Linking /\ [req[u] EXCEPT !.todo = @ \ {t}].at = "link"
      BY <3>2 DEF Linking
    <3> QED BY <3>3, <3>4, Kinds
  <2>4. CASE CreateFails(u)
    BY <2>0, <2>4 DEF CreateFails, End
  <2> QED BY <2>1, <2>2, <2>3, <2>4
<1>4. PICK q \in Requests : Step(u, q) /\ q.at \in {"idle", "link", "root"}
  BY <1>3
<1>5. req' \in [Users -> Requests] /\ req'[u] = q /\ \A v \in Users \ {u} : req'[v] = req[v]
  BY <1>4, StepTyped
<1>6. staged' \subseteq nodes /\ Granted'
  BY <1>1, TypedTables DEF Granted
<1> QED
  BY <1>1, <1>2, <1>4, <1>5, <1>6, QuietStep

LEMMA DeleteSteps ==
  ASSUME TypeOK, Beside, NEW u \in Users, DeleteNode(u) \/ \E n \in Ids : DeleteCheck(u, n)
  PROVE  TypeOK' /\ (LinksInv => LinksInv')
<1>0. Idle.at = "idle"
  BY DEF Idle
<1>1. CASE DeleteNode(u)
  <2>1. Gone({req[u].node}) /\ End(u) /\ UNCHANGED <<assigned, writable>>
        /\ kept' = {k \in kept : k[1] # req[u].node}
    BY <1>1 DEF DeleteNode
  <2>2. req' \in [Users -> Requests] /\ req'[u] = Idle /\ \A v \in Users \ {u} : req'[v] = req[v]
    BY <2>1, EndTyped
  <2> QED BY <1>0, <2>1, <2>2, RemovalStep
<1>2. CASE \E n \in Ids : DeleteCheck(u, n)
  <2>1. PICK n \in Ids : DeleteCheck(u, n)
    BY <1>2
  <2> DEFINE q == [at |-> "delete", node |-> n]
  <2>2. q \in Deleting /\ q.at = "delete"
    BY DEF Deleting
  <2>3. q \in Requests
    BY <2>2, Kinds
  <2>4. Start(u, q) /\ UNCHANGED <<nodes, edges, staged, spaces, assigned, writable, kept>>
    BY <2>1 DEF DeleteCheck
  <2> HIDE DEF q
  <2>5. req' \in [Users -> Requests] /\ req'[u] = q /\ \A v \in Users \ {u} : req'[v] = req[v]
    BY <2>3, <2>4, StartTyped
  <2>6. staged' \subseteq nodes /\ edges' \in SUBSET (nodes \X nodes) /\ Granted'
    BY <2>4, TypedTables DEF Granted
  <2> QED BY <2>2, <2>4, <2>5, <2>6, QuietStep
<1> QED BY <1>1, <1>2

(* An edit keeps the list it has read, or writes one of its own. *)
LEMMA EditReadStep ==
  ASSUME TypeOK, Beside, NEW u \in Users, NEW n \in Ids, EditRead(u, n)
  PROVE  TypeOK' /\ (LinksInv => LinksInv')
<1> DEFINE q == [at |-> "edit", node |-> n, list |-> spaces[n]]
<1>1. q \in Editing /\ q.at = "edit" /\ q.node = n /\ q.list = spaces[n]
  BY DEF Editing, TypeOK
<1>2. q \in Requests
  BY <1>1, Kinds
<1>3. Start(u, q) /\ UNCHANGED <<nodes, edges, staged, spaces, assigned, writable, kept>>
  BY DEF EditRead
<1> HIDE DEF q
<1>4. req' \in [Users -> Requests] /\ req'[u] = q /\ \A v \in Users \ {u} : req'[v] = req[v]
  BY <1>2, <1>3, StartTyped
<1>5. staged' \subseteq nodes /\ edges' \in SUBSET (nodes \X nodes) /\ Granted'
  BY <1>3, TypedTables DEF Granted
<1>6. Read(u)'
  BY <1>1, <1>3, <1>4 DEF Read, Filed, Edited, Purged, Imported
<1> QED
  BY <1>3, <1>4, <1>5, <1>6, QuietStep

LEMMA EditWriteStep ==
  ASSUME TypeOK, Beside, NEW u \in Users, EditWrite(u)
  PROVE  TypeOK' /\ (LinksInv => LinksInv')
<1> DEFINE n == req[u].node
           L == req[u].list
<1>1. n \in Ids /\ L \in SUBSET Spaces
  BY ByPlace DEF EditWrite, TypeOK, Editing
<1>2. LinksInv /\ n \notin crossed[u] => L = spaces[n]
  BY DEF EditWrite, LinksInv, Read, Edited
<1>3. /\ Rewritten(n, L) /\ End(u) /\ UNCHANGED <<nodes, edges, staged, assigned, writable>>
      /\ kept' = Spared(u, n, L)
  BY DEF EditWrite
<1> HIDE DEF n, L
<1>4. req' \in [Users -> Requests] /\ req'[u] = Idle /\ \A v \in Users \ {u} : req'[v] = req[v]
  BY <1>3, EndTyped
<1>5. Read(u)'
  BY <1>4, NoRead DEF Idle
<1>6. kept' \subseteq kept /\ kept' \subseteq Ids \X Spaces
  BY <1>3 DEF Spared, TypeOK
<1>7. /\ TypeOK'
      /\ IF n \in nodes THEN spaces'[n] = L /\ \A m \in Ids \ {n} : spaces'[m] = spaces[m] ELSE spaces' = spaces
      /\ (LinksInv => LinksHold') => (LinksInv => LinksInv')
  BY <1>1, <1>3, <1>4, <1>5, <1>6, RewriteStep
<1>8. ASSUME LinksInv, NEW k \in kept' PROVE k[1] \in nodes' /\ k[2] \in spaces'[k[1]]
  <2>1. k \in kept /\ k[1] \in Ids /\ (k[1] # n \/ n \notin crossed[u] \/ k[2] \in L)
    BY <1>3, <1>6, <1>8 DEF Spared
  <2>2. k[1] \in nodes /\ k[2] \in spaces[k[1]]
    BY <1>8, <2>1 DEF LinksInv, LinksHold
  <2>3. CASE k[1] = n
    BY <1>2, <1>3, <1>7, <1>8, <2>1, <2>2, <2>3
  <2>4. CASE k[1] # n
    BY <1>3, <1>7, <2>1, <2>2, <2>4
  <2> QED BY <2>3, <2>4
<1> QED
  BY <1>7, <1>8 DEF LinksHold

LEMMA EditSpacesStep ==
  ASSUME TypeOK, Beside, NEW u \in Users, NEW n \in Ids, NEW L \in SUBSET Spaces, EditSpaces(u, n, L)
  PROVE  TypeOK' /\ (LinksInv => LinksInv')
<1>1. /\ Rewritten(n, L) /\ n \in nodes /\ UNCHANGED <<nodes, edges, staged, assigned, writable, req>>
      /\ kept' = {k \in kept : k[1] # n} \cup {<<n, w>> : w \in L} /\ req[u] = Idle
  BY DEF EditSpaces
<1>2. req' \in [Users -> Requests] /\ \A v \in Users \ {u} : req'[v] = req[v]
  BY <1>1 DEF TypeOK
<1>3. Read(u)'
  BY <1>1, NoRead DEF Idle
<1>4. kept' \subseteq Ids \X Spaces
  BY <1>1 DEF TypeOK
<1>5. /\ TypeOK' /\ spaces'[n] = L /\ \A m \in Ids \ {n} : spaces'[m] = spaces[m]
      /\ (LinksInv => LinksHold') => (LinksInv => LinksInv')
  BY <1>1, <1>2, <1>3, <1>4, RewriteStep
<1>6. ASSUME LinksInv, NEW k \in kept' PROVE k[1] \in nodes' /\ k[2] \in spaces'[k[1]]
  <2>1. CASE k \in kept /\ k[1] # n
    <3>1. k[1] \in nodes /\ k[2] \in spaces[k[1]] /\ k[1] \in Ids
      BY <1>4, <1>6, <2>1 DEF LinksInv, LinksHold
    <3> QED BY <1>1, <1>5, <2>1, <3>1
  <2>2. CASE \E w \in L : k = <<n, w>>
    BY <1>1, <1>5, <2>2
  <2> QED BY <1>1, <1>6, <2>1, <2>2
<1> QED
  BY <1>5, <1>6 DEF LinksHold

LEMMA CreateStepKeeps ==
  ASSUME TypeOK, Beside, NEW u \in Users, CreateStep(u)
  PROVE  TypeOK' /\ (LinksInv => LinksInv')
<1>1. ASSUME NEW n \in Plain, NEW c \in SUBSET Ids, NEW s \in {{}} \cup {{w} : w \in Spaces}, CreateCheck(u, n, c, s)
      PROVE TypeOK' /\ (LinksInv => LinksInv')
  <2>1. s \in SUBSET Spaces
    OBVIOUS
  <2> QED BY <1>1, <2>1, CreateCheckStep
<1>2. CASE CreateInsert(u)
  BY <1>2, CreateInsertStep
<1>3. CASE CreateFails(u) \/ CreateRead(u) \/ CreateRoot(u) \/ \E t \in Ids : CreateLink(u, t)
  BY <1>3, LinkStep
<1>4. CASE DeleteNode(u) \/ \E n \in Ids : DeleteCheck(u, n)
  BY <1>4, DeleteSteps
<1>5. CASE EditWrite(u)
  BY <1>5, EditWriteStep
<1>6. CASE \E n \in Ids : EditRead(u, n)
  BY <1>6, EditReadStep
<1>7. CASE \E n \in Ids, L \in SUBSET Spaces : EditSpaces(u, n, L)
  BY <1>7, EditSpacesStep
<1> QED
  BY <1>1, <1>2, <1>3, <1>4, <1>5, <1>6, <1>7 DEF CreateStep

-----------------------------------------------------------------------------
(* The administrators' routes on the graph and on the assignments. *)
LEMMA AssignStep ==
  ASSUME TypeOK, Beside, NEW a \in Users, NEW u \in Users, NEW d \in Domains,
         Unassign(a, u, d) \/ \E can \in BOOLEAN : Assign(a, u, d, can)
  PROVE  TypeOK' /\ (LinksInv => LinksInv')
<1>1. UNCHANGED <<nodes, edges, staged, spaces, req, kept>> /\ req[a] = Idle
  BY DEF Assign, Unassign
<1>2. PICK A \in {assigned[u] \cup {d}, assigned[u] \ {d}}, W \in {writable[u] \cup {d}, writable[u] \ {d}} :
        /\ assigned' = [assigned EXCEPT ![u] = A] /\ writable' = [writable EXCEPT ![u] = W]
        /\ W \subseteq A
  <2>1. writable[u] \subseteq assigned[u]
    BY DEF TypeOK
  <2>2. CASE Unassign(a, u, d)
    BY <2>1, <2>2 DEF Unassign
  <2>3. CASE \E can \in BOOLEAN : Assign(a, u, d, can)
    <3>1. PICK can \in BOOLEAN : Assign(a, u, d, can)
      BY <2>3
    <3>2. CASE can /\ u \notin Guests
      BY <2>1, <3>1, <3>2 DEF Assign
    <3>3. CASE ~(can /\ u \notin Guests)
      BY <2>1, <3>1, <3>3 DEF Assign
    <3> QED BY <3>2, <3>3
  <2> QED BY <2>2, <2>3
<1>4. Granted'
  BY <1>2 DEF TypeOK, Granted
<1>5. req' \in [Users -> Requests] /\ req'[a].at = "idle" /\ \A v \in Users \ {a} : req'[v] = req[v]
  BY <1>1 DEF TypeOK, Idle
<1>6. staged' \subseteq nodes /\ edges' \in SUBSET (nodes \X nodes)
  BY <1>1, TypedTables
<1> QED
  BY <1>1, <1>4, <1>5, <1>6, QuietStep

LEMMA DomainStep ==
  ASSUME TypeOK, Beside, NEW a \in Users, AssignReadOnly(a) \/ \E d \in Domains : CreateDomain(a, d)
  PROVE  TypeOK' /\ (LinksInv => LinksInv')
<1>1. CASE \E d \in Domains : CreateDomain(a, d)
  <2>1. PICK d \in Domains : CreateDomain(a, d)
    BY <1>1
  <2> DEFINE q == [at |-> "domain", node |-> d]
  <2>2. q \in Founding /\ q.at = "domain"
    BY DEF Founding
  <2>3. q \in Requests
    BY <2>2, Kinds
  <2>4. Start(a, q) /\ d \notin nodes /\ nodes' = nodes \cup {d} /\ UNCHANGED <<edges, staged, spaces, assigned, writable, kept>>
    BY <2>1 DEF CreateDomain
  <2> HIDE DEF q
  <2>5. req' \in [Users -> Requests] /\ req'[a] = q /\ \A v \in Users \ {a} : req'[v] = req[v]
    BY <2>3, <2>4, StartTyped
  <2>6. TypeOK'
    <3>1. edges' \in SUBSET (nodes' \X nodes') /\ d \in Ids
      BY <2>4 DEF TypeOK, Ids
    <3> QED BY <2>4, <2>5, <3>1, CrossedTyped DEF Beside, TypeOK
  <2>7. LinksInv => LinksHold'
    BY <2>4 DEF LinksInv, LinksHold
  <2> QED BY <2>2, <2>5, <2>6, <2>7, FrameStep, NoRead
<1>2. CASE AssignReadOnly(a)
  <2>1. req[a].node \in Domains
    BY <1>2, ByPlace DEF AssignReadOnly, TypeOK, Founding
  <2>2. UNCHANGED <<nodes, edges, staged, spaces, kept>> /\ End(a)
    BY <1>2 DEF AssignReadOnly
  <2>3. req' \in [Users -> Requests] /\ req'[a] = Idle /\ \A v \in Users \ {a} : req'[v] = req[v]
    BY <2>2, EndTyped
  <2>4. Granted'
    BY <1>2, <2>1 DEF AssignReadOnly, TypeOK, Granted
  <2>5. Idle \in Requests /\ Idle.at = "idle"
    BY Kinds DEF Idle
  <2>6. staged' \subseteq nodes /\ edges' \in SUBSET (nodes \X nodes)
    BY <2>2, TypedTables DEF Granted
  <2> QED BY <2>2, <2>3, <2>4, <2>5, <2>6, QuietStep
<1> QED BY <1>1, <1>2

LEMMA EdgeStep ==
  ASSUME TypeOK, Beside, NEW a \in Users,
         (\E e \in edges : Disconnect(a, e)) \/ (\E n, m \in Ids : Connect(a, n, m))
  PROVE  TypeOK' /\ (LinksInv => LinksInv')
<1>1. UNCHANGED <<nodes, staged, spaces, assigned, writable, req, kept>>
  BY DEF Disconnect, Connect
<1>2. edges' \in SUBSET (nodes \X nodes)
  BY TypedTables DEF Disconnect, Connect, Granted
<1>3. req' \in [Users -> Requests] /\ req'[a].at = "idle" /\ \A v \in Users \ {a} : req'[v] = req[v]
  BY <1>1 DEF TypeOK, Idle, Disconnect, Connect
<1>4. staged' \subseteq nodes /\ Granted'
  BY <1>1, TypedTables DEF Granted
<1> QED
  BY <1>1, <1>2, <1>3, <1>4, QuietStep

LEMMA StatusStep ==
  ASSUME TypeOK, Beside, NEW a \in Users,
         StatusWrite(a) \/ \E w \in Spaces, b \in BOOLEAN : StatusRead(a, w, b)
  PROVE  TypeOK' /\ (LinksInv => LinksInv')
<1>1. UNCHANGED <<nodes, edges, spaces, assigned, writable, kept>>
  BY DEF StatusWrite, StatusRead
<1>2. staged' \subseteq nodes
  BY DEF StatusWrite, StatusRead, TypeOK
<1>3. PICK q \in Requests : /\ q.at \in {"idle", "status"} /\ req'[a] = q
                            /\ req' \in [Users -> Requests] /\ \A v \in Users \ {a} : req'[v] = req[v]
  <2>1. CASE StatusWrite(a)
    <3>1. Idle \in Requests /\ Idle.at = "idle"
      BY Kinds DEF Idle
    <3> QED BY <2>1, <3>1, EndTyped DEF StatusWrite
  <2>2. CASE \E w \in Spaces, b \in BOOLEAN : StatusRead(a, w, b)
    <3>1. PICK w \in Spaces, b \in BOOLEAN : StatusRead(a, w, b)
      BY <2>2
    <3> DEFINE q == [at |-> "status", node |-> w, commit |-> b, ids |-> {n \in nodes : w \in spaces[n] /\ (n \in staged <=> b)}]
    <3>2. q \in Marking /\ q.at = "status"
      BY DEF Marking, TypeOK
    <3>3. q \in Requests /\ Start(a, q)
      BY <3>1, <3>2, Kinds DEF StatusRead
    <3> HIDE DEF q
    <3> QED BY <3>2, <3>3, StartTyped
  <2> QED BY <2>1, <2>2
<1>4. edges' \in SUBSET (nodes \X nodes) /\ Granted'
  BY <1>1, TypedTables DEF Granted
<1> QED
  BY <1>1, <1>2, <1>3, <1>4, QuietStep

LEMMA PruneStep ==
  ASSUME TypeOK, Beside, NEW a \in Users, Prune(a)
  PROVE  TypeOK' /\ (LinksInv => LinksInv')
<1> DEFINE alone == {n \in nodes : \A e \in edges : n # e[1] /\ n # e[2]}
<1>1. /\ UNCHANGED <<assigned, writable, req>> /\ Gone(alone) /\ req[a] = Idle
      /\ kept' = {k \in kept : k[1] \notin alone}
  BY DEF Prune
<1>2. Idle.at = "idle"
  BY DEF Idle
<1> HIDE DEF alone
<1>3. req' \in [Users -> Requests] /\ req'[a].at = "idle" /\ \A v \in Users \ {a} : req'[v] = req[v]
  BY <1>1, <1>2 DEF TypeOK
<1> QED
  BY <1>1, <1>3, RemovalStep

LEMMA BulkStep ==
  ASSUME TypeOK, Beside, NEW a \in Users \cap Admins, BulkDeleteOne(a) \/ \E D \in SUBSET nodes : BulkDelete(a, D)
  PROVE  TypeOK' /\ (LinksInv => LinksInv')
<1>1. CASE \E D \in SUBSET nodes : BulkDelete(a, D)
  <2>1. PICK D \in SUBSET nodes : BulkDelete(a, D)
    BY <1>1
  <2> DEFINE q == [at |-> "bulk", node |-> a, delete |-> D]
  <2>2. q \in Bulk /\ q.at = "bulk"
    BY DEF Bulk, TypeOK
  <2>3. q \in Requests
    BY <2>2, Kinds
  <2>4. Start(a, q) /\ UNCHANGED <<nodes, edges, staged, spaces, assigned, writable, kept>>
    BY <2>1 DEF BulkDelete
  <2> HIDE DEF q
  <2>5. req' \in [Users -> Requests] /\ req'[a] = q /\ \A v \in Users \ {a} : req'[v] = req[v]
    BY <2>3, <2>4, StartTyped
  <2>6. staged' \subseteq nodes /\ edges' \in SUBSET (nodes \X nodes) /\ Granted'
    BY <2>4, TypedTables DEF Granted
  <2> QED BY <2>2, <2>3, <2>4, <2>5, <2>6, QuietStep
<1>2. CASE BulkDeleteOne(a) /\ End(a) /\ UNCHANGED <<nodes, edges, staged, spaces, kept>>
  <2>1. req' \in [Users -> Requests] /\ req'[a] = Idle /\ \A v \in Users \ {a} : req'[v] = req[v]
    BY <1>2, EndTyped
  <2>2. Idle \in Requests /\ Idle.at = "idle"
    BY Kinds DEF Idle
  <2>3. UNCHANGED <<nodes, edges, staged, spaces, kept, assigned, writable>>
    BY <1>2 DEF BulkDeleteOne
  <2>4. staged' \subseteq nodes /\ edges' \in SUBSET (nodes \X nodes) /\ Granted'
    BY <2>3, TypedTables DEF Granted
  <2> QED BY <2>1, <2>2, <2>3, <2>4, QuietStep
<1>3. CASE BulkDeleteOne(a) /\ ~(End(a) /\ UNCHANGED <<nodes, edges, staged, spaces, kept>>)
  <2>1. PICK n \in req[a].delete : /\ Gone({n}) /\ kept' = {k \in kept : k[1] # n}
                                   /\ Step(a, [req[a] EXCEPT !.delete = @ \ {n}])
                                   /\ UNCHANGED <<assigned, writable>>
    BY <1>3 DEF BulkDeleteOne
  <2> DEFINE q == [req[a] EXCEPT !.delete = @ \ {n}]
  <2>2. req[a] \in Bulk
    BY <1>3, ByPlace DEF BulkDeleteOne, TypeOK
  <2>3. q \in Bulk /\ q.at = "bulk"
    BY <2>2 DEF Bulk
  <2>4. q \in Requests /\ Step(a, q)
    BY <2>1, <2>3, Kinds
  <2> HIDE DEF q
  <2>5. req' \in [Users -> Requests] /\ req'[a] = q /\ \A v \in Users \ {a} : req'[v] = req[v]
    BY <2>4, StepTyped
  <2> QED BY <2>1, <2>3, <2>5, RemovalStep
<1> QED BY <1>1, <1>2, <1>3

LEMMA GraphStepKeeps ==
  ASSUME TypeOK, Beside, NEW a \in Users \cap Admins, GraphStep(a)
  PROVE  TypeOK' /\ (LinksInv => LinksInv')
<1>1. CASE \E u \in Users \ Admins, d \in Domains : Unassign(a, u, d) \/ \E b \in BOOLEAN : Assign(a, u, d, b)
  BY <1>1, AssignStep
<1>2. CASE AssignReadOnly(a) \/ \E d \in Domains : CreateDomain(a, d)
  BY <1>2, DomainStep
<1>3. CASE (\E e \in edges : Disconnect(a, e)) \/ (\E n, m \in Ids : Connect(a, n, m))
  BY <1>3, EdgeStep
<1>4. CASE StatusWrite(a) \/ \E w \in Spaces, b \in BOOLEAN : StatusRead(a, w, b)
  BY <1>4, StatusStep
<1>5. CASE BulkDeleteOne(a) \/ \E D \in SUBSET nodes : BulkDelete(a, D)
  BY <1>5, BulkStep
<1>6. CASE Prune(a)
  BY <1>6, PruneStep
<1> QED
  BY <1>1, <1>2, <1>3, <1>4, <1>5, <1>6 DEF GraphStep


-----------------------------------------------------------------------------
(* The routes on workspaces. *)
LEMMA FilingStarts ==
  ASSUME TypeOK, Beside, NEW a \in Users, NEW n \in Ids, NEW w \in Spaces, NEW b \in BOOLEAN,
         Start(a, [at |-> "space", node |-> n, space |-> w, link |-> b,
                   list |-> IF b THEN spaces[n] \cup {w} ELSE spaces[n] \ {w}]),
         UNCHANGED <<nodes, edges, staged, spaces, assigned, writable, kept>>
  PROVE  TypeOK' /\ (LinksInv => LinksInv')
<1> DEFINE L == IF b THEN spaces[n] \cup {w} ELSE spaces[n] \ {w}
           q == [at |-> "space", node |-> n, space |-> w, link |-> b, list |-> L]
<1>1. L \in SUBSET Spaces
  BY DEF TypeOK
<1>2. L = (IF b THEN spaces[n] \cup {w} ELSE spaces[n] \ {w}) /\ (b => w \in L)
  OBVIOUS
<1> HIDE DEF L
<1>3. q \in Filing /\ q.at = "space" /\ q.node = n /\ q.space = w /\ q.link = b /\ q.list = L
  BY <1>1 DEF Filing
<1>4. q \in Requests /\ Start(a, q)
  BY <1>3, Kinds DEF L
<1> HIDE DEF q
<1>5. req' \in [Users -> Requests] /\ req'[a] = q /\ \A v \in Users \ {a} : req'[v] = req[v]
  BY <1>4, StartTyped
<1>6. staged' \subseteq nodes /\ edges' \in SUBSET (nodes \X nodes) /\ Granted'
  BY TypedTables DEF Granted
<1>7. Read(a)'
  BY <1>2, <1>3, <1>5 DEF Read, Filed, Edited, Purged, Imported
<1> QED
  BY <1>5, <1>6, <1>7, QuietStep

LEMMA SpaceWriteStep ==
  ASSUME TypeOK, Beside, NEW a \in Users, SpaceWrite(a)
  PROVE  TypeOK' /\ (LinksInv => LinksInv')
<1> DEFINE n == req[a].node
           w == req[a].space
           L == req[a].list
           b == req[a].link
<1>1. n \in Ids /\ w \in Spaces /\ L \in SUBSET Spaces /\ b \in BOOLEAN
  BY ByPlace DEF SpaceWrite, TypeOK, Filing
<1>2. LinksInv => /\ b => w \in L
                  /\ n \notin crossed[a] => L = IF b THEN spaces[n] \cup {w} ELSE spaces[n] \ {w}
  BY DEF SpaceWrite, LinksInv, Read, Filed
<1>3. /\ Rewritten(n, L) /\ End(a) /\ UNCHANGED <<nodes, edges, staged, assigned, writable>>
      /\ kept' = IF b /\ n \in nodes THEN Spared(a, n, L) \cup {<<n, w>>} ELSE Spared(a, n, L) \ {<<n, w>>}
  BY DEF SpaceWrite
<1> HIDE DEF n, w, L, b
<1>4. req' \in [Users -> Requests] /\ req'[a] = Idle /\ \A v \in Users \ {a} : req'[v] = req[v]
  BY <1>3, EndTyped
<1>5. Read(a)'
  BY <1>4, NoRead DEF Idle
<1>6. Spared(a, n, L) \subseteq kept /\ kept \subseteq Ids \X Spaces
  BY DEF Spared, TypeOK
<1>7. kept' \subseteq Ids \X Spaces
  BY <1>1, <1>3, <1>6
<1>8. /\ TypeOK'
      /\ IF n \in nodes THEN spaces'[n] = L /\ \A m \in Ids \ {n} : spaces'[m] = spaces[m] ELSE spaces' = spaces
      /\ (LinksInv => LinksHold') => (LinksInv => LinksInv')
  BY <1>1, <1>3, <1>4, <1>5, <1>7, RewriteStep
<1>9. ASSUME LinksInv, NEW k \in kept' PROVE k[1] \in nodes' /\ k[2] \in spaces'[k[1]]
  <2>1. CASE k = <<n, w>> /\ b /\ n \in nodes
    BY <1>2, <1>3, <1>8, <1>9, <2>1
  <2>2. CASE k \in Spared(a, n, L) /\ (~b \/ n \notin nodes => k # <<n, w>>)
    <3>1. k \in kept /\ k = <<k[1], k[2]>> /\ k[1] \in Ids /\ (k[1] # n \/ n \notin crossed[a] \/ k[2] \in L)
      BY <1>6, <2>2 DEF Spared
    <3>2. k[1] \in nodes /\ k[2] \in spaces[k[1]]
      BY <1>9, <3>1 DEF LinksInv, LinksHold
    <3>3. CASE k[1] # n
      BY <1>3, <1>8, <3>1, <3>2, <3>3
    <3>4. CASE k[1] = n
      <4>1. k[2] \in L
        BY <1>2, <1>9, <2>2, <3>1, <3>2, <3>4
      <4> QED BY <1>3, <1>8, <3>2, <3>4, <4>1
    <3> QED BY <3>3, <3>4
  <2> QED BY <1>3, <1>9, <2>1, <2>2
<1> QED
  BY <1>8, <1>9 DEF LinksHold

LEMMA ClassifyStep ==
  ASSUME TypeOK, Beside, NEW a \in Users, NEW w \in Spaces, PurgeClassify(a, w)
  PROVE  TypeOK' /\ (LinksInv /\ IsFiniteSet(Spaces) => LinksInv')
<1> DEFINE D == Exclusive(w)
           U == {<<n, spaces[n] \ {w}>> : n \in Shared(w)}
           q == [at |-> "purge", node |-> w, delete |-> D, unlink |-> U]
<1>1. /\ D \in SUBSET Ids /\ U \in SUBSET (Ids \X SUBSET Spaces)
      /\ \A x \in U : x[2] = spaces[x[1]] \ {w}
  BY DEF Exclusive, Shared, TypeOK
<1>2. IsFiniteSet(Spaces) => \A n \in D : spaces[n] \subseteq {w}
  <2> SUFFICES ASSUME IsFiniteSet(Spaces), NEW n \in D, NEW v \in spaces[n], v # w PROVE FALSE
    OBVIOUS
  <2>1. spaces[n] \in SUBSET Spaces /\ w \in spaces[n] /\ Cardinality(spaces[n]) <= 1
    BY <1>1 DEF Exclusive, TypeOK
  <2>2. IsFiniteSet(spaces[n]) /\ {v} \in SUBSET spaces[n] /\ {v} # spaces[n]
    BY <2>1, FS_Subset
  <2>3. Cardinality({v}) = 1 /\ Cardinality({v}) <= Cardinality(spaces[n]) /\ Cardinality({v}) # Cardinality(spaces[n])
    BY <2>2, FS_Subset, FS_Singleton
  <2>4. Cardinality(spaces[n]) \in Nat
    BY <2>2, FS_CardinalityType
  <2> QED BY <2>1, <2>3, <2>4
<1> HIDE DEF D, U
<1>3. q \in Purging /\ q.at = "purge" /\ q.node = w /\ q.delete = D /\ q.unlink = U
  BY <1>1 DEF Purging
<1>4. q \in Requests
  BY <1>3, Kinds
<1>5. Start(a, q) /\ UNCHANGED <<nodes, edges, staged, spaces, assigned, writable, kept>>
  BY DEF PurgeClassify, D, U
<1> HIDE DEF q
<1>6. req' \in [Users -> Requests] /\ req'[a] = q /\ \A v \in Users \ {a} : req'[v] = req[v]
  BY <1>4, <1>5, StartTyped
<1>7. staged' \subseteq nodes /\ edges' \in SUBSET (nodes \X nodes) /\ Granted'
  BY <1>5, TypedTables DEF Granted
<1>8. IsFiniteSet(Spaces) => Read(a)'
  BY <1>1, <1>2, <1>3, <1>5, <1>6 DEF Read, Filed, Edited, Purged, Imported
<1>9. TypeOK' /\ ((LinksInv => Read(a)') => (LinksInv => LinksInv'))
  BY <1>5, <1>6, <1>7, QuietStep
<1> QED
  BY <1>8, <1>9

LEMMA PurgeDeleteStep ==
  ASSUME TypeOK, Beside, NEW a \in Users, NEW n \in Ids, PurgeDelete(a, n)
  PROVE  TypeOK' /\ (LinksInv => LinksInv')
<1> DEFINE q == [req[a] EXCEPT !.delete = @ \ {n}]
           w == req[a].node
<1>1. req[a] \in Purging
  BY ByPlace DEF PurgeDelete, TypeOK
<1>2. q \in Purging /\ q.node = w /\ q.delete = req[a].delete \ {n} /\ q.unlink = req[a].unlink
  BY <1>1 DEF Purging
<1>3. q \in Requests
  BY <1>2, Kinds
<1>4. /\ Gone({n}) /\ kept' = Spared(a, n, {}) \ {<<n, w>>} /\ Step(a, q) /\ UNCHANGED <<assigned, writable>>
      /\ n \in req[a].delete
  BY DEF PurgeDelete
<1> HIDE DEF q
<1>5. req' \in [Users -> Requests] /\ req'[a] = q /\ \A v \in Users \ {a} : req'[v] = req[v]
  BY <1>3, <1>4, StepTyped
<1>6. LinksInv => Purged(a) /\ req[a].at = "purge" /\ Read(a)
  BY DEF LinksInv, Read, PurgeDelete
<1>7. LinksInv => \A k \in kept' : k[1] \notin {n}
  <2> SUFFICES ASSUME LinksInv, NEW k \in kept', k[1] = n PROVE FALSE
    OBVIOUS
  <2>1. k \in kept /\ k # <<n, w>> /\ k = <<k[1], k[2]>> /\ n \notin crossed[a]
    BY <1>4 DEF Spared, TypeOK
  <2>2. k[2] \in spaces[n]
    BY <2>1 DEF LinksInv, LinksHold
  <2>3. k[2] = w
    BY <1>4, <1>6, <2>1, <2>2 DEF Purged
  <2> QED BY <2>1, <2>3
<1>8. kept' \subseteq kept
  BY <1>4 DEF Spared
<1>9. LinksInv => Read(a)'
  <2>1. q.delete \subseteq req[a].delete /\ q.unlink \subseteq req[a].unlink
    BY <1>2
  <2> QED BY <1>1, <1>2, <1>5, <1>6, <2>1, PurgeGoesOn DEF Beside
<1> QED
  BY <1>4, <1>5, <1>7, <1>8, <1>9, RemovalStep

LEMMA PurgeUnlinkStep ==
  ASSUME TypeOK, Beside, NEW a \in Users, NEW n \in Ids, NEW S \in SUBSET Spaces, PurgeUnlink(a, <<n, S>>)
  PROVE  TypeOK' /\ (LinksInv => LinksInv')
<1> DEFINE x == <<n, S>>
           q == [req[a] EXCEPT !.unlink = @ \ {x}]
           w == req[a].node
<1>1. req[a] \in Purging
  BY ByPlace DEF PurgeUnlink, TypeOK
<1>2. q \in Purging /\ q.node = w /\ q.delete = req[a].delete /\ q.unlink = req[a].unlink \ {x}
  BY <1>1 DEF Purging
<1>3. q \in Requests
  BY <1>2, Kinds
<1>4. /\ Rewritten(n, S) /\ kept' = Spared(a, n, S) \ {<<n, w>>} /\ Step(a, q)
      /\ UNCHANGED <<nodes, edges, staged, assigned, writable>>
      /\ x \in req[a].unlink
  BY DEF PurgeUnlink
<1>5. LinksInv => Purged(a) /\ req[a].at = "purge" /\ Read(a)
  BY DEF LinksInv, Read, PurgeUnlink
<1>6. LinksInv /\ n \notin crossed[a] => S = spaces[n] \ {w}
  BY <1>4, <1>5 DEF Purged
<1> HIDE DEF q
<1>7. req' \in [Users -> Requests] /\ req'[a] = q /\ \A v \in Users \ {a} : req'[v] = req[v]
  BY <1>3, <1>4, StepTyped
<1>8. kept' \subseteq kept /\ kept \subseteq Ids \X Spaces
  BY <1>4 DEF Spared, TypeOK
<1>9. LinksInv => Read(a)'
  <2>1. q.delete \subseteq req[a].delete /\ q.unlink \subseteq req[a].unlink
    BY <1>2
  <2> QED BY <1>1, <1>2, <1>5, <1>7, <2>1, PurgeGoesOn DEF Beside
<1>10. /\ TypeOK'
       /\ IF n \in nodes THEN spaces'[n] = S /\ \A m \in Ids \ {n} : spaces'[m] = spaces[m] ELSE spaces' = spaces
       /\ Read(a)' /\ (LinksInv => LinksHold') => (LinksInv => LinksInv')
  BY <1>4, <1>7, <1>8, RewriteStep
<1>11. ASSUME LinksInv, NEW k \in kept' PROVE  k[1] \in nodes' /\ k[2] \in spaces'[k[1]]
  <2>1. k \in kept /\ k # <<n, w>> /\ k = <<k[1], k[2]>> /\ k[1] \in Ids
        /\ (k[1] # n \/ n \notin crossed[a] \/ k[2] \in S)
    BY <1>4, <1>8 DEF Spared
  <2>2. k[1] \in nodes /\ k[2] \in spaces[k[1]]
    BY <1>11, <2>1 DEF LinksInv, LinksHold
  <2>3. CASE k[1] = n
    <3>1. k[2] \in S
      BY <1>6, <1>11, <2>1, <2>2, <2>3
    <3> QED BY <1>4, <1>10, <2>2, <2>3, <3>1
  <2>4. CASE k[1] # n
    BY <1>4, <1>10, <2>1, <2>2, <2>4
  <2> QED BY <2>3, <2>4
<1> QED
  BY <1>9, <1>10, <1>11 DEF LinksHold

LEMMA PurgeEndStep ==
  ASSUME TypeOK, Beside, NEW a \in Users, PurgeEnd(a)
  PROVE  TypeOK' /\ (LinksInv => LinksInv')
<1>1. End(a) /\ UNCHANGED <<nodes, edges, staged, spaces, assigned, writable, kept>>
  BY DEF PurgeEnd
<1>2. req' \in [Users -> Requests] /\ req'[a] = Idle /\ \A v \in Users \ {a} : req'[v] = req[v]
  BY <1>1, EndTyped
<1>3. staged' \subseteq nodes /\ edges' \in SUBSET (nodes \X nodes) /\ Granted'
  BY <1>1, TypedTables DEF Granted
<1>4. Idle.at = "idle"
  BY DEF Idle
<1> QED
  BY <1>1, <1>2, <1>3, <1>4, QuietStep

LEMMA ImportReadStep ==
  ASSUME TypeOK, Beside, NEW a \in Users, NEW n \in Plain, NEW w \in Spaces, ImportRead(a, n, w)
  PROVE  TypeOK' /\ (LinksInv => LinksInv')
<1> DEFINE same == {m \in nodes \cap Plain : Title[m] = Title[n]}
<1>1. UNCHANGED <<nodes, edges, staged, spaces, assigned, writable, kept>>
  BY DEF ImportRead
<1>2. CASE same # {}
  <2>1. PICK m \in same :
          Start(a, [at |-> "space", node |-> m, space |-> w, link |-> TRUE, list |-> spaces[m] \cup {w}])
    BY <1>2 DEF ImportRead
  <2>2. m \in Ids
    BY DEF Ids
  <2>3. \E b \in BOOLEAN : Start(a, [at |-> "space", node |-> m, space |-> w, link |-> b,
                                     list |-> IF b THEN spaces[m] \cup {w} ELSE spaces[m] \ {w}])
    BY <2>1
  <2> QED BY <1>1, <2>2, <2>3, FilingStarts
<1>3. CASE same = {}
  <2> DEFINE q == [at |-> "import", node |-> n, space |-> w, list |-> {w}]
  <2>1. Start(a, q)
    BY <1>3 DEF ImportRead
  <2>2. q \in Importing /\ q.at = "import" /\ q.space \in q.list
    BY DEF Importing
  <2>3. q \in Requests
    BY <2>2, Kinds
  <2> HIDE DEF q
  <2>4. req' \in [Users -> Requests] /\ req'[a] = q /\ \A v \in Users \ {a} : req'[v] = req[v]
    BY <2>1, <2>3, StartTyped
  <2>5. staged' \subseteq nodes /\ edges' \in SUBSET (nodes \X nodes) /\ Granted'
    BY <1>1, TypedTables DEF Granted
  <2>6. Read(a)'
    BY <2>2, <2>4 DEF Read, Filed, Edited, Purged, Imported
  <2> QED BY <1>1, <2>4, <2>5, <2>6, QuietStep
<1> QED
  BY <1>2, <1>3

LEMMA ImportCreateStep ==
  ASSUME TypeOK, Beside, NEW a \in Users, ImportCreate(a)
  PROVE  TypeOK' /\ (LinksInv => LinksInv')
<1>1. req[a] \in Importing
  BY ByPlace DEF ImportCreate, TypeOK
<1>2. PICK n \in Ids, S \in SUBSET Spaces : n = req[a].node /\ S = req[a].list
  BY <1>1 DEF Importing, Ids
<1>3. LinksInv => req[a].space \in S
  BY <1>2 DEF LinksInv, Read, Imported, ImportCreate
<1>4. End(a) /\ UNCHANGED <<edges, staged, assigned, writable>>
  BY DEF ImportCreate
<1>5. req' \in [Users -> Requests] /\ req'[a] = Idle /\ \A v \in Users \ {a} : req'[v] = req[v]
  BY <1>4, EndTyped
<1>6. req'[a].at \notin {"space", "edit", "purge", "import"}
  BY <1>5 DEF Idle
<1>7. CASE n \in nodes
  <2>1. UNCHANGED <<nodes, spaces, kept>>
    BY <1>2, <1>7 DEF ImportCreate
  <2>2. staged' \subseteq nodes /\ edges' \in SUBSET (nodes \X nodes) /\ Granted'
    BY <1>4, TypedTables DEF Granted
  <2> QED BY <1>5, <1>6, <2>1, <2>2, QuietStep
<1>8. CASE n \notin nodes
  <2>1. /\ nodes' = nodes \cup {n} /\ spaces' = [spaces EXCEPT ![n] = S]
        /\ kept' = kept \cup {<<n, req[a].space>>}
    BY <1>2, <1>8 DEF ImportCreate
  <2>2. kept' \subseteq kept \cup ({n} \X Spaces) /\ staged' \subseteq staged \cup {n}
    BY <1>1, <1>4, <2>1 DEF Importing
  <2>3. LinksInv => kept' \subseteq kept \cup ({n} \X S)
    BY <1>3, <2>1
  <2>4. UNCHANGED <<edges, assigned, writable>>
    BY <1>4
  <2>5. /\ req' \in [Users -> Requests] /\ \A v \in Users \ {a} : req'[v] = req[v]
        /\ nodes' = nodes \cup {n} /\ spaces' = [spaces EXCEPT ![n] = S]
    BY <1>5, <2>1
  <2> HIDE DEF Idle
  <2>6. TypeOK' /\ (LinksInv /\ kept' \subseteq kept \cup ({n} \X S) => LinksInv')
    BY <1>6, <1>8, <2>2, <2>4, <2>5, InsertionStep
  <2> QED BY <2>3, <2>6
<1> QED
  BY <1>7, <1>8

LEMMA SpaceStepKeeps ==
  ASSUME TypeOK, Beside, NEW a \in Users, SpaceStep(a)
  PROVE  TypeOK' /\ (LinksInv /\ IsFiniteSet(Spaces) => LinksInv')
<1>1. ASSUME NEW n \in Ids, NEW w \in Spaces, NEW b \in BOOLEAN, SpaceRead(a, n, w, b)
      PROVE  TypeOK' /\ (LinksInv => LinksInv')
  BY <1>1, FilingStarts DEF SpaceRead
<1>2. CASE \E w \in Spaces : PurgeClassify(a, w)
  BY <1>2, ClassifyStep
<1>3. CASE \E n \in Ids : PurgeDelete(a, n)
  BY <1>3, PurgeDeleteStep
<1>4. CASE \E n \in Ids, s \in SUBSET Spaces : PurgeUnlink(a, <<n, s>>)
  BY <1>4, PurgeUnlinkStep
<1>5. CASE \E n \in Plain, w \in Spaces : ImportRead(a, n, w)
  BY <1>5, ImportReadStep
<1>6. CASE SpaceWrite(a)
  BY <1>6, SpaceWriteStep
<1>7. CASE PurgeEnd(a)
  BY <1>7, PurgeEndStep
<1>8. CASE ImportCreate(a)
  BY <1>8, ImportCreateStep
<1> QED
  BY <1>1, <1>2, <1>3, <1>4, <1>5, <1>6, <1>7, <1>8 DEF SpaceStep

-----------------------------------------------------------------------------
(* All steps together. *)
LEMMA StutterStep ==
  ASSUME UNCHANGED vars
  PROVE  (TypeOK => TypeOK') /\ (LinksInv => LinksInv')
<1>1. TypeOK => TypeOK'
  BY DEF vars, TypeOK, Lists
<1>2. LinksHold => LinksHold'
  BY DEF vars, LinksHold
<1>3. \A u \in Users : Read(u) => Read(u)'
  BY DEF vars, Read, Filed, Edited, Purged, Imported
<1> QED
  BY <1>1, <1>2, <1>3 DEF LinksInv

LEMMA EveryStep ==
  ASSUME TypeOK, [Next]_vars
  PROVE  TypeOK' /\ (LinksInv /\ IsFiniteSet(Spaces) => LinksInv')
<1>1. CASE UNCHANGED vars
  BY <1>1, StutterStep
<1>2. CASE Next
  <2>1. Beside
    BY <1>2 DEF Next, Beside
  <2>2. ASSUME NEW u \in Users, CreateStep(u) PROVE TypeOK' /\ (LinksInv => LinksInv')
    BY <2>1, <2>2, CreateStepKeeps
  <2>3. ASSUME NEW a \in Admins, GraphStep(a) PROVE TypeOK' /\ (LinksInv => LinksInv')
    BY <2>1, <2>3, GraphStepKeeps, ScopesAssumption
  <2>4. ASSUME NEW a \in Admins, SpaceStep(a)
        PROVE  TypeOK' /\ (LinksInv /\ IsFiniteSet(Spaces) => LinksInv')
    BY <2>1, <2>4, SpaceStepKeeps, ScopesAssumption
  <2> QED BY <1>2, <2>2, <2>3, <2>4 DEF Next
<1> QED
  BY <1>1, <1>2

LEMMA LinksInit == Init => LinksInv
<1> SUFFICES ASSUME Init PROVE LinksInv
  OBVIOUS
<1>1. Idle \in Requests /\ Idle.at = "idle"
  BY Kinds DEF Idle
<1>2. \A u \in Users : req[u] = Idle
  BY DEF Init
<1>3. TypeOK
  <2>1. nodes \subseteq Ids /\ staged \subseteq nodes /\ edges \in SUBSET (nodes \X nodes)
    BY DEF Init, Ids
  <2>2. assigned \in [Users -> SUBSET Domains] /\ writable \in [Users -> SUBSET Domains]
    BY DEF Init
  <2>3. \A u \in Users : writable[u] \subseteq assigned[u]
    BY DEF Init
  <2> QED BY <1>1, <2>1, <2>2, <2>3 DEF Init, TypeOK
<1> QED
  BY <1>1, <1>2, <1>3 DEF Init, LinksInv, LinksHold, Read, Filed, Edited, Purged, Imported

(* KnowledgeScopes' TypeOK, and that only lists a request has read can be   *)
(* crossed (src/db/knowledge_graph.py:529).                                 *)
THEOREM TypeCorrect == Spec => []TypeOK
<1>1. Init => TypeOK
  BY LinksInit DEF LinksInv
<1>2. TypeOK /\ [Next]_vars => TypeOK'
  BY EveryStep
<1> QED
  BY <1>1, <1>2, PTL DEF Spec

(* Links to workspaces that were answered as made hold, whatever any number *)
(* of users and administrators are at, but for a write of the same node's   *)
(* list that crosses the link (src/knowledge/routes.py:1279).               *)
THEOREM LinksKept == ASSUME IsFiniteSet(Spaces) PROVE Spec => []LinksHold
<1>1. LinksInv /\ [Next]_vars => LinksInv'
  BY EveryStep DEF LinksInv
<1>2. LinksInv => LinksHold
  BY DEF LinksInv
<1> QED
  BY <1>1, <1>2, LinksInit, PTL DEF Spec

-----------------------------------------------------------------------------
(* Before it is made, too, a node is aimed only at domains in scope or not  *)
(* yet there.                                                               *)
Aimed(u) ==
  /\ req[u].at \in {"insert", "link"} => req[u].todo \cap Domains \subseteq req[u].scope \cup req[u].absent
  /\ req[u].at = "root" => req[u].todo \subseteq req[u].scope

ScopeInv == TypeOK /\ \A u \in Users \ Admins : Aimed(u)

LEMMA AimedStep ==
  ASSUME TypeOK, NEW u \in Users \ Admins, Aimed(u), CreateStep(u)
  PROVE  Aimed(u)'
<1>0. Idle.at = "idle"
  BY DEF Idle
<1>1. ASSUME NEW r, req' = [req EXCEPT ![u] = r] PROVE req'[u] = r
  BY <1>1 DEF TypeOK
<1>2. ASSUME req'[u].at \notin {"insert", "link", "root"} PROVE Aimed(u)'
  BY <1>2 DEF Aimed
<1>3. ASSUME End(u) PROVE Aimed(u)'
  BY <1>0, <1>1, <1>2, <1>3 DEF End, Step
<1>4. ASSUME NEW n \in Plain, NEW c \in SUBSET Ids, NEW s, CreateCheck(u, n, c, s) PROVE Aimed(u)'
  <2> DEFINE r == [at |-> "insert", node |-> n, todo |-> c, space |-> s,
                   rooted |-> RootsOf(c) # {}, scope |-> writable[u], absent |-> c \ nodes]
  <2>1. req'[u] = r /\ RootsOf(c) \subseteq writable[u]
    BY <1>1, <1>4 DEF CreateCheck, InScope, Start
  <2>2. ASSUME NEW d \in c \cap Domains, d \in nodes PROVE d \in writable[u]
    <3>1. RootDomains(d) = {d}
      BY <2>2 DEF RootDomains
    <3> QED BY <2>1, <2>2, <3>1 DEF RootsOf
  <2>3. r.at = "insert" /\ r.todo = c /\ r.scope = writable[u] /\ r.absent = c \ nodes
    OBVIOUS
  <2> QED BY <2>1, <2>2, <2>3 DEF Aimed
<1>5. CASE CreateInsert(u)
  <2> DEFINE q == [at |-> "link", node |-> req[u].node, todo |-> req[u].todo, rooted |-> req[u].rooted,
                   scope |-> req[u].scope, absent |-> req[u].absent]
  <2>1. req'[u] = q
    BY <1>1, <1>5 DEF CreateInsert, Step
  <2>2. q.at = "link" /\ q.todo = req[u].todo /\ q.scope = req[u].scope /\ q.absent = req[u].absent
    OBVIOUS
  <2> QED BY <1>5, <2>1, <2>2 DEF Aimed, CreateInsert
<1>6. CASE CreateRead(u) /\ ~End(u)
  <2> DEFINE q == [at |-> "root", node |-> req[u].node, todo |-> RootsFor(u), scope |-> req[u].scope \cup RootsFor(u)]
  <2>1. req'[u] = q
    BY <1>1, <1>6 DEF CreateRead, Step
  <2> QED BY <2>1 DEF Aimed
<1>7. CASE CreateRoot(u) /\ ~End(u)
  <2>1. req[u] \in Rooting
    BY <1>7, ByPlace DEF CreateRoot, TypeOK
  <2>2. PICK d : req'[u] = [req[u] EXCEPT !.todo = @ \ {d}]
    BY <1>1, <1>7 DEF CreateRoot, Step
  <2> DEFINE q == [req[u] EXCEPT !.todo = @ \ {d}]
  <2>3. q.at = "root" /\ q.todo = req[u].todo \ {d} /\ q.scope = req[u].scope /\ req[u].at = "root"
    BY <2>1 DEF Rooting
  <2> QED BY <2>2, <2>3 DEF Aimed
<1>8. ASSUME NEW t \in Ids, CreateLink(u, t) PROVE Aimed(u)'
  <2>1. req[u] \in Linking
    BY <1>8, ByPlace DEF CreateLink, TypeOK
  <2>2. req'[u] = [req[u] EXCEPT !.todo = @ \ {t}]
    BY <1>1, <1>8 DEF CreateLink, Step
  <2> DEFINE q == [req[u] EXCEPT !.todo = @ \ {t}]
  <2>3. /\ q.at = "link" /\ q.todo = req[u].todo \ {t} /\ q.scope = req[u].scope /\ q.absent = req[u].absent
        /\ req[u].at = "link"
    BY <2>1 DEF Linking
  <2> QED BY <2>2, <2>3 DEF Aimed
<1>9. ASSUME NEW n \in Ids, DeleteCheck(u, n) \/ EditRead(u, n) PROVE Aimed(u)'
  <2>1. req'[u] = [at |-> "delete", node |-> n] \/ req'[u] = [at |-> "edit", node |-> n, list |-> spaces[n]]
    BY <1>1, <1>9 DEF DeleteCheck, EditRead, Start
  <2> QED BY <1>2, <2>1
<1>10. CASE DeleteNode(u) \/ EditWrite(u) \/ CreateFails(u)
  BY <1>3, <1>10 DEF DeleteNode, EditWrite, CreateFails
<1>11. ASSUME NEW n \in Ids, NEW S \in SUBSET Spaces, EditSpaces(u, n, S) PROVE Aimed(u)'
  BY <1>0, <1>2, <1>11 DEF EditSpaces
<1> QED
  BY <1>3, <1>4, <1>5, <1>6, <1>7, <1>8, <1>9, <1>10, <1>11 DEF CreateStep

(* The others' requests stay as they are. *)
LEMMA OthersStay ==
  ASSUME TypeOK, NEW u \in Users, NEW v \in Users, v # u,
         CreateStep(u) \/ GraphStep(u) \/ SpaceStep(u)
  PROVE  req'[v] = req[v]
<1>1. (\E r : Step(u, r)) => req'[v] = req[v]
  BY DEF Step, TypeOK
<1>2. CASE CreateStep(u)
  BY <1>1, <1>2 DEF CreateStep, CreateCheck, CreateInsert, CreateFails, CreateRead, CreateRoot, CreateLink, DeleteCheck,
       DeleteNode, EditRead, EditWrite, EditSpaces, End, Start, Step
<1>3. CASE GraphStep(u)
  BY <1>1, <1>3 DEF GraphStep, Assign, Unassign, CreateDomain, Disconnect, Connect, StatusRead, BulkDelete, StatusWrite,
       BulkDeleteOne, AssignReadOnly, Prune, End, Start, Step
<1>4. CASE SpaceStep(u)
  BY <1>1, <1>4 DEF SpaceStep, SpaceRead, PurgeClassify, PurgeDelete, PurgeUnlink, ImportRead, SpaceWrite, PurgeEnd,
       ImportCreate, End, Start, Step
<1> QED
  BY <1>2, <1>3, <1>4

LEMMA ScopeStep ==
  ASSUME ScopeInv, [Next]_vars PROVE ScopeInv'
<1>1. TypeOK'
  BY EveryStep DEF ScopeInv
<1>2. ASSUME NEW v \in Users \ Admins PROVE Aimed(v)'
  <2>1. CASE req'[v] = req[v]
    BY <2>1 DEF ScopeInv, Aimed
  <2>2. CASE req'[v] # req[v]
    <3>1. ~(UNCHANGED vars)
      BY <2>2 DEF vars
    <3>2. PICK u \in Users : CreateStep(u) \/ (u \in Admins /\ (GraphStep(u) \/ SpaceStep(u)))
      BY <3>1, ScopesAssumption DEF Next
    <3>3. u = v
      BY <2>2, <3>2, OthersStay DEF ScopeInv
    <3> QED BY <3>2, <3>3, AimedStep DEF ScopeInv
  <2> QED BY <2>1, <2>2
<1> QED
  BY <1>1, <1>2 DEF ScopeInv

(* Nodes are hung only under domains their creator could write, or that     *)
(* were not there when the request was checked (src/knowledge/routes.py:231). *)
THEOREM HungInItsScope == Spec => []HungInScope
<1>1. Init => ScopeInv
  BY LinksInit DEF ScopeInv, LinksInv, Aimed, Init, Idle
<1>2. ScopeInv /\ [Next]_vars => ScopeInv'
  BY ScopeStep
<1>3. ScopeInv => HungInScope
  BY DEF ScopeInv, Aimed, HungInScope
<1> QED
  BY <1>1, <1>2, <1>3, PTL DEF Spec

-----------------------------------------------------------------------------
(* What readers are shown.                                                 *)

(* Induction up to a number, with the property as a set.                   *)
LEMMA Upwards ==
  ASSUME NEW m \in Nat, NEW T, 0 \in T, \A i \in 0 .. m : i < m /\ i \in T => i + 1 \in T
  PROVE  \A i \in 0 .. m : i \in T
<1> DEFINE B == {i \in 0 .. m : i \notin T}
<1> SUFFICES ASSUME B # {} PROVE FALSE
  OBVIOUS
<1>1. B \subseteq Nat
  OBVIOUS
<1>2. PICK n \in B : \A i \in B : ~(<<i, n>> \in OpToRel(<, Nat))
  <2> HIDE DEF B
  <2> QED
    BY <1>1, NatLessThanWellFounded, WFMin
<1>3. \A i \in B : ~(i < n)
  BY <1>1, <1>2 DEF OpToRel
<1>4. n \in 1 .. m
  <2>1. n \in 0 .. m /\ n \notin T
    BY <1>2
  <2>2. n # 0
    BY <2>1
  <2> QED
    BY <2>1, <2>2
<1>5. n - 1 \in 0 .. m /\ n - 1 < n /\ n - 1 < m /\ (n - 1) + 1 = n
  BY <1>4
<1>6. n - 1 \in T
  BY <1>3, <1>5
<1> QED
  BY <1>2, <1>5, <1>6

(* A function that is told by its first value and by steps.                *)
(* A function for each step, and what is had by taking them in turn.       *)
Stepping(n, S) == [1 .. n -> [S -> S]]
Iteration(n, S, a, F, g) == g \in [0 .. n -> S] /\ g[0] = a /\ \A i \in 1 .. n : g[i] = F[i][g[i - 1]]

LEMMA Iterates ==
  ASSUME NEW n \in Nat, NEW S, NEW a \in S, NEW F \in Stepping(n, S)
  PROVE  \E g : Iteration(n, S, a, F, g)
<1> USE DEF Stepping, Iteration
<1> DEFINE Steps(k, g) == Iteration(k, S, a, F, g)
           T == {k \in 0 .. n : \E g : Steps(k, g)}
<1>1. 0 \in T
  <2>1. Steps(0, [i \in 0 .. 0 |-> a])
    OBVIOUS
  <2>2. \E g : Steps(0, g)
    BY <2>1
  <2> HIDE DEF Steps
  <2> QED
    BY <2>2
<1>2. ASSUME NEW k \in 0 .. n, k < n, k \in T PROVE k + 1 \in T
  <2>1. PICK g : Steps(k, g)
    BY <1>2
  <2>2. g[k] \in S /\ k + 1 \in 1 .. n /\ F[k + 1] \in [S -> S]
    BY <1>2, <2>1
  <2>3. F[k + 1][g[k]] \in S
    BY <2>2
  <2> DEFINE h == [i \in 0 .. k + 1 |-> IF i = k + 1 THEN F[k + 1][g[k]] ELSE g[i]]
  <2>4. h \in [0 .. k + 1 -> S]
    BY <2>1, <2>3
  <2>5. h[0] = a
    BY <1>2, <2>1
  <2>6. ASSUME NEW i \in 1 .. k + 1 PROVE h[i] = F[i][h[i - 1]]
    <3>1. CASE i = k + 1
      BY <1>2, <3>1
    <3>2. CASE i # k + 1
      <4>1. i \in 1 .. k /\ i \in 0 .. k + 1 /\ i - 1 \in 0 .. k + 1 /\ i - 1 # k + 1
        BY <1>2, <3>2
      <4>2. h[i] = g[i] /\ h[i - 1] = g[i - 1]
        BY <3>2, <4>1
      <4> QED
        BY <2>1, <4>1, <4>2
    <3> QED
      BY <3>1, <3>2
  <2>7. Steps(k + 1, h)
    <3> HIDE DEF h
    <3> QED
      BY <2>4, <2>5, <2>6
  <2>8. \E f : Steps(k + 1, f)
    <3> HIDE DEF h, Steps
    <3> QED
      BY <2>7
  <2> HIDE DEF Steps
  <2> QED
    BY <1>2, <2>8
<1>3. n \in T
  <2> HIDE DEF T
  <2>1. \A i \in 0 .. n : i < n /\ i \in T => i + 1 \in T
    BY <1>2
  <2>2. \A i \in 0 .. n : i \in T
    BY <1>1, <2>1, Upwards, Zenon
  <2>3. n \in 0 .. n
    OBVIOUS
  <2> QED
    BY <2>2, <2>3
<1> QED
  BY <1>3

-----------------------------------------------------------------------------
(* The nodes within so many hops, which a walk adds hop by hop.            *)
Ball(n, i) == {m \in nodes : Within(n, m, i)}

(* None but itself within none ...                                         *)
LEMMA BallBase ==
  ASSUME NEW n \in nodes
  PROVE  Ball(n, 0) = {n}
<1>1. Within(n, n, 0)
  <2> DEFINE p == [i \in 0 .. 0 |-> n]
  <2>1. p \in [0 .. 0 -> nodes] /\ p[0] = n /\ \A i \in 1 .. 0 : FALSE
    OBVIOUS
  <2> QED
    BY <2>1 DEF Within
<1>2. \A m : Within(n, m, 0) => m = n
  BY DEF Within
<1> QED
  BY <1>1, <1>2 DEF Ball

(* ... and within one more, what touches those.                            *)
LEMMA BallStep ==
  ASSUME NEW n \in nodes, NEW k \in Nat
  PROVE  Ball(n, k + 1) = Ball(n, k) \cup Touching(Ball(n, k))
<1>1. ASSUME NEW m \in Ball(n, k + 1) PROVE m \in Ball(n, k) \cup Touching(Ball(n, k))
  <2>1. PICK p \in [0 .. k + 1 -> nodes] :
          p[0] = n /\ p[k + 1] = m /\ \A i \in 1 .. k + 1 : p[i] = p[i - 1] \/ p[i] \in Touching({p[i - 1]})
    BY <1>1 DEF Ball, Within
  <2> DEFINE q == [i \in 0 .. k |-> p[i]]
  <2>2. q \in [0 .. k -> nodes] /\ q[0] = n /\ q[k] = p[k]
    BY <2>1
  <2>3. \A i \in 1 .. k : q[i] = q[i - 1] \/ q[i] \in Touching({q[i - 1]})
    <3> SUFFICES ASSUME NEW i \in 1 .. k PROVE q[i] = q[i - 1] \/ q[i] \in Touching({q[i - 1]})
      OBVIOUS
    <3>1. i \in 1 .. k + 1 /\ i \in 0 .. k /\ i - 1 \in 0 .. k
      OBVIOUS
    <3>2. q[i] = p[i] /\ q[i - 1] = p[i - 1]
      BY <3>1
    <3> QED
      BY <2>1, <3>1, <3>2
  <2>4. p[k] \in nodes
    BY <2>1
  <2>5. p[k] \in Ball(n, k)
    <3> HIDE DEF q
    <3> QED
      BY <2>2, <2>3, <2>4 DEF Ball, Within
  <2>6. k + 1 \in 1 .. k + 1 /\ (k + 1) - 1 = k
    OBVIOUS
  <2>7. m = p[k] \/ m \in Touching({p[k]})
    BY <2>1, <2>6
  <2> QED
    BY <2>5, <2>7 DEF Touching
<1>2. ASSUME NEW m \in Ball(n, k) \cup Touching(Ball(n, k)) PROVE m \in Ball(n, k + 1)
  <2>1. PICK l \in Ball(n, k) : m \in nodes /\ (m = l \/ m \in Touching({l}))
    BY <1>2 DEF Touching, Ball
  <2>2. PICK p \in [0 .. k -> nodes] :
          p[0] = n /\ p[k] = l /\ \A i \in 1 .. k : p[i] = p[i - 1] \/ p[i] \in Touching({p[i - 1]})
    BY <2>1 DEF Ball, Within
  <2> DEFINE q == [i \in 0 .. k + 1 |-> IF i = k + 1 THEN m ELSE p[i]]
  <2>3. q \in [0 .. k + 1 -> nodes] /\ q[0] = n /\ q[k + 1] = m
    BY <2>1, <2>2
  <2>4. ASSUME NEW i \in 1 .. k + 1 PROVE q[i] = q[i - 1] \/ q[i] \in Touching({q[i - 1]})
    <3>1. CASE i = k + 1
      <4>1. i \in 0 .. k + 1 /\ i - 1 = k /\ k \in 0 .. k + 1 /\ k # k + 1
        BY <3>1
      <4>2. q[i] = m /\ q[i - 1] = l
        BY <2>2, <3>1, <4>1
      <4> QED
        BY <2>1, <4>2
    <3>2. CASE i # k + 1
      <4>1. i \in 1 .. k /\ i \in 0 .. k + 1 /\ i - 1 \in 0 .. k + 1 /\ i - 1 # k + 1
        BY <3>2
      <4>2. q[i] = p[i] /\ q[i - 1] = p[i - 1]
        BY <3>2, <4>1
      <4> QED
        BY <2>2, <4>1, <4>2
    <3> QED
      BY <3>1, <3>2
  <2>5. Within(n, m, k + 1)
    <3> HIDE DEF q
    <3> QED
      BY <2>3, <2>4 DEF Within
  <2> QED
    BY <2>1, <2>5 DEF Ball
<1> QED
  BY <1>1, <1>2
-----------------------------------------------------------------------------
(* The walk to the domains, step by step.                                  *)
WalkStates == [seen : SUBSET nodes, frontier : SUBSET nodes]
WalkStep(was) ==
  [seen |-> was.seen \cup (Touching(was.frontier) \ was.seen), frontier |-> Touching(was.frontier) \ was.seen]

(* A walk is its steps, of which there is a function.                      *)
LEMMA WalkSteps ==
  ASSUME MaxDepth \in Nat, NEW n \in nodes
  PROVE  \E w :
           /\ w[0] = [seen |-> {n}, frontier |-> {n}]
           /\ \A i \in 1 .. MaxDepth : w[i] = WalkStep(w[i - 1])
           /\ Walk(n) = w[MaxDepth].seen
<1> DEFINE start == [seen |-> {n}, frontier |-> {n}]
           F == [i \in 1 .. MaxDepth |-> [was \in WalkStates |-> WalkStep(was)]]
           Eq(w) == w = [i \in 0 .. MaxDepth |->
                          IF i = 0 THEN [seen |-> {n}, frontier |-> {n}]
                          ELSE LET was == w[i - 1]
                                   next == Touching(was.frontier) \ was.seen
                               IN [seen |-> was.seen \cup next, frontier |-> next]]
<1>1. start \in WalkStates
  BY DEF WalkStates
<1>2. \A was \in WalkStates : WalkStep(was) \in WalkStates
  BY DEF WalkStates, WalkStep, Touching
<1>3. F \in Stepping(MaxDepth, WalkStates)
  BY <1>2 DEF Stepping
<1>4. PICK g \in [0 .. MaxDepth -> WalkStates] : g[0] = start /\ \A i \in 1 .. MaxDepth : g[i] = F[i][g[i - 1]]
  <2> HIDE DEF start, F, Eq
  <2>1. \E g : Iteration(MaxDepth, WalkStates, start, F, g)
    BY <1>1, <1>3, Iterates
  <2> QED
    BY <2>1 DEF Iteration
<1>5. Eq(g)
  <2>1. ASSUME NEW i \in 1 .. MaxDepth PROVE g[i] = WalkStep(g[i - 1])
    <3>1. g[i - 1] \in WalkStates
      BY <1>4
    <3> QED
      BY <1>4, <3>1
  <2>2. \A i \in 0 .. MaxDepth : i = 0 \/ i \in 1 .. MaxDepth
    OBVIOUS
  <2>3. \A i \in 0 .. MaxDepth :
          g[i] = IF i = 0 THEN start ELSE WalkStep(g[i - 1])
    BY <1>4, <2>1, <2>2, Zenon
  <2>4. g = [i \in 0 .. MaxDepth |-> IF i = 0 THEN start ELSE WalkStep(g[i - 1])]
    <3> HIDE DEF start
    <3> QED
      BY <2>3
  <2> QED
    BY <2>4 DEF WalkStep
<1>6. Walk(n) = (CHOOSE w : Eq(w))[MaxDepth].seen
  BY DEF Walk
<1> QED
  <2>1. PICK w : w = CHOOSE f : Eq(f)
    OBVIOUS
  <2>2. Eq(w)
    <3> HIDE DEF Eq
    <3> QED
      BY <1>5, <2>1
  <2>3. w = [i \in 0 .. MaxDepth |-> IF i = 0 THEN start ELSE WalkStep(w[i - 1])]
    BY <2>2 DEF WalkStep
  <2>4. w[0] = start /\ \A i \in 1 .. MaxDepth : w[i] = WalkStep(w[i - 1])
    <3> HIDE DEF start
    <3> QED
      BY <2>3
  <2> QED
    BY <1>6, <2>1, <2>4

(* A walk to the domains sees what is within its hops.                     *)
LEMMA WalkIsBall ==
  ASSUME MaxDepth \in Nat, NEW n \in nodes
  PROVE  Walk(n) = Ball(n, MaxDepth)
<1>1. PICK w :
        /\ w[0] = [seen |-> {n}, frontier |-> {n}]
        /\ \A i \in 1 .. MaxDepth : w[i] = WalkStep(w[i - 1])
        /\ Walk(n) = w[MaxDepth].seen
  BY WalkSteps
<1> DEFINE Sound(i) == /\ w[i].seen = Ball(n, i)
                       /\ w[i].frontier \subseteq w[i].seen
                       /\ Touching(w[i].seen) \subseteq w[i].seen \cup Touching(w[i].frontier)
           T == {i \in 0 .. MaxDepth : Sound(i)}
<1>2. 0 \in T
  <2>1. w[0].seen = {n} /\ w[0].frontier = {n}
    BY <1>1
  <2>2. Sound(0)
    BY <2>1, BallBase
  <2> HIDE DEF Sound
  <2> QED
    BY <2>2
<1>3. ASSUME NEW i \in 0 .. MaxDepth, i < MaxDepth, i \in T PROVE i + 1 \in T
  <2>1. Sound(i) /\ i \in Nat /\ i + 1 \in 0 .. MaxDepth /\ i + 1 \in 1 .. MaxDepth /\ (i + 1) - 1 = i
    BY <1>3
  <2>2. w[i + 1] = WalkStep(w[i])
    BY <1>1, <2>1
  <2>3. /\ w[i + 1].seen = w[i].seen \cup (Touching(w[i].frontier) \ w[i].seen)
        /\ w[i + 1].frontier = Touching(w[i].frontier) \ w[i].seen
    BY <2>2 DEF WalkStep
  <2>4. Ball(n, i + 1) = Ball(n, i) \cup Touching(Ball(n, i))
    BY <2>1, BallStep
  <2>5. Touching(w[i].frontier) \subseteq Touching(w[i].seen)
    BY <2>1 DEF Touching
  <2>6. w[i + 1].seen = Ball(n, i + 1)
    BY <2>1, <2>3, <2>4, <2>5
  <2>7. Touching(w[i + 1].seen) \subseteq Touching(w[i].seen) \cup Touching(w[i + 1].frontier)
    BY <2>3 DEF Touching
  <2>8. Sound(i + 1)
    BY <2>1, <2>3, <2>6, <2>7
  <2> HIDE DEF Sound
  <2> QED
    BY <2>1, <2>8
<1>4. MaxDepth \in T
  <2> HIDE DEF T
  <2>1. \A i \in 0 .. MaxDepth : i < MaxDepth /\ i \in T => i + 1 \in T
    BY <1>3
  <2>2. \A i \in 0 .. MaxDepth : i \in T
    BY <1>2, <2>1, Upwards, Zenon
  <2>3. MaxDepth \in 0 .. MaxDepth
    OBVIOUS
  <2> QED
    BY <2>2, <2>3
<1> QED
  BY <1>1, <1>4

(* So roots are domains within them,                                       *)
LEMMA RootsAgree ==
  ASSUME MaxDepth \in Nat, NEW n \in nodes, n \notin Domains
  PROVE  RootDomains(n) = {d \in nodes \cap Domains : Within(n, d, MaxDepth)}
BY WalkIsBall DEF RootDomains, Ball

(* and guests are shown what is near a domain of theirs.                   *)
LEMMA GuestsSee ==
  ASSUME MaxDepth \in Nat, TypeOK, NEW n \in nodes, n \notin Domains, NEW u \in Guests, Guests \subseteq Users
  PROVE  n \in Search(u, {n}, Plain, TRUE) <=> \E d \in assigned[u] \cap nodes : Within(n, d, MaxDepth)
<1>1. n \in Plain /\ assigned[u] \subseteq Domains
  BY DEF TypeOK, Ids
<1>2. Listing({n}, Plain, TRUE) = {n}
  BY <1>1 DEF Listing
<1>3. n \in Search(u, {n}, Plain, TRUE) <=> ({n} \cup RootDomains(n)) \cap assigned[u] # {}
  BY <1>2 DEF Search, Visible
<1>4. n \in Search(u, {n}, Plain, TRUE) <=> \E d \in RootDomains(n) : d \in assigned[u]
  BY <1>1, <1>3
<1>5. \A d : d \in RootDomains(n) <=> d \in nodes \cap Domains /\ Within(n, d, MaxDepth)
  BY RootsAgree
<1> QED
  BY <1>1, <1>4, <1>5

(* A page of the graph, or of one type with what its edges lead to, shows   *)
(* both ends of its edges, an edge of each node added, and nothing staged.  *)
LEMMA GraphsClosed ==
  ASSUME TypeOK, NEW type, NEW all \in BOOLEAN, NEW page \in Pages(Listing(nodes, type, all))
  PROVE  LET g == FullGraph(page, type, all)
         IN /\ g.edges \subseteq g.nodes \X g.nodes /\ (all \/ g.nodes \cap staged = {})
            /\ \A m \in g.nodes \ page : \E e \in g.edges : m \in {e[1], e[2]}
<1>1. PICK g : g = FullGraph(page, type, all)
  OBVIOUS
<1>2. \A e \in edges : e = <<e[1], e[2]>>
  BY DEF TypeOK
<1>3. PICK shown : shown = IF type = {} THEN page ELSE page \cup Listing(Touching(page), {}, all)
  OBVIOUS
<1>4. g.nodes = shown /\ g.edges = {e \in edges : {e[1], e[2]} \subseteq shown /\ {e[1], e[2]} \cap page # {}}
  BY <1>1, <1>3 DEF FullGraph
<1>5. page \subseteq Listing(nodes, type, all)
  BY DEF Pages
<1>6. all \/ shown \cap staged = {}
  BY <1>3, <1>5 DEF Listing, Committed
<1>7. g.edges \subseteq shown \X shown
  BY <1>2, <1>4
<1>8. ASSUME NEW m \in shown \ page PROVE \E e \in g.edges : m \in {e[1], e[2]}
  <2>1. m \in Touching(page) /\ page \subseteq shown
    BY <1>3 DEF Listing
  <2>2. PICK k \in page : <<m, k>> \in edges \/ <<k, m>> \in edges
    BY <2>1 DEF Touching
  <2>3. CASE <<m, k>> \in edges
    <3>1. <<m, k>> \in g.edges
      BY <1>4, <2>1, <2>3
    <3> QED BY <3>1
  <2>4. CASE <<k, m>> \in edges
    <3>1. <<k, m>> \in g.edges
      BY <1>4, <2>1, <2>4
    <3> QED BY <3>1
  <2> QED BY <2>2, <2>3, <2>4
<1> QED
  BY <1>1, <1>4, <1>6, <1>7, <1>8

(* The totals of a workspace are those of its listing just when the page    *)
(* holds all of it.                                                         *)
LEMMA TotalsAgree ==
  ASSUME TypeOK, IsFiniteSet(Ids), NEW w \in Spaces, NEW all \in BOOLEAN,
         NEW page \in Pages(Listing(nodes, {}, all))
  PROVE  LET g == OfSpace(page, w, all)
         IN Summary(w, all) = Totals(g.nodes, g.edges) <=> InSpace(w, all) \subseteq page
<1>1. PICK g, M : g = OfSpace(page, w, all) /\ M = InSpace(w, all)
  OBVIOUS
<1>2. page \subseteq Listing(nodes, {}, all) /\ nodes \subseteq Ids
  BY DEF Pages, TypeOK
<1>3. M = {n \in Listing(nodes, {}, all) : w \in spaces[n]} /\ M \subseteq Ids
  BY <1>1, <1>2 DEF InSpace, Listing
<1>4. /\ FullGraph(page, {}, all).nodes = page
      /\ FullGraph(page, {}, all).edges = {e \in edges : {e[1], e[2]} \subseteq page /\ {e[1], e[2]} \cap page # {}}
  BY DEF FullGraph
<1>5. g.nodes = M \cap page
  BY <1>1, <1>2, <1>3, <1>4 DEF OfSpace
<1>6. g.edges = Between(g.nodes)
  BY <1>1, <1>4, <1>5 DEF OfSpace, Between
<1>7. M \subseteq page => g.nodes = M
  BY <1>5
<1>8. Cardinality(g.nodes) = Cardinality(M) => M \subseteq page
  <2>1. IsFiniteSet(M)
    BY <1>3, FS_Subset
  <2>2. g.nodes \in SUBSET M
    BY <1>5
  <2>3. Cardinality(g.nodes) = Cardinality(M) => g.nodes = M
    BY <2>1, <2>2, FS_Subset
  <2> QED BY <1>5, <2>3
<1>9. Summary(w, all) = Totals(M, Between(M))
  BY <1>1 DEF Summary
<1>10. Totals(M, Between(M)) = Totals(g.nodes, Between(g.nodes)) => Cardinality(g.nodes) = Cardinality(M)
  BY DEF Totals
<1> QED
  BY <1>1, <1>6, <1>7, <1>8, <1>9, <1>10

(* The walk of readers.                                                    *)
Open(all) == IF all THEN nodes ELSE Committed
Near(all, m) == {k \in Open(all) : <<m, k>> \in edges \/ <<k, m>> \in edges}
SightStates == [seen : SUBSET Ids, frontier : SUBSET Ids, edges : SUBSET edges]
SightStep(all, was) ==
  [seen |-> was.seen \cup was.frontier,
   frontier |-> (UNION {Near(all, m) : m \in was.frontier}) \ (was.seen \cup was.frontier),
   edges |-> was.edges \cup {e \in edges : \/ e[1] \in was.frontier /\ e[2] \in Open(all)
                                           \/ e[2] \in was.frontier /\ e[1] \in Open(all)}]

(* It takes two steps.                                                     *)
LEMMA SightSteps ==
  ASSUME NEW n \in Ids, NEW all \in BOOLEAN, nodes \subseteq Ids
  PROVE  \E w :
           /\ w[0] = [seen |-> {}, frontier |-> {n}, edges |-> {}]
           /\ w[1] = SightStep(all, w[0]) /\ w[2] = SightStep(all, w[1])
           /\ Neighbors(n, 2, all) =
                [nodes |-> (w[2].seen \cup w[2].frontier) \cap Open(all), edges |-> w[2].edges]
<1> DEFINE start == [seen |-> {}, frontier |-> {n}, edges |-> {}]
           F == [i \in 1 .. 2 |-> [was \in SightStates |-> SightStep(all, was)]]
           Eq(w) == w = [i \in 0 .. 2 |->
                          IF i = 0 THEN [seen |-> {}, frontier |-> {n}, edges |-> {}]
                          ELSE LET was == w[i - 1]
                                   seen == was.seen \cup was.frontier
                               IN [seen |-> seen,
                                   frontier |-> (UNION {{k \in IF all THEN nodes ELSE Committed :
                                                          <<m, k>> \in edges \/ <<k, m>> \in edges}
                                                       : m \in was.frontier}) \ seen,
                                   edges |-> was.edges \cup
                                     {e \in edges : \/ e[1] \in was.frontier /\ e[2] \in IF all THEN nodes ELSE Committed
                                                    \/ e[2] \in was.frontier /\ e[1] \in IF all THEN nodes ELSE Committed}]]
<1>1. start \in SightStates
  BY DEF SightStates
<1>2. \A was \in SightStates : SightStep(all, was) \in SightStates
  <2> SUFFICES ASSUME NEW was \in SightStates PROVE SightStep(all, was) \in SightStates
    OBVIOUS
  <2>1. UNION {Near(all, m) : m \in was.frontier} \subseteq Ids
    BY DEF Near, Open, Committed
  <2>2. {e \in edges : \/ e[1] \in was.frontier /\ e[2] \in Open(all)
                       \/ e[2] \in was.frontier /\ e[1] \in Open(all)} \subseteq edges
    OBVIOUS
  <2>3. was.seen \subseteq Ids /\ was.frontier \subseteq Ids /\ was.edges \subseteq edges
    BY DEF SightStates
  <2> QED
    BY <2>1, <2>2, <2>3 DEF SightStates, SightStep
<1>3. F \in Stepping(2, SightStates)
  BY <1>2 DEF Stepping
<1>4. PICK g \in [0 .. 2 -> SightStates] : g[0] = start /\ \A i \in 1 .. 2 : g[i] = F[i][g[i - 1]]
  <2> HIDE DEF start, F, Eq
  <2>1. 2 \in Nat
    OBVIOUS
  <2>2. \E g : Iteration(2, SightStates, start, F, g)
    BY <1>1, <1>3, <2>1, Iterates
  <2> QED
    BY <2>2 DEF Iteration
<1>5. Eq(g)
  <2>1. ASSUME NEW i \in 1 .. 2 PROVE g[i] = SightStep(all, g[i - 1])
    <3>1. g[i - 1] \in SightStates
      BY <1>4
    <3> QED
      BY <1>4, <3>1
  <2>2. \A i \in 0 .. 2 : i = 0 \/ i \in 1 .. 2
    OBVIOUS
  <2>3. \A i \in 0 .. 2 : g[i] = IF i = 0 THEN start ELSE SightStep(all, g[i - 1])
    BY <1>4, <2>1, <2>2, Zenon
  <2>4. g = [i \in 0 .. 2 |-> IF i = 0 THEN start ELSE SightStep(all, g[i - 1])]
    <3> HIDE DEF start
    <3> QED
      BY <2>3
  <2> QED
    BY <2>4, Zenon DEF SightStep, Near, Open
<1>6. Neighbors(n, 2, all) =
        LET w == CHOOSE f : Eq(f)
        IN  [nodes |-> (w[2].seen \cup w[2].frontier) \cap Open(all), edges |-> w[2].edges]
  BY Zenon DEF Neighbors, Open
<1> QED
  <2>1. PICK w : w = CHOOSE f : Eq(f)
    OBVIOUS
  <2>2. Eq(w)
    <3> HIDE DEF Eq
    <3> QED
      BY <1>5, <2>1
  <2>3. w = [i \in 0 .. 2 |-> IF i = 0 THEN start ELSE SightStep(all, w[i - 1])]
    BY <2>2, Zenon DEF SightStep, Near, Open
  <2>4. w[0] = start /\ w[1] = SightStep(all, w[0]) /\ w[2] = SightStep(all, w[1])
    <3> HIDE DEF start
    <3> QED
      BY <2>3
  <2> QED
    BY <1>6, <2>1, <2>4

(* What it shows is closed under its edges, but for where it starts.       *)
LEMMA SightClosed ==
  ASSUME TypeOK, NEW n \in nodes, NEW all \in BOOLEAN
  PROVE  LET g == Neighbors(n, 2, all)
         IN /\ g.edges \subseteq (g.nodes \cup {n}) \X (g.nodes \cup {n})
            /\ n \in g.nodes <=> all \/ n \notin staged
<1>1. n \in Ids /\ nodes \subseteq Ids /\ (n \in Open(all) <=> all \/ n \notin staged)
      /\ \A e \in edges : e = <<e[1], e[2]>>
  BY DEF TypeOK, Open, Committed
<1>2. PICK w :
        /\ w[0] = [seen |-> {}, frontier |-> {n}, edges |-> {}]
        /\ w[1] = SightStep(all, w[0]) /\ w[2] = SightStep(all, w[1])
        /\ Neighbors(n, 2, all) =
             [nodes |-> (w[2].seen \cup w[2].frontier) \cap Open(all), edges |-> w[2].edges]
  BY <1>1, SightSteps
<1>3. PICK b, c, g : b = w[1] /\ c = w[2] /\ g = Neighbors(n, 2, all)
  OBVIOUS
<1>4. /\ b.seen = {n} /\ b.frontier = Near(all, n) \ {n}
      /\ b.edges = {e \in edges : (e[1] = n /\ e[2] \in Open(all)) \/ (e[2] = n /\ e[1] \in Open(all))}
  BY <1>2, <1>3 DEF SightStep
<1>5. /\ c.seen = b.seen \cup b.frontier
      /\ c.frontier = (UNION {Near(all, m) : m \in b.frontier}) \ (b.seen \cup b.frontier)
      /\ c.edges = b.edges \cup {e \in edges : (e[1] \in b.frontier /\ e[2] \in Open(all))
                                              \/ (e[2] \in b.frontier /\ e[1] \in Open(all))}
  BY <1>2, <1>3 DEF SightStep
<1>6. g.nodes = (c.seen \cup c.frontier) \cap Open(all) /\ g.edges = c.edges
  BY <1>2, <1>3
<1> DEFINE S == g.nodes \cup {n}
<1>7. n \in S /\ Near(all, n) \subseteq S /\ b.frontier \subseteq S
  <2>1. \A k \in b.frontier : k \in g.nodes
    BY <1>4, <1>5, <1>6 DEF Near
  <2>2. \A k \in Near(all, n) : k = n \/ k \in b.frontier
    BY <1>4
  <2> QED BY <2>1, <2>2
<1>8. \A m \in b.frontier : Near(all, m) \subseteq S
  <2>1. \A m \in b.frontier : Near(all, m) \subseteq g.nodes
    BY <1>5, <1>6 DEF Near
  <2> QED BY <2>1
<1>11. n \in g.nodes <=> all \/ n \notin staged
  <2>1. n \in g.nodes <=> n \in Open(all)
    BY <1>4, <1>5, <1>6
  <2> QED BY <1>1, <2>1, Zenon
<1> HIDE DEF S
<1>9. ASSUME NEW e \in c.edges PROVE e[1] \in S /\ e[2] \in S
  <2>1. e \in edges /\ e = <<e[1], e[2]>>
    BY <1>1, <1>4, <1>5
  <2>2. \A m : /\ e[1] = m /\ e[2] \in Open(all) => e[2] \in Near(all, m)
               /\ e[2] = m /\ e[1] \in Open(all) => e[1] \in Near(all, m)
    BY <2>1 DEF Near
  <2>3. CASE e \in b.edges
    BY <1>4, <1>7, <2>2, <2>3
  <2>4. CASE \/ e[1] \in b.frontier /\ e[2] \in Open(all)
             \/ e[2] \in b.frontier /\ e[1] \in Open(all)
    BY <1>7, <1>8, <2>2, <2>4
  <2> QED
    BY <1>5, <2>3, <2>4
<1>10. c.edges \subseteq S \X S
  <2>1. \A e \in c.edges : e = <<e[1], e[2]>>
    BY <1>1, <1>4, <1>5
  <2> QED
    BY <1>9, <2>1
<1> QED
  BY <1>3, <1>6, <1>10, <1>11 DEF S

(* Together.                                                               *)
LEMMA ViewsHold == TypeOK /\ Guests \subseteq Users /\ MaxDepth \in Nat /\ IsFiniteSet(Ids) => ViewsAgree
<1> SUFFICES ASSUME TypeOK, Guests \subseteq Users, MaxDepth \in Nat, IsFiniteSet(Ids) PROVE ViewsAgree
  OBVIOUS
<1>1. ASSUME NEW n \in nodes, n \notin Domains
      PROVE  RootDomains(n) = {d \in nodes \cap Domains : Within(n, d, MaxDepth)}
  BY <1>1, RootsAgree
<1>2. ASSUME NEW n \in nodes, NEW all \in BOOLEAN
      PROVE  LET g == Neighbors(n, 2, all)
             IN /\ g.edges \subseteq (g.nodes \cup {n}) \X (g.nodes \cup {n})
                /\ n \in g.nodes <=> all \/ n \notin staged
  BY <1>2, SightClosed
<1>3. ASSUME NEW n \in nodes, n \notin Domains, NEW u \in Guests
      PROVE  n \in Search(u, {n}, Plain, TRUE) <=> \E d \in assigned[u] \cap nodes : Within(n, d, MaxDepth)
  BY <1>3, GuestsSee
<1>4. ASSUME NEW type \in {{}, Domains, Plain}, NEW all \in BOOLEAN, NEW page \in Pages(Listing(nodes, type, all))
      PROVE  LET g == FullGraph(page, type, all)
             IN /\ g.edges \subseteq g.nodes \X g.nodes /\ (all \/ g.nodes \cap staged = {})
                /\ \A m \in g.nodes \ page : \E e \in g.edges : m \in {e[1], e[2]}
  BY <1>4, GraphsClosed
<1>5. ASSUME NEW w \in Spaces, NEW all \in BOOLEAN, NEW page \in Pages(Listing(nodes, {}, all))
      PROVE  LET g == OfSpace(page, w, all)
             IN Summary(w, all) = Totals(g.nodes, g.edges) <=> InSpace(w, all) \subseteq page
  BY <1>5, TotalsAgree
<1> QED
  BY <1>1, <1>2, <1>3, <1>4, <1>5 DEF ViewsAgree

(* The roots of a node are the domains within MaxDepth hops, by the         *)
(* definition of distance, what a reader is shown is closed under its edges, *)
(* and counted totals are those of a listing just when all of the workspace *)
(* is on its page, in every graph that can be reached                       *)
(* (src/knowledge/routes.py:1214).                                          *)
THEOREM ViewsAlwaysAgree == ASSUME IsFiniteSet(Ids) PROVE Spec => []ViewsAgree
<1>1. Guests \subseteq Users /\ MaxDepth \in Nat
  BY ScopesAssumption
<1>2. TypeOK => ViewsAgree
  BY <1>1, ViewsHold
<1> QED
  BY <1>2, TypeCorrect, PTL

-----------------------------------------------------------------------------
(* The maintenance of the graph (MCContemplation), for any seeds and any   *)
(* number of workers, editors, runs and edits.                             *)
LEMMA GraphConstants ==
  /\ N \in Nat /\ MaxWeight \in Nat /\ MaxAffected \in Nat /\ MaxRuns \in Nat
  /\ DomainNodes \subseteq Maint!Nodes /\ Supersedes \in [Maint!Nodes -> 0 .. N]
  /\ Seeds \subseteq Maint!Graph /\ \A g \in Seeds : Maint!Attached(g)
  /\ Maint!None \notin Workers
BY GraphConstantsAssumption

LEMMA SameCardinality == \A S : Maint!Cardinality(S) = Cardinality(S)
BY Zenon DEF Cardinality, Maint!Cardinality

(* A graph by its columns.                                                 *)
LEMMA Columns ==
  ASSUME NEW g \in Maint!Graph
  PROVE  /\ g.status \in [Maint!Nodes -> {"unborn", "staged", "committed", "gone"}]
         /\ g.content \in [Maint!Nodes -> Seq(Maint!Facts)]
         /\ g.ws \in [Maint!Nodes -> SUBSET Workspaces]
         /\ g.sup \in [Maint!Nodes -> 0 .. N]
         /\ g.edge \in [Maint!Triples -> 0 .. MaxWeight]
BY DEF Maint!Graph

LEMMA AsGraph ==
  ASSUME NEW s \in [Maint!Nodes -> {"unborn", "staged", "committed", "gone"}],
         NEW c \in [Maint!Nodes -> Seq(Maint!Facts)], NEW w \in [Maint!Nodes -> SUBSET Workspaces],
         NEW p \in [Maint!Nodes -> 0 .. N], NEW e \in [Maint!Triples -> 0 .. MaxWeight]
  PROVE  [status |-> s, content |-> c, ws |-> w, sup |-> p, edge |-> e] \in Maint!Graph
BY DEF Maint!Graph

LEMMA EndsOf ==
  ASSUME NEW e \in Maint!Triples
  PROVE  /\ e[1] \in Maint!Nodes /\ e[2] \in Maint!Nodes /\ e[3] \in EdgeTypes
         /\ \A n \in Maint!Nodes : <<n, e[2], e[3]>> \in Maint!Triples /\ <<e[1], n, e[3]>> \in Maint!Triples
BY DEF Maint!Triples

(* Rewiring gives nodes that are there edges they had, or another's.       *)
LEMMA RewiredFacts ==
  ASSUME MaxWeight \in Nat, NEW edge \in [Maint!Triples -> 0 .. MaxWeight], NEW s \in Maint!Nodes, NEW a \in Maint!Nodes
  PROVE  /\ Maint!Rewired(edge, s, a) \in [Maint!Triples -> 0 .. MaxWeight]
         /\ \A e \in Maint!Triples : Maint!Rewired(edge, s, a)[e] > 0 =>
              /\ a \notin {e[1], e[2]}
              /\ e[1] # s => edge[e] > 0 \/ \E f \in Maint!Triples : edge[f] > 0 /\ f[1] = e[1]
              /\ e[2] # s => edge[e] > 0 \/ \E f \in Maint!Triples : edge[f] > 0 /\ f[2] = e[2]
<1> DEFINE R == Maint!Rewired(edge, s, a)
<1>1. ASSUME NEW e \in Maint!Triples
      PROVE  /\ R[e] \in 0 .. MaxWeight
             /\ R[e] > 0 =>
                  /\ a \notin {e[1], e[2]}
                  /\ e[1] # s => edge[e] > 0 \/ \E f \in Maint!Triples : edge[f] > 0 /\ f[1] = e[1]
                  /\ e[2] # s => edge[e] > 0 \/ \E f \in Maint!Triples : edge[f] > 0 /\ f[2] = e[2]
  <2>1. PICK x, y, z : x = e /\ y = <<a, e[2], e[3]>> /\ z = <<e[1], a, e[3]>>
    OBVIOUS
  <2>2. x \in Maint!Triples /\ y \in Maint!Triples /\ z \in Maint!Triples /\ y[2] = e[2] /\ z[1] = e[1]
    BY <2>1, EndsOf
  <2>3. edge[x] \in 0 .. MaxWeight /\ edge[y] \in 0 .. MaxWeight /\ edge[z] \in 0 .. MaxWeight
    BY <2>2
  <2>4. CASE a \in {e[1], e[2]}
    <3>1. R[e] = 0
      BY <2>4 DEF Maint!Rewired
    <3> QED
      BY <3>1
  <2>5. CASE a \notin {e[1], e[2]} /\ s = e[1] /\ s # e[2]
    <3>1. R[e] = Maint!Larger(edge[x], edge[y])
      BY <2>1, <2>5 DEF Maint!Rewired
    <3> QED
      BY <2>1, <2>2, <2>3, <2>5, <3>1 DEF Maint!Larger
  <2>6. CASE a \notin {e[1], e[2]} /\ s = e[2] /\ s # e[1]
    <3>1. R[e] = Maint!Larger(edge[x], edge[z])
      BY <2>1, <2>6 DEF Maint!Rewired
    <3> QED
      BY <2>1, <2>2, <2>3, <2>6, <3>1 DEF Maint!Larger
  <2>7. CASE a \notin {e[1], e[2]} /\ ~(s = e[1] /\ s # e[2]) /\ ~(s = e[2] /\ s # e[1])
    <3>1. R[e] = edge[e]
      BY <2>7 DEF Maint!Rewired
    <3> QED
      BY <2>1, <2>3, <2>7, <3>1
  <2> QED
    BY <2>4, <2>5, <2>6, <2>7
<1>2. DOMAIN R = Maint!Triples /\ R = [e \in Maint!Triples |-> R[e]]
  BY DEF Maint!Rewired
<1> QED
  BY <1>1, <1>2

Rests(edge, e, s, a) ==
  /\ a \notin {e[1], e[2]}
  /\ e[1] # s => edge[e] > 0 \/ \E f \in Maint!Triples : edge[f] > 0 /\ f[1] = e[1]
  /\ e[2] # s => edge[e] > 0 \/ \E f \in Maint!Triples : edge[f] > 0 /\ f[2] = e[2]

LEMMA RewiredRests ==
  ASSUME MaxWeight \in Nat, NEW edge \in [Maint!Triples -> 0 .. MaxWeight], NEW s \in Maint!Nodes, NEW a \in Maint!Nodes,
         NEW e \in Maint!Triples, Maint!Rewired(edge, s, a)[e] > 0
  PROVE  Rests(edge, e, s, a)
BY RewiredFacts DEF Rests

IsGraph(g) == g \in Maint!Graph /\ Maint!Attached(g)

LEMMA AttachedEnds ==
  ASSUME NEW g, Maint!Attached(g), NEW e \in Maint!Triples, g.edge[e] > 0
  PROVE  e[1] \in Maint!Alive(g) /\ e[2] \in Maint!Alive(g)
BY DEF Maint!Attached

LEMMA AbsorbedIsGraph ==
  ASSUME NEW g, IsGraph(g), NEW c \in Maint!Nodes, NEW n \in Maint!Nodes, NEW b \in BOOLEAN
  PROVE  IsGraph(Maint!Absorbed(g, c, n, b))
<1> DEFINE status == [g.status EXCEPT ![c] = "committed", ![n] = "gone"]
           content == [g.content EXCEPT ![c] = IF b THEN g.content[n] ELSE Maint!Joined(@, g.content[n])]
           ws == [g.ws EXCEPT ![c] = @ \cup g.ws[n]]
           sup == [g.sup EXCEPT ![c] = IF @ = 0 THEN g.sup[n] ELSE @]
           edge == Maint!Rewired(g.edge, c, n)
<1>1. PICK h : h = Maint!Absorbed(g, c, n, b)
  OBVIOUS
<1>2. h = [status |-> status, content |-> content, ws |-> ws, sup |-> sup, edge |-> edge]
  BY <1>1 DEF Maint!Absorbed
<1>3. /\ g.status \in [Maint!Nodes -> {"unborn", "staged", "committed", "gone"}]
      /\ g.content \in [Maint!Nodes -> Seq(Maint!Facts)]
      /\ g.ws \in [Maint!Nodes -> SUBSET Workspaces]
      /\ g.sup \in [Maint!Nodes -> 0 .. N]
      /\ g.edge \in [Maint!Triples -> 0 .. MaxWeight]
  BY Columns DEF IsGraph
<1>4. status \in [Maint!Nodes -> {"unborn", "staged", "committed", "gone"}]
  BY <1>3
<1>5. content \in [Maint!Nodes -> Seq(Maint!Facts)]
  <2>1. g.content[n] \in Seq(Maint!Facts) /\ g.content[c] \in Seq(Maint!Facts)
    BY <1>3
  <2>2. g.content[c] \o g.content[n] \in Seq(Maint!Facts)
    BY <2>1
  <2>3. Maint!Joined(g.content[c], g.content[n]) \in Seq(Maint!Facts)
    BY <2>1, <2>2 DEF Maint!Joined
  <2> QED
    BY <1>3, <2>1, <2>3
<1>6. ws \in [Maint!Nodes -> SUBSET Workspaces] /\ sup \in [Maint!Nodes -> 0 .. N]
  BY <1>3
<1>7. edge \in [Maint!Triples -> 0 .. MaxWeight]
  BY <1>3, RewiredFacts, GraphConstants
<1>8. h \in Maint!Graph
  <2> HIDE DEF status, content, ws, sup, edge
  <2> QED
    BY <1>2, <1>4, <1>5, <1>6, <1>7, AsGraph
<1>9. h.status = status /\ h.edge = edge
  BY <1>2
<1>10. \A m \in Maint!Nodes : m # n /\ (m = c \/ m \in Maint!Alive(g)) => m \in Maint!Alive(h)
  BY <1>3, <1>9 DEF Maint!Alive
<1>11. ASSUME NEW e \in Maint!Triples, h.edge[e] > 0 PROVE {e[1], e[2]} \subseteq Maint!Alive(h)
  <2>1. e[1] \in Maint!Nodes /\ e[2] \in Maint!Nodes
    BY EndsOf
  <2>2. /\ n \notin {e[1], e[2]}
        /\ e[1] # c => g.edge[e] > 0 \/ \E f \in Maint!Triples : g.edge[f] > 0 /\ f[1] = e[1]
        /\ e[2] # c => g.edge[e] > 0 \/ \E f \in Maint!Triples : g.edge[f] > 0 /\ f[2] = e[2]
    <3>1. PICK f : f = g.edge
      OBVIOUS
    <3>2. f \in [Maint!Triples -> 0 .. MaxWeight] /\ MaxWeight \in Nat
      BY <1>3, <3>1, GraphConstants
    <3>3. Maint!Rewired(f, c, n)[e] > 0
      BY <1>9, <1>11, <3>1
    <3>4. /\ n \notin {e[1], e[2]}
          /\ e[1] # c => f[e] > 0 \/ \E d \in Maint!Triples : f[d] > 0 /\ d[1] = e[1]
          /\ e[2] # c => f[e] > 0 \/ \E d \in Maint!Triples : f[d] > 0 /\ d[2] = e[2]
      <4> HIDE DEF edge, status, content, ws, sup
      <4> QED
        BY <3>2, <3>3, RewiredFacts
    <3> QED
      BY <3>1, <3>4
  <2>3. (e[1] # c => e[1] \in Maint!Alive(g)) /\ (e[2] # c => e[2] \in Maint!Alive(g))
    BY <2>2, AttachedEnds DEF IsGraph
  <2> QED
    BY <1>10, <2>1, <2>2, <2>3
<1> QED
  BY <1>1, <1>8, <1>11 DEF IsGraph, Maint!Attached

-----------------------------------------------------------------------------
(* Reconciliation: a state of it, and that every step leads to another.    *)
Coherent(x) ==
  /\ IsGraph(x.graph)
  /\ x.affected \subseteq Maint!Nodes /\ Maint!Cardinality(x.affected) <= MaxAffected
  /\ x.into \in [Maint!Nodes -> Maint!Nodes]
  /\ \A n \in Maint!Nodes : x.into[n] # n => n \in x.affected /\ x.into[n] \in x.affected

Texts == {TitleOf[n] : n \in Maint!Nodes} \X Seq(Maint!Facts)

Works(t, r) ==
  {x \in [graph : Maint!Graph, texts : SUBSET (t \cup Texts), roots : {r}, affected : SUBSET Maint!Nodes, deferred : SUBSET Maint!Nodes,
          changed : SUBSET Maint!Nodes, into : [Maint!Nodes -> Maint!Nodes], replaced : SUBSET Maint!Nodes] : Coherent(x)}

LEMMA DeferredWorks ==
  ASSUME NEW t, NEW r, NEW x \in Works(t, r), NEW n \in Maint!Nodes
  PROVE  Maint!Deferred(x, n) \in Works(t, r)
BY DEF Works, Maint!Deferred, Coherent

LEMMA PromoteWorks ==
  ASSUME NEW t, NEW r, NEW x \in Works(t, r), NEW n \in Maint!Nodes
  PROVE  Maint!Promote(x, n) \in Works(t, r)
<1>1. PICK g, h : g = x.graph /\ h = [g EXCEPT !.status[n] = "committed"]
  OBVIOUS
<1>2. g \in Maint!Graph /\ Maint!Attached(g)
  BY <1>1 DEF Works, Coherent, IsGraph
<1>3. h \in Maint!Graph /\ h.edge = g.edge /\ h.status = [g.status EXCEPT ![n] = "committed"]
  BY <1>1, <1>2 DEF Maint!Graph
<1>4. Maint!Alive(g) \subseteq Maint!Alive(h)
  BY <1>2, <1>3 DEF Maint!Alive, Maint!Graph
<1>5. IsGraph(h)
  BY <1>2, <1>3, <1>4 DEF IsGraph, Maint!Attached
<1>6. Maint!Promote(x, n) = [x EXCEPT !.graph = h]
  BY <1>1 DEF Maint!Promote
<1> QED
  BY <1>3, <1>5, <1>6 DEF Works, Coherent

LEMMA NodesFinite == IsFiniteSet(Maint!Nodes)
BY FS_Interval, SameCardinality, GraphConstants DEF Maint!Nodes

LEMMA MergeWorks ==
  ASSUME NEW t, NEW r, NEW x \in Works(t, r), NEW c \in Maint!Nodes, NEW n \in Maint!Nodes, NEW b \in BOOLEAN
  PROVE  Maint!Merge(x, c, n, b) \in Works(t, r)
<1>1. CASE Maint!Cardinality(x.affected \cup {c, n}) > MaxAffected
  BY <1>1, DeferredWorks DEF Maint!Merge
<1>2. CASE ~(Maint!Cardinality(x.affected \cup {c, n}) > MaxAffected)
  <2>1. PICK g, a, i, p : g = Maint!Absorbed(x.graph, c, n, b) /\ a = x.affected \cup {c, n} /\ i = [x.into EXCEPT ![n] = c]
                          /\ p = IF b THEN x.replaced \cup Maint!OfHeir(x, c) ELSE x.replaced
    OBVIOUS
  <2>2. Maint!Merge(x, c, n, b) = [x EXCEPT !.graph = g, !.affected = a, !.changed = @ \cup {c}, !.into = i, !.replaced = p]
    BY <1>2, <2>1 DEF Maint!Merge, Works
  <2>3. IsGraph(g)
    BY <2>1, AbsorbedIsGraph DEF Works, Coherent
  <2>4. x.affected \subseteq Maint!Nodes /\ x.into \in [Maint!Nodes -> Maint!Nodes] /\ x.replaced \subseteq Maint!Nodes
    BY DEF Works
  <2>5. a \subseteq Maint!Nodes /\ Maint!Cardinality(a) <= MaxAffected
    <3>1. a \subseteq Maint!Nodes /\ IsFiniteSet(a)
      BY <2>1, <2>4, NodesFinite, FS_Subset, SameCardinality
    <3>2. Maint!Cardinality(a) \in Nat
      BY <3>1, FS_CardinalityType, SameCardinality
    <3> QED
      BY <1>2, <2>1, <3>1, <3>2, GraphConstants
  <2>6. i \in [Maint!Nodes -> Maint!Nodes] /\ \A m \in Maint!Nodes : i[m] # m => m \in a /\ i[m] \in a
    BY <2>1, <2>4 DEF Works, Coherent
  <2>7. p \subseteq Maint!Nodes
    BY <2>1, <2>4 DEF Maint!OfHeir
  <2>8. PICK y : y = Maint!Merge(x, c, n, b)
    OBVIOUS
  <2>9. y.graph = g /\ y.affected = a /\ y.into = i
    BY <2>2, <2>8 DEF Works
  <2>10. Coherent(y)
    BY <2>3, <2>5, <2>6, <2>9 DEF Coherent
  <2>11. g \in Maint!Graph
    BY <2>3 DEF IsGraph
  <2>12. y \in [graph : Maint!Graph, texts : SUBSET (t \cup Texts), roots : {r}, affected : SUBSET Maint!Nodes, deferred : SUBSET Maint!Nodes,
          changed : SUBSET Maint!Nodes, into : [Maint!Nodes -> Maint!Nodes], replaced : SUBSET Maint!Nodes]
    <3>1. PICK k : k = x.changed \cup {c}
      OBVIOUS
    <3>2. k \subseteq Maint!Nodes /\ x.deferred \subseteq Maint!Nodes /\ x.texts \subseteq t \cup Texts /\ x.roots \in {r}
      BY <3>1 DEF Works
    <3>3. y = [graph |-> g, texts |-> x.texts, roots |-> x.roots, affected |-> a, deferred |-> x.deferred,
               changed |-> k, into |-> i, replaced |-> p]
      BY <2>2, <2>8, <3>1 DEF Works
    <3> QED
      BY <2>5, <2>6, <2>7, <2>11, <3>2, <3>3
  <2> QED
    BY <2>8, <2>10, <2>12 DEF Works
<1> QED
  BY <1>1, <1>2

LEMMA LeastIn ==
  ASSUME NEW S, S \subseteq Nat, S # {}
  PROVE  Maint!Min(S) \in S
<1>1. PICK n \in S : \A i \in S : ~(<<i, n>> \in OpToRel(<, Nat))
  BY NatLessThanWellFounded, WFMin
<1>2. \A i \in S : ~(i < n)
  BY <1>1 DEF OpToRel
<1>3. \A i \in S : n =< i
  BY <1>2
<1> QED
  BY <1>3 DEF Maint!Min

(* What a comparison has embedded.                                         *)
LEMMA ComparedWorks ==
  ASSUME NEW t, NEW r, NEW x \in Works(t, r), NEW S \in SUBSET Maint!Nodes
  PROVE  [x EXCEPT !.texts = Maint!Known(x, S)] \in Works(t, r)
<1>1. PICK k : k = Maint!Known(x, S)
  OBVIOUS
<1>2. x.graph \in Maint!Graph /\ x.texts \subseteq t \cup Texts
  BY DEF Works
<1>3. ASSUME NEW c \in Maint!Nodes PROVE Maint!Text(x.graph, c) \in Texts
  <2>1. x.graph.content[c] \in Seq(Maint!Facts)
    BY <1>2, Columns
  <2> QED
    BY <2>1 DEF Texts, Maint!Text
<1>4. k \subseteq t \cup Texts
  <2>1. {Maint!Text(x.graph, c) : c \in S \cap x.changed} \subseteq Texts
    BY <1>3
  <2> QED
    BY <1>1, <1>2, <2>1 DEF Maint!Known
<1>5. PICK y : y = [x EXCEPT !.texts = k]
  OBVIOUS
<1>6. y \in [graph : Maint!Graph, texts : SUBSET (t \cup Texts), roots : {r}, affected : SUBSET Maint!Nodes, deferred : SUBSET Maint!Nodes,
             changed : SUBSET Maint!Nodes, into : [Maint!Nodes -> Maint!Nodes], replaced : SUBSET Maint!Nodes]
  BY <1>4, <1>5 DEF Works
<1>7. y.graph = x.graph /\ y.affected = x.affected /\ y.into = x.into
  BY <1>5 DEF Works
<1>8. Coherent(y)
  BY <1>7 DEF Works, Coherent
<1> QED
  BY <1>1, <1>5, <1>6, <1>8 DEF Works

(* What matching n does, with what it has embedded.                        *)
LEMMA Matches ==
  ASSUME NEW t, NEW r, NEW x \in Works(t, r), NEW n \in Maint!Nodes
  PROVE  \E y \in Works(t, r) :
           /\ y.graph = x.graph /\ y.into = x.into /\ y.roots = x.roots /\ y.replaced = x.replaced
           /\ \/ Maint!Match(x, n) = x
              \/ Maint!Match(x, n) = Maint!Deferred(y, n)
              \/ \E c \in Maint!Candidates(x, n) : /\ Maint!Compatible(x, c, n)
                                                  /\ Maint!Match(x, n) = Maint!Merge(y, c, n, FALSE)
<1>1. PICK fit : fit = {c \in Maint!Candidates(x, n) : Maint!Compatible(x, c, n) /\ Maint!Similar(x, c, n)}
  OBVIOUS
<1>2. fit \subseteq Nat
  BY <1>1 DEF Maint!Candidates, Maint!Nodes
<1>3. fit # {} => Maint!Min(fit) \in fit
  BY <1>2, LeastIn
<1>4. PICK S : S = Maint!Compared(x, IF fit = {} THEN N ELSE Maint!Min(fit), n)
  OBVIOUS
<1>5. S \in SUBSET Maint!Nodes
  BY <1>4 DEF Maint!Compared, Maint!Candidates
<1>6. PICK y : y = [x EXCEPT !.texts = Maint!Known(x, S)]
  OBVIOUS
<1>7. y \in Works(t, r)
  BY <1>5, <1>6, ComparedWorks
<1>8. y.graph = x.graph /\ y.into = x.into /\ y.roots = x.roots /\ y.replaced = x.replaced
  BY <1>6 DEF Works
<1>9. Maint!Match(x, n) = IF fit # {} THEN Maint!Merge(y, Maint!Min(fit), n, FALSE)
                         ELSE IF Maint!Candidates(x, n) # {} THEN Maint!Deferred(y, n) ELSE x
  BY <1>1, <1>4, <1>6 DEF Maint!Match
<1>10. \/ Maint!Match(x, n) = x
       \/ Maint!Match(x, n) = Maint!Deferred(y, n)
       \/ \E c \in fit : Maint!Match(x, n) = Maint!Merge(y, c, n, FALSE)
  BY <1>3, <1>9
<1> QED
  BY <1>1, <1>7, <1>8, <1>10

LEMMA MatchWorks ==
  ASSUME NEW t, NEW r, NEW x \in Works(t, r), NEW n \in Maint!Nodes
  PROVE  Maint!Match(x, n) \in Works(t, r)
<1>1. PICK y \in Works(t, r) :
        \/ Maint!Match(x, n) = x
        \/ Maint!Match(x, n) = Maint!Deferred(y, n)
        \/ \E c \in Maint!Candidates(x, n) : Maint!Match(x, n) = Maint!Merge(y, c, n, FALSE)
  BY Matches
<1>2. \A c \in Maint!Candidates(x, n) : c \in Maint!Nodes
  BY DEF Maint!Candidates
<1>3. Maint!Deferred(y, n) \in Works(t, r)
  BY DeferredWorks
<1>4. \A c \in Maint!Nodes : Maint!Merge(y, c, n, FALSE) \in Works(t, r)
  BY MergeWorks
<1> QED
  BY <1>1, <1>2, <1>3, <1>4

LEMMA SettleWorks ==
  ASSUME NEW t, NEW r, NEW x \in Works(t, r), NEW n \in Maint!Nodes
  PROVE  Maint!Settle(x, n) \in Works(t, r)
<1>1. PICK c : c = x.graph.sup[n]
  OBVIOUS
<1>2. c # 0 => c \in Maint!Nodes
  <2>1. x.graph \in Maint!Graph
    BY DEF Works
  <2>2. x.graph.sup \in [Maint!Nodes -> 0 .. N]
    BY <2>1, Columns
  <2> QED
    BY <1>1, <2>2, GraphConstants DEF Maint!Nodes
<1>3. CASE c # 0
  <2>1. Maint!Settle(x, n) \in {Maint!Merge(x, c, n, TRUE), Maint!Deferred(x, n)}
    BY <1>1, <1>3 DEF Maint!Settle
  <2> QED
    BY <1>2, <1>3, <2>1, MergeWorks, DeferredWorks
<1>4. CASE c = 0
  <2>1. PICK y : y = IF n \in DomainNodes THEN x ELSE Maint!Match(x, n)
    OBVIOUS
  <2>2. y \in Works(t, r)
    BY <2>1, MatchWorks
  <2>3. Maint!Settle(x, n) = IF y.graph.status[n] = "gone" \/ n \in y.deferred THEN y ELSE Maint!Promote(y, n)
    BY <1>1, <1>4, <2>1 DEF Maint!Settle
  <2> QED
    BY <2>2, <2>3, PromoteWorks
<1> QED
  BY <1>3, <1>4

LEMMA CondenseWorks ==
  ASSUME NEW t, NEW r, NEW x \in Works(t, r), NEW n \in Maint!Nodes
  PROVE  Maint!Condense(x, n) \in Works(t, r)
BY MatchWorks DEF Maint!Condense

(* The two loops, node by node.                                            *)
SettleNode(g, x, n)   == IF g.status[n] = "staged" THEN Maint!Settle(x, n) ELSE x
CondenseNode(x, n) == IF x.graph.status[n] = "committed" THEN Maint!Condense(x, n) ELSE x

Roots(g) == [n \in Maint!Nodes |-> Maint!Within(g, n) \cap DomainNodes]

LEMMA BeginsWorking ==
  ASSUME NEW g, IsGraph(g), NEW t
  PROVE  Maint!Work(g, t) \in Works(t, Roots(g))
<1>1. PICK x : x = Maint!Work(g, t)
  OBVIOUS
<1>2. x = [graph |-> g, texts |-> t, roots |-> Roots(g), affected |-> {}, deferred |-> {}, changed |-> {},
           into |-> [n \in Maint!Nodes |-> n], replaced |-> {}]
  BY <1>1 DEF Maint!Work, Roots
<1>3. [n \in Maint!Nodes |-> n] \in [Maint!Nodes -> Maint!Nodes] /\ g \in Maint!Graph
  BY DEF IsGraph
<1>4. x \in [graph : Maint!Graph, texts : SUBSET (t \cup Texts), roots : {Roots(g)}, affected : SUBSET Maint!Nodes, deferred : SUBSET Maint!Nodes,
             changed : SUBSET Maint!Nodes, into : [Maint!Nodes -> Maint!Nodes], replaced : SUBSET Maint!Nodes]
  BY <1>2, <1>3
<1>5. Maint!Cardinality({}) = 0
  BY FS_EmptySet, SameCardinality
<1>6. Coherent(x)
  BY <1>2, <1>3, <1>5, GraphConstants DEF Coherent
<1> QED
  BY <1>1, <1>4, <1>6 DEF Works

(* The loops as recursive functions.                                       *)
Settling(g, t, f) ==
  f = [n \in 0 .. N |->
         IF n = 0 THEN Maint!Work(g, t)
         ELSE LET x == f[n - 1] IN IF g.status[n] = "staged" THEN Maint!Settle(x, n) ELSE x]
Condensing(a, f) ==
  f = [n \in 0 .. N |->
         IF n = 0 THEN a
         ELSE LET x == f[n - 1] IN
              IF x.graph.status[n] = "committed" THEN Maint!Condense(x, n) ELSE x]

SettleRun(g, t, f) ==
  /\ f[0] = Maint!Work(g, t) /\ \A n \in 1 .. N : f[n] = SettleNode(g, f[n - 1], n)
  /\ \A n \in 0 .. N : f[n] \in Works(t, Roots(g))
CondenseRun(t, r, a, f) ==
  /\ f[0] = a /\ \A n \in 1 .. N : f[n] = CondenseNode(f[n - 1], n)
  /\ \A n \in 0 .. N : f[n] \in Works(t, r)

LEMMA SettlingWorks ==
  ASSUME NEW g, IsGraph(g), NEW t
  PROVE  SettleRun(g, t, CHOOSE f : Settling(g, t, f))
<1> DEFINE S == Works(t, Roots(g))
           a == Maint!Work(g, t)
           F == [n \in 1 .. N |-> [x \in S |-> SettleNode(g, x, n)]]
<1>1. a \in S
  BY BeginsWorking
<1>2. ASSUME NEW n \in 1 .. N, NEW x \in S PROVE SettleNode(g, x, n) \in S
  BY SettleWorks DEF SettleNode, Maint!Nodes
<1>3. F \in Stepping(N, S)
  <2> HIDE DEF S
  <2> QED
    BY <1>2 DEF Stepping
<1>4. PICK h \in [0 .. N -> S] : h[0] = a /\ \A n \in 1 .. N : h[n] = F[n][h[n - 1]]
  <2> HIDE DEF S, a, F
  <2>1. \E h : Iteration(N, S, a, F, h)
    BY <1>1, <1>3, Iterates, GraphConstants
  <2> QED
    BY <2>1 DEF Iteration
<1>5. Settling(g, t, h)
  <2> HIDE DEF S, a
  <2>1. ASSUME NEW n \in 1 .. N PROVE h[n] = SettleNode(g, h[n - 1], n)
    <3>1. h[n - 1] \in S
      <4> HIDE DEF F
      <4>1. n - 1 \in 0 .. N
        BY GraphConstants
      <4> QED
        BY <1>4, <4>1
    <3> QED
      BY <1>4, <3>1
  <2>2. \A n \in 0 .. N : n = 0 \/ n \in 1 .. N
    OBVIOUS
  <2>3. \A n \in 0 .. N : h[n] = IF n = 0 THEN a ELSE SettleNode(g, h[n - 1], n)
    <3> HIDE DEF F
    <3> QED
      BY <1>4, <2>1, <2>2, Zenon
  <2>4. h = [n \in 0 .. N |-> IF n = 0 THEN a ELSE SettleNode(g, h[n - 1], n)]
    BY <1>4, <2>3
  <2> QED
    BY <2>4 DEF Settling, SettleNode, a
<1>6. PICK f : f = CHOOSE w : Settling(g, t, w)
  OBVIOUS
<1>7. Settling(g, t, f)
  BY <1>5, <1>6
<1> DEFINE T == {n \in 0 .. N : f[n] \in S}
<1>8. f = [n \in 0 .. N |-> IF n = 0 THEN a ELSE SettleNode(g, f[n - 1], n)]
  BY <1>7 DEF Settling, SettleNode
<1>9. 0 \in T
  <2> HIDE DEF S, a
  <2> QED
    BY <1>1, <1>8, GraphConstants
<1>10. \A n \in 0 .. N : n < N /\ n \in T => n + 1 \in T
  <2> HIDE DEF S, a
  <2> SUFFICES ASSUME NEW n \in 0 .. N, n < N, f[n] \in S PROVE f[n + 1] \in S /\ n + 1 \in 0 .. N
    OBVIOUS
  <2>1. n + 1 \in 1 .. N /\ n + 1 \in 0 .. N /\ (n + 1) - 1 = n /\ n + 1 # 0
    BY GraphConstants
  <2>2. f[n + 1] = SettleNode(g, f[n], n + 1)
    BY <1>8, <2>1
  <2> QED
    BY <1>2, <2>1, <2>2
<1>11. \A n \in 0 .. N : n \in T
  <2> HIDE DEF T
  <2>1. N \in Nat
    BY GraphConstants
  <2> QED
    BY <1>9, <1>10, <2>1, Upwards, Zenon
<1>12. f[0] = a /\ \A n \in 1 .. N : f[n] = SettleNode(g, f[n - 1], n)
  <2> HIDE DEF S, a
  <2> QED
    BY <1>8, GraphConstants
<1> QED
  BY <1>6, <1>11, <1>12 DEF SettleRun

LEMMA CondensingWorks ==
  ASSUME NEW t, NEW r, NEW a \in Works(t, r)
  PROVE  CondenseRun(t, r, a, CHOOSE f : Condensing(a, f))
<1> DEFINE S == Works(t, r)
           F == [n \in 1 .. N |-> [x \in S |-> CondenseNode(x, n)]]
<1>1. a \in S
  OBVIOUS
<1>2. ASSUME NEW n \in 1 .. N, NEW x \in S PROVE CondenseNode(x, n) \in S
  BY CondenseWorks DEF CondenseNode, Maint!Nodes
<1>3. F \in Stepping(N, S)
  <2> HIDE DEF S
  <2> QED
    BY <1>2 DEF Stepping
<1>4. PICK h \in [0 .. N -> S] : h[0] = a /\ \A n \in 1 .. N : h[n] = F[n][h[n - 1]]
  <2> HIDE DEF S, F
  <2>1. \E h : Iteration(N, S, a, F, h)
    BY <1>1, <1>3, Iterates, GraphConstants
  <2> QED
    BY <2>1 DEF Iteration
<1>5. Condensing(a, h)
  <2> HIDE DEF S
  <2>1. ASSUME NEW n \in 1 .. N PROVE h[n] = CondenseNode(h[n - 1], n)
    <3>1. h[n - 1] \in S
      <4> HIDE DEF F
      <4>1. n - 1 \in 0 .. N
        BY GraphConstants
      <4> QED
        BY <1>4, <4>1
    <3> QED
      BY <1>4, <3>1
  <2>2. \A n \in 0 .. N : n = 0 \/ n \in 1 .. N
    OBVIOUS
  <2>3. \A n \in 0 .. N : h[n] = IF n = 0 THEN a ELSE CondenseNode(h[n - 1], n)
    <3> HIDE DEF F
    <3> QED
      BY <1>4, <2>1, <2>2, Zenon
  <2>4. h = [n \in 0 .. N |-> IF n = 0 THEN a ELSE CondenseNode(h[n - 1], n)]
    BY <1>4, <2>3
  <2> QED
    BY <2>4 DEF Condensing, CondenseNode
<1>6. PICK f : f = CHOOSE w : Condensing(a, w)
  OBVIOUS
<1>7. Condensing(a, f)
  BY <1>5, <1>6
<1> DEFINE T == {n \in 0 .. N : f[n] \in S}
<1>8. f = [n \in 0 .. N |-> IF n = 0 THEN a ELSE CondenseNode(f[n - 1], n)]
  BY <1>7 DEF Condensing, CondenseNode
<1>9. 0 \in T
  <2> HIDE DEF S
  <2> QED
    BY <1>1, <1>8, GraphConstants
<1>10. \A n \in 0 .. N : n < N /\ n \in T => n + 1 \in T
  <2> HIDE DEF S
  <2> SUFFICES ASSUME NEW n \in 0 .. N, n < N, f[n] \in S PROVE f[n + 1] \in S /\ n + 1 \in 0 .. N
    OBVIOUS
  <2>1. n + 1 \in 1 .. N /\ n + 1 \in 0 .. N /\ (n + 1) - 1 = n /\ n + 1 # 0
    BY GraphConstants
  <2>2. f[n + 1] = CondenseNode(f[n], n + 1)
    BY <1>8, <2>1
  <2> QED
    BY <1>2, <2>1, <2>2
<1>11. \A n \in 0 .. N : n \in T
  <2> HIDE DEF T
  <2>1. N \in Nat
    BY GraphConstants
  <2> QED
    BY <1>9, <1>10, <2>1, Upwards, Zenon
<1>12. f[0] = a /\ \A n \in 1 .. N : f[n] = CondenseNode(f[n - 1], n)
  <2> HIDE DEF S
  <2> QED
    BY <1>8, GraphConstants
<1> QED
  BY <1>6, <1>11, <1>12 DEF CondenseRun

(* Both loops, and then the edges from a node to itself go.                *)
Loopless(x) ==
  [x EXCEPT !.graph = [x.graph EXCEPT !.edge = [d \in Maint!Triples |-> IF d[1] = d[2] THEN 0 ELSE x.graph.edge[d]]]]

LEMMA ReconciledFrom ==
  ASSUME NEW g, IsGraph(g), NEW t
  PROVE  \E f, h : /\ SettleRun(g, t, f) /\ CondenseRun(t, Roots(g), f[N], h)
                   /\ Maint!Reconciled(g, t) = Loopless(h[N])
<1>1. PICK f : f = (CHOOSE w : Settling(g, t, w))
  OBVIOUS
<1>2. PICK h : h = (CHOOSE w : Condensing(f[N], w))
  OBVIOUS
<1>3. SettleRun(g, t, f)
  BY <1>1, SettlingWorks
<1>4. N \in 0 .. N
  BY GraphConstants
<1>5. CondenseRun(t, Roots(g), f[N], h)
  BY <1>2, <1>3, <1>4, CondensingWorks DEF SettleRun
<1>6. PICK b : b = h[N]
  OBVIOUS
<1>7. Maint!Reconciled(g, t) = [b EXCEPT !.graph.edge = [d \in Maint!Triples |-> IF d[1] = d[2] THEN 0 ELSE @[d]]]
  BY <1>1, <1>2, <1>6 DEF Maint!Reconciled, Settling, Condensing
<1>8. Maint!Reconciled(g, t) = Loopless(h[N])
  BY <1>6, <1>7 DEF Loopless
<1> QED
  BY <1>3, <1>5, <1>8

(* What a run commits is a graph, made by at most so many merges.          *)
LEMMA ReconciledIsSound ==
  ASSUME NEW g, IsGraph(g), NEW t
  PROVE  /\ IsGraph(Maint!Reconciled(g, t).graph)
         /\ Maint!Reconciled(g, t).into \in [Maint!Nodes -> Maint!Nodes]
         /\ Maint!Cardinality(Maint!Absorbers(Maint!Reconciled(g, t)) \cup {n \in Maint!Nodes : Maint!Reconciled(g, t).into[n] # n}) <= MaxAffected
<1>1. PICK f, q : SettleRun(g, t, f) /\ CondenseRun(t, Roots(g), f[N], q) /\ Maint!Reconciled(g, t) = Loopless(q[N])
  BY ReconciledFrom
<1>2. PICK b : b = q[N]
  OBVIOUS
<1>3. b \in Works(t, Roots(g))
  <2>1. N \in 0 .. N
    BY GraphConstants
  <2> QED
    BY <1>1, <1>2, <2>1 DEF CondenseRun
<1>4. PICK e : e = [d \in Maint!Triples |-> IF d[1] = d[2] THEN 0 ELSE b.graph.edge[d]]
  OBVIOUS
<1>5. PICK h : h = [b.graph EXCEPT !.edge = e]
  OBVIOUS
<1>6. Maint!Reconciled(g, t) = [b EXCEPT !.graph = h]
  BY <1>1, <1>2, <1>4, <1>5 DEF Loopless
<1>7. b.graph \in Maint!Graph /\ Maint!Attached(b.graph) /\ b.graph.edge \in [Maint!Triples -> 0 .. MaxWeight]
  BY <1>3, Columns DEF Works, Coherent, IsGraph
<1>8. e \in [Maint!Triples -> 0 .. MaxWeight] /\ \A d \in Maint!Triples : e[d] > 0 => b.graph.edge[d] > 0
  BY <1>4, <1>7, GraphConstants
<1>9. h \in Maint!Graph /\ h.edge = e /\ h.status = b.graph.status
  BY <1>5, <1>7, <1>8 DEF Maint!Graph
<1>10. IsGraph(h)
  BY <1>7, <1>8, <1>9 DEF IsGraph, Maint!Attached, Maint!Alive
<1>11. PICK y : y = Maint!Reconciled(g, t)
  OBVIOUS
<1>12. y.graph = h /\ y.into = b.into
  BY <1>3, <1>6, <1>11 DEF Works
<1>13. /\ b.into \in [Maint!Nodes -> Maint!Nodes] /\ b.affected \subseteq Maint!Nodes /\ Maint!Cardinality(b.affected) <= MaxAffected
       /\ \A n \in Maint!Nodes : b.into[n] # n => n \in b.affected /\ b.into[n] \in b.affected
  BY <1>3 DEF Works, Coherent
<1>14. PICK m : m = Maint!Absorbers(y) \cup {n \in Maint!Nodes : y.into[n] # n}
  OBVIOUS
<1>15. m \subseteq b.affected
  BY <1>12, <1>13, <1>14 DEF Maint!Absorbers
<1>16. Maint!Cardinality(m) <= Maint!Cardinality(b.affected) /\ Maint!Cardinality(m) \in Nat /\ Maint!Cardinality(b.affected) \in Nat
  BY <1>13, <1>15, NodesFinite, FS_Subset, FS_CardinalityType, SameCardinality
<1>17. Maint!Cardinality(m) <= MaxAffected
  BY <1>13, <1>16, GraphConstants
<1> QED
  BY <1>10, <1>11, <1>12, <1>13, <1>14, <1>17

-----------------------------------------------------------------------------
(* What users do to the graph leaves a graph.                              *)
LEMMA StillGraph ==
  ASSUME NEW h \in Maint!Graph, \A e \in Maint!Triples : h.edge[e] > 0 => e[1] \in Maint!Alive(h) /\ e[2] \in Maint!Alive(h)
  PROVE  IsGraph(h)
BY DEF IsGraph, Maint!Attached

LEMMA CreateIsGraph ==
  ASSUME NEW g, IsGraph(g), NEW n \in Maint!Nodes, NEW s \in {"staged", "committed"},
         NEW W \in SUBSET Workspaces
  PROVE  IsGraph([g EXCEPT !.status[n] = s, !.content[n] = <<Fact[n]>>, !.ws[n] = W, !.sup[n] = Supersedes[n]])
<1> DEFINE status == [g.status EXCEPT ![n] = s]
           content == [g.content EXCEPT ![n] = <<Fact[n]>>]
           ws == [g.ws EXCEPT ![n] = W]
           sup == [g.sup EXCEPT ![n] = Supersedes[n]]
<1>1. PICK h : h = [g EXCEPT !.status[n] = s, !.content[n] = <<Fact[n]>>, !.ws[n] = W, !.sup[n] = Supersedes[n]]
  OBVIOUS
<1>2. g \in Maint!Graph
  BY DEF IsGraph
<1>3. h = [status |-> status, content |-> content, ws |-> ws, sup |-> sup, edge |-> g.edge]
  BY <1>1, <1>2 DEF Maint!Graph
<1>4. /\ status \in [Maint!Nodes -> {"unborn", "staged", "committed", "gone"}]
      /\ ws \in [Maint!Nodes -> SUBSET Workspaces] /\ g.edge \in [Maint!Triples -> 0 .. MaxWeight]
  BY <1>2, Columns
<1>5. content \in [Maint!Nodes -> Seq(Maint!Facts)]
  <2>1. <<Fact[n]>> \in Seq(Maint!Facts)
    BY DEF Maint!Facts
  <2> QED
    BY <1>2, <2>1, Columns
<1>6. sup \in [Maint!Nodes -> 0 .. N]
  BY <1>2, Columns, GraphConstants
<1>7. h \in Maint!Graph
  <2> HIDE DEF status, content, ws, sup
  <2> QED
    BY <1>3, <1>4, <1>5, <1>6, AsGraph
<1>8. h.status = status /\ h.edge = g.edge
  BY <1>3
<1>9. Maint!Alive(g) \subseteq Maint!Alive(h)
  BY <1>2, <1>8, Columns DEF Maint!Alive
<1>10. \A e \in Maint!Triples : h.edge[e] > 0 => e[1] \in Maint!Alive(h) /\ e[2] \in Maint!Alive(h)
  BY <1>8, <1>9, AttachedEnds DEF IsGraph
<1> QED
  BY <1>1, <1>7, <1>10, StillGraph

LEMMA RewriteIsGraph ==
  ASSUME NEW g, IsGraph(g), NEW n \in Maint!Nodes, NEW f \in Maint!Facts
  PROVE  IsGraph([g EXCEPT !.content[n] = <<f>>])
<1>1. PICK h : h = [g EXCEPT !.content[n] = <<f>>]
  OBVIOUS
<1>2. g \in Maint!Graph /\ <<f>> \in Seq(Maint!Facts)
  BY DEF IsGraph
<1>3. PICK c : c = [g.content EXCEPT ![n] = <<f>>]
  OBVIOUS
<1>4. c \in [Maint!Nodes -> Seq(Maint!Facts)]
  BY <1>2, <1>3, Columns
<1>5. h = [g EXCEPT !.content = c]
  BY <1>1, <1>3
<1>6. h \in Maint!Graph /\ h.status = g.status /\ h.edge = g.edge
  BY <1>2, <1>4, <1>5 DEF Maint!Graph
<1> QED
  BY <1>1, <1>6 DEF IsGraph, Maint!Attached, Maint!Alive

LEMMA StatusIsGraph ==
  ASSUME NEW g, IsGraph(g), NEW n \in Maint!Nodes, NEW s \in {"staged", "committed"}
  PROVE  IsGraph([g EXCEPT !.status[n] = s])
<1>1. PICK h : h = [g EXCEPT !.status[n] = s]
  OBVIOUS
<1>2. g \in Maint!Graph
  BY DEF IsGraph
<1>3. h \in Maint!Graph /\ h.edge = g.edge /\ h.status = [g.status EXCEPT ![n] = s]
  BY <1>1, <1>2 DEF Maint!Graph
<1>4. Maint!Alive(g) \subseteq Maint!Alive(h)
  BY <1>2, <1>3 DEF Maint!Alive, Maint!Graph
<1> QED
  BY <1>1, <1>3, <1>4 DEF IsGraph, Maint!Attached

LEMMA RemovedIsGraph ==
  ASSUME NEW g, IsGraph(g), NEW n \in Maint!Nodes
  PROVE  IsGraph(Maint!Removed(g, n))
<1> DEFINE edge == [e \in Maint!Triples |-> IF n \in {e[1], e[2]} THEN 0 ELSE g.edge[e]]
           status == [g.status EXCEPT ![n] = "gone"]
<1>1. PICK h : h = Maint!Removed(g, n)
  OBVIOUS
<1>2. g \in Maint!Graph
  BY DEF IsGraph
<1>3. h = [status |-> status, content |-> g.content, ws |-> g.ws, sup |-> g.sup, edge |-> edge]
  BY <1>1, <1>2 DEF Maint!Graph, Maint!Removed
<1>4. status \in [Maint!Nodes -> {"unborn", "staged", "committed", "gone"}] /\ edge \in [Maint!Triples -> 0 .. MaxWeight]
  BY <1>2, Columns, GraphConstants
<1>5. h \in Maint!Graph
  <2> HIDE DEF edge, status
  <2> QED
    BY <1>2, <1>3, <1>4, Columns, AsGraph
<1>6. h.status = status /\ h.edge = edge
  BY <1>3
<1>7. \A m \in Maint!Nodes : m # n /\ m \in Maint!Alive(g) => m \in Maint!Alive(h)
  BY <1>2, <1>6, Columns DEF Maint!Alive
<1>8. ASSUME NEW e \in Maint!Triples, h.edge[e] > 0 PROVE e[1] \in Maint!Alive(h) /\ e[2] \in Maint!Alive(h)
  <2>1. n \notin {e[1], e[2]} /\ g.edge[e] > 0
    BY <1>6, <1>8
  <2>2. e[1] \in Maint!Alive(g) /\ e[2] \in Maint!Alive(g)
    BY <2>1, AttachedEnds DEF IsGraph
  <2> QED
    BY <1>7, <2>1, <2>2, EndsOf
<1> QED
  BY <1>1, <1>5, <1>8, StillGraph

LEMMA WeighedIsGraph ==
  ASSUME NEW g, IsGraph(g), NEW e \in Maint!Triples, NEW k \in 0 .. MaxWeight,
         k > 0 => {e[1], e[2]} \subseteq Maint!Alive(g)
  PROVE  IsGraph([g EXCEPT !.edge[e] = k])
<1>1. PICK h : h = [g EXCEPT !.edge[e] = k]
  OBVIOUS
<1>2. g \in Maint!Graph
  BY DEF IsGraph
<1>3. PICK c : c = [g.edge EXCEPT ![e] = k]
  OBVIOUS
<1>4. c \in [Maint!Triples -> 0 .. MaxWeight] /\ \A d \in Maint!Triples : c[d] > 0 => (d = e /\ k > 0) \/ g.edge[d] > 0
  BY <1>2, <1>3, Columns
<1>5. h = [g EXCEPT !.edge = c]
  BY <1>1, <1>3
<1>6. h \in Maint!Graph /\ h.status = g.status /\ h.edge = c
  BY <1>2, <1>4, <1>5 DEF Maint!Graph
<1>7. Maint!Alive(h) = Maint!Alive(g)
  BY <1>6 DEF Maint!Alive
<1>8. \A d \in Maint!Triples : h.edge[d] > 0 => d[1] \in Maint!Alive(h) /\ d[2] \in Maint!Alive(h)
  BY <1>4, <1>6, <1>7, AttachedEnds DEF IsGraph
<1> QED
  BY <1>1, <1>6, <1>8, StillGraph

(* The nodes that merge_nodes writes, from what it read of them.           *)
LEMMA MergedIsGraph ==
  ASSUME NEW g, IsGraph(g), NEW from \in Maint!Graph, NEW s \in Maint!Nodes, NEW a \in Maint!Nodes, s # a,
         NEW read, read = [e \in Maint!Triples |-> IF a \in {e[1], e[2]} /\ from.edge[e] = 0 THEN 0 ELSE g.edge[e]],
         NEW moved, moved = Maint!Rewired(read, s, a),
         s \in Maint!Alive(g) \/ \A e \in Maint!Triples : s \in {e[1], e[2]} => ~(moved[e] > 0)
  PROVE  IsGraph([g EXCEPT !.status[a] = "gone",
                           !.content[s] = IF s \in Maint!Alive(g) THEN Maint!Joined(from.content[s], from.content[a]) ELSE @,
                           !.ws[s] = IF s \in Maint!Alive(g) THEN from.ws[s] ELSE @,
                           !.sup[s] = IF s \in Maint!Alive(g) THEN from.sup[s] ELSE @,
                           !.edge = moved])
<1> DEFINE status == [g.status EXCEPT ![a] = "gone"]
           content == [g.content EXCEPT ![s] = IF s \in Maint!Alive(g) THEN Maint!Joined(from.content[s], from.content[a]) ELSE @]
           ws == [g.ws EXCEPT ![s] = IF s \in Maint!Alive(g) THEN from.ws[s] ELSE @]
           sup == [g.sup EXCEPT ![s] = IF s \in Maint!Alive(g) THEN from.sup[s] ELSE @]
<1>1. PICK h :
        h = [g EXCEPT !.status[a] = "gone",
                      !.content[s] = IF s \in Maint!Alive(g) THEN Maint!Joined(from.content[s], from.content[a]) ELSE @,
                      !.ws[s] = IF s \in Maint!Alive(g) THEN from.ws[s] ELSE @,
                      !.sup[s] = IF s \in Maint!Alive(g) THEN from.sup[s] ELSE @,
                      !.edge = moved]
  OBVIOUS
<1>2. g \in Maint!Graph
  BY DEF IsGraph
<1>3. h = [status |-> status, content |-> content, ws |-> ws, sup |-> sup, edge |-> moved]
  BY <1>1, <1>2 DEF Maint!Graph
<1>4. /\ status \in [Maint!Nodes -> {"unborn", "staged", "committed", "gone"}]
      /\ ws \in [Maint!Nodes -> SUBSET Workspaces] /\ sup \in [Maint!Nodes -> 0 .. N]
  BY <1>2, Columns
<1>5. content \in [Maint!Nodes -> Seq(Maint!Facts)]
  <2>1. from.content[s] \in Seq(Maint!Facts) /\ from.content[a] \in Seq(Maint!Facts)
    BY Columns
  <2>2. from.content[s] \o from.content[a] \in Seq(Maint!Facts)
    BY <2>1
  <2>3. Maint!Joined(from.content[s], from.content[a]) \in Seq(Maint!Facts)
    BY <2>1, <2>2 DEF Maint!Joined
  <2>4. PICK j : j = Maint!Joined(from.content[s], from.content[a])
    OBVIOUS
  <2>5. g.content \in [Maint!Nodes -> Seq(Maint!Facts)]
    BY <1>2, Columns
  <2>6. content = IF s \in Maint!Alive(g) THEN [g.content EXCEPT ![s] = j] ELSE g.content
    BY <2>4, <2>5
  <2> QED
    BY <2>3, <2>4, <2>5, <2>6
<1>6. /\ read \in [Maint!Triples -> 0 .. MaxWeight]
      /\ \A e \in Maint!Triples : read[e] > 0 => g.edge[e] > 0
  <2>1. g.edge \in [Maint!Triples -> 0 .. MaxWeight] /\ MaxWeight \in Nat
    BY <1>2, Columns, GraphConstants
  <2> QED
    BY <2>1
<1>7. moved \in [Maint!Triples -> 0 .. MaxWeight]
  BY <1>6, RewiredFacts, GraphConstants
<1>8. h \in Maint!Graph
  <2> HIDE DEF status, content, ws, sup
  <2> QED
    BY <1>3, <1>4, <1>5, <1>7, AsGraph
<1>9. h.status = status /\ h.edge = moved
  BY <1>3
<1>10. \A m \in Maint!Nodes : m # a /\ m \in Maint!Alive(g) => m \in Maint!Alive(h)
  BY <1>2, <1>9, Columns DEF Maint!Alive
<1>11. ASSUME NEW e \in Maint!Triples, h.edge[e] > 0 PROVE e[1] \in Maint!Alive(h) /\ e[2] \in Maint!Alive(h)
  <2>1. e[1] \in Maint!Nodes /\ e[2] \in Maint!Nodes
    BY EndsOf
  <2>2. Maint!Rewired(read, s, a)[e] > 0
    BY <1>9, <1>11
  <2>3. /\ a \notin {e[1], e[2]}
        /\ e[1] # s => read[e] > 0 \/ \E d \in Maint!Triples : read[d] > 0 /\ d[1] = e[1]
        /\ e[2] # s => read[e] > 0 \/ \E d \in Maint!Triples : read[d] > 0 /\ d[2] = e[2]
    <3>1. MaxWeight \in Nat /\ read \in [Maint!Triples -> 0 .. MaxWeight]
      BY <1>6, GraphConstants
    <3> HIDE DEF status, content, ws, sup
    <3> QED
      BY <2>2, <3>1, RewiredRests DEF Rests
  <2>4. (e[1] # s => e[1] \in Maint!Alive(g)) /\ (e[2] # s => e[2] \in Maint!Alive(g))
    BY <1>6, <2>3, AttachedEnds DEF IsGraph
  <2>5. s \in {e[1], e[2]} => s \in Maint!Alive(g)
    BY <1>9, <1>11
  <2> QED
    BY <1>10, <2>1, <2>3, <2>4, <2>5
<1> QED
  BY <1>1, <1>8, <1>11, StillGraph

-----------------------------------------------------------------------------
(* Every row of the runs has its report, and whoever is at work has a run. *)
Steps == {"idle", "begun", "holding", "skipping", "prepared", "writing", "leaving"}
Rows == [Maint!Runs -> [status : {"unborn", "running", "success", "failed", "skipped"}, active : BOOLEAN]]

Tables ==
  /\ IsGraph(graph)
  /\ nruns \in 0 .. MaxRuns /\ run \in Rows /\ report = [r \in Maint!Runs |-> report[r]]
  /\ advisory \in Workers \cup {Maint!None} /\ tables \in Workers \cup {Maint!None}
  /\ wpc \in [Workers -> Steps] /\ wrun \in [Workers -> Nat]
  /\ before = [w \in Workers |-> before[w]]
  /\ epc = [c \in Editors |-> epc[c]] /\ hand = [c \in Editors |-> hand[c]]
  /\ edits \in Nat

Unrun == \A r \in Maint!Runs : r > nruns => run[r].status = "unborn"

Own ==
  \A w \in Workers :
    /\ wrun[w] <= nruns
    /\ wpc[w] # "idle" => wrun[w] \in Maint!Runs
    /\ tables = w <=> wpc[w] = "writing"
    /\ wpc[w] = "writing" => before[w] = graph

InHand ==
  \A c \in Editors : epc[c] = "merging" =>
    /\ hand[c].survivor \in Maint!Nodes /\ hand[c].absorbed \in Maint!Nodes /\ hand[c].survivor # hand[c].absorbed
    /\ hand[c].from \in Maint!Graph

Recorded == Tables /\ Unrun /\ Own /\ InHand /\ Maint!ReportedIffFinished /\ Maint!WithinBudget

LEMMA RecordedIsTyped == Recorded => Maint!TypeOK /\ Maint!ReportedIffFinished /\ Maint!WithinBudget
BY DEF Recorded, Tables, Own, Maint!TypeOK, IsGraph, Rows, Steps

LEMMA RecordedAtFirst == Maint!Init => Recorded
<1> SUFFICES ASSUME Maint!Init PROVE Recorded
  OBVIOUS
<1>1. IsGraph(graph)
  BY GraphConstants DEF Maint!Init, IsGraph
<1>2. run \in Rows
  BY DEF Maint!Init, Rows
<1>3. Tables
  BY <1>1, <1>2, GraphConstants DEF Maint!Init, Tables, Steps
<1>4. Unrun /\ Own /\ InHand
  BY GraphConstants DEF Maint!Init, Unrun, Own, InHand
<1>5. \A r \in Maint!Runs : report[r].outcome = Maint!None /\ run[r].status = "unborn"
  BY DEF Maint!Init, Maint!Unreported
<1>6. Maint!ReportedIffFinished
  BY <1>5 DEF Maint!ReportedIffFinished, Maint!None
<1>7. Maint!WithinBudget
  BY <1>5 DEF Maint!WithinBudget, Maint!None
<1> QED
  BY <1>3, <1>4, <1>6, <1>7 DEF Recorded

LEMMA EditsRecorded ==
  ASSUME Recorded, NEW g, IsGraph(g), Maint!Edit(g)
  PROVE  Recorded'
<1> USE DEF Recorded
<1>1. /\ tables = Maint!None /\ edits' = edits + 1 /\ graph' = g
      /\ UNCHANGED <<nruns, run, report, advisory, tables, wpc, wrun, cache, before, epc, hand>>
  BY DEF Maint!Edit, Maint!records, Maint!worker, Maint!editor
<1>2. \A w \in Workers : wpc[w] # "writing"
  BY <1>1, GraphConstants DEF Own
<1>3. Tables'
  BY <1>1 DEF Tables, IsGraph, Maint!Attached, Maint!Alive
<1>4. Unrun' /\ InHand'
  BY <1>1 DEF Unrun, InHand
<1>5. Own'
  BY <1>1, <1>2 DEF Own
<1>6. Maint!ReportedIffFinished' /\ Maint!WithinBudget'
  BY <1>1 DEF Maint!ReportedIffFinished, Maint!WithinBudget, Maint!Absorbers
<1> QED
  BY <1>3, <1>4, <1>5, <1>6

LEMMA EditorsRecorded ==
  ASSUME Recorded, Maint!EditorStep
  PROVE  Recorded'
<1> USE DEF Recorded
<1>0. IsGraph(graph) /\ MaxWeight \in Nat
  BY GraphConstants DEF Tables
<1>1. ASSUME NEW n \in Maint!Nodes, NEW s \in {"staged", "committed"}, NEW W \in SUBSET Workspaces, Maint!CreateNode(n, s, W)
      PROVE  Recorded'
  BY <1>0, <1>1, CreateIsGraph, EditsRecorded DEF Maint!CreateNode
<1>2. ASSUME NEW n \in Maint!Nodes, NEW f \in Maint!Facts, Maint!RewriteNode(n, f) PROVE Recorded'
  BY <1>0, <1>2, RewriteIsGraph, EditsRecorded DEF Maint!RewriteNode
<1>3. ASSUME NEW n \in Maint!Nodes, Maint!DeleteNode(n) PROVE Recorded'
  BY <1>0, <1>3, RemovedIsGraph, EditsRecorded DEF Maint!DeleteNode
<1>4. ASSUME NEW n \in Maint!Nodes, Maint!CommitNode(n) PROVE Recorded'
  BY <1>0, <1>4, StatusIsGraph, EditsRecorded DEF Maint!CommitNode
<1>5. ASSUME NEW n \in Maint!Nodes, Maint!UncommitNode(n) PROVE Recorded'
  BY <1>0, <1>5, StatusIsGraph, EditsRecorded DEF Maint!UncommitNode
<1>6. ASSUME NEW e \in Maint!Triples, Maint!DeleteEdge(e) PROVE Recorded'
  <2>1. PICK k : k = 0
    OBVIOUS
  <2>2. k \in 0 .. MaxWeight /\ ~(k > 0)
    BY <1>0, <2>1
  <2>3. IsGraph([graph EXCEPT !.edge[e] = k])
    BY <1>0, <2>2, WeighedIsGraph
  <2> QED
    BY <1>6, <2>1, <2>3, EditsRecorded DEF Maint!DeleteEdge
<1>7. ASSUME NEW e \in Maint!Triples, NEW weight \in 1 .. MaxWeight, Maint!CreateEdge(e, weight) PROVE Recorded'
  <2>1. weight \in 0 .. MaxWeight /\ {e[1], e[2]} \subseteq Maint!Alive(graph)
    BY <1>0, <1>7 DEF Maint!CreateEdge
  <2>2. IsGraph([graph EXCEPT !.edge[e] = weight])
    BY <1>0, <2>1, WeighedIsGraph
  <2> QED
    BY <1>7, <2>2, EditsRecorded DEF Maint!CreateEdge
<1>8. ASSUME NEW c \in Editors, Maint!MergeWrite(c) PROVE Recorded'
  <2>1. PICK s, a, from : s = hand[c].survivor /\ a = hand[c].absorbed /\ from = hand[c].from
    OBVIOUS
  <2>2. PICK read : read = [e \in Maint!Triples |->
                              IF a \in {e[1], e[2]} /\ from.edge[e] = 0 THEN 0 ELSE graph.edge[e]]
    OBVIOUS
  <2>3. PICK moved : moved = Maint!Rewired(read, s, a)
    OBVIOUS
  <2>4. PICK next : next =
          [graph EXCEPT !.status[a] = "gone",
                        !.content[s] = IF s \in Maint!Alive(graph) THEN Maint!Joined(from.content[s], from.content[a]) ELSE @,
                        !.ws[s] = IF s \in Maint!Alive(graph) THEN from.ws[s] ELSE @,
                        !.sup[s] = IF s \in Maint!Alive(graph) THEN from.sup[s] ELSE @,
                        !.edge = moved]
    OBVIOUS
  <2>5. PICK orphan \in BOOLEAN : orphan = (s \notin Maint!Alive(graph) /\ \E e \in Maint!Triples : s \in {e[1], e[2]} /\ moved[e] > 0)
    OBVIOUS
  <2>6. /\ epc[c] = "merging" /\ tables = Maint!None /\ edits' = edits + 1
        /\ epc' = [epc EXCEPT ![c] = "idle"] /\ hand' = [hand EXCEPT ![c] = Maint!Idle]
        /\ UNCHANGED <<nruns, run, report, advisory, tables, wpc, wrun, cache, before>>
    BY <1>8 DEF Maint!MergeWrite, Maint!records, Maint!worker
  <2>7. graph' = IF orphan THEN graph ELSE next
    BY <1>8, <2>1, <2>2, <2>3, <2>4, <2>5 DEF Maint!MergeWrite
  <2>8. s \in Maint!Nodes /\ a \in Maint!Nodes /\ s # a /\ from \in Maint!Graph
    BY <2>1, <2>6 DEF InHand
  <2>9. ~orphan => IsGraph(next)
    BY <1>0, <2>2, <2>3, <2>4, <2>5, <2>8, MergedIsGraph
  <2>10. IsGraph(graph')
    BY <1>0, <2>7, <2>9
  <2>11. Tables'
    <3>1. IsGraph(graph)'
      BY <2>10 DEF IsGraph, Maint!Attached, Maint!Alive
    <3>2. epc' = [d \in Editors |-> epc'[d]] /\ hand' = [d \in Editors |-> hand'[d]]
      BY <2>6 DEF Tables
    <3>3. edits' \in Nat
      BY <2>6 DEF Tables
    <3> QED
      BY <2>6, <3>1, <3>2, <3>3 DEF Tables
  <2>12. Unrun' /\ InHand'
    BY <2>6 DEF Unrun, InHand, Tables
  <2>13. Own'
    BY <2>6, GraphConstants DEF Own
  <2>14. Maint!ReportedIffFinished' /\ Maint!WithinBudget'
    BY <2>6 DEF Maint!ReportedIffFinished, Maint!WithinBudget, Maint!Absorbers
  <2> QED
    BY <2>11, <2>12, <2>13, <2>14
<1>9. ASSUME NEW c \in Editors, NEW s \in Maint!Nodes, NEW a \in Maint!Nodes, Maint!MergeRead(c, s, a) PROVE Recorded'
  <2>1. /\ s # a /\ epc' = [epc EXCEPT ![c] = "merging"]
        /\ hand' = [hand EXCEPT ![c] = [survivor |-> s, absorbed |-> a, from |-> graph]]
        /\ UNCHANGED <<graph, nruns, run, report, advisory, tables, wpc, wrun, cache, before, edits>>
    BY <1>9 DEF Maint!MergeRead, Maint!records, Maint!worker
  <2>2. Tables'
    BY <2>1 DEF Tables, IsGraph, Maint!Attached, Maint!Alive
  <2>3. graph \in Maint!Graph
    BY <1>0 DEF IsGraph
  <2>4. InHand'
    BY <2>1, <2>3 DEF Tables, InHand
  <2>5. Unrun' /\ Own'
    BY <2>1 DEF Unrun, Own
  <2>6. Maint!ReportedIffFinished' /\ Maint!WithinBudget'
    BY <2>1 DEF Maint!ReportedIffFinished, Maint!WithinBudget, Maint!Absorbers
  <2> QED
    BY <2>2, <2>4, <2>5, <2>6
<1> QED
  BY <1>1, <1>2, <1>3, <1>4, <1>5, <1>6, <1>7, <1>8, <1>9 DEF Maint!EditorStep

(* Finishing writes the row of a run and its report, or neither.           *)
LEMMA FinishRecords ==
  ASSUME Tables, Unrun, Maint!ReportedIffFinished, NEW r \in Maint!Runs, r <= nruns, nruns' = nruns,
         NEW outcome \in {"success", "failed", "skipped"}, NEW details, details.outcome = outcome,
         Maint!Finish(r, outcome, details)
  PROVE  /\ run' \in Rows /\ report' = [q \in Maint!Runs |-> report'[q]]
         /\ Maint!ReportedIffFinished' /\ Unrun'
         /\ \A q \in Maint!Runs : report'[q] \in {report[q], details}
<1>1. CASE report[r] = Maint!Unreported
  <2>1. run' = [run EXCEPT ![r].status = outcome] /\ report' = [report EXCEPT ![r] = details]
    BY <1>1 DEF Maint!Finish
  <2>2. run \in Rows /\ report = [q \in Maint!Runs |-> report[q]]
    BY DEF Tables
  <2>3. run' \in Rows
    BY <2>1, <2>2 DEF Rows
  <2>4. report' = [q \in Maint!Runs |-> report'[q]] /\ report'[r] = details /\ \A q \in Maint!Runs : q # r => report'[q] = report[q]
    BY <2>1, <2>2
  <2>5. run'[r].status = outcome /\ \A q \in Maint!Runs : q # r => run'[q] = run[q]
    BY <2>1, <2>2 DEF Rows
  <2>6. Maint!ReportedIffFinished'
    <3> SUFFICES ASSUME NEW q \in Maint!Runs
                 PROVE  /\ report'[q].outcome # Maint!None <=> run'[q].status \in {"success", "failed", "skipped"}
                        /\ report'[q].outcome # Maint!None => report'[q].outcome = run'[q].status
      BY DEF Maint!ReportedIffFinished
    <3>1. CASE q = r
      BY <2>4, <2>5, <3>1 DEF Maint!None
    <3>2. CASE q # r
      BY <2>4, <2>5, <3>2 DEF Maint!ReportedIffFinished
    <3> QED
      BY <3>1, <3>2
  <2>7. Unrun'
    BY <2>5 DEF Unrun, Tables, Maint!Runs
  <2> QED
    BY <2>3, <2>4, <2>6, <2>7
<1>2. CASE report[r] # Maint!Unreported
  <2>1. UNCHANGED <<run, report>>
    BY <1>2 DEF Maint!Finish
  <2>2. run' \in Rows /\ report' = [q \in Maint!Runs |-> report'[q]]
    BY <2>1 DEF Tables
  <2>3. Maint!ReportedIffFinished' /\ Unrun'
    BY <2>1 DEF Maint!ReportedIffFinished, Unrun
  <2> QED
    BY <2>1, <2>2, <2>3
<1> QED
  BY <1>1, <1>2

(* A report of another outcome than success is within any budget.          *)
Kept(rep) == rep.outcome = "success" =>
  Maint!Cardinality(Maint!Absorbers(rep) \cup {n \in Maint!Nodes : rep.into[n] # n}) <= MaxAffected

LEMMA BudgetKept ==
  ASSUME Maint!WithinBudget, NEW d, Kept(d), \A q \in Maint!Runs : report'[q] \in {report[q], d}
  PROVE  Maint!WithinBudget'
<1> SUFFICES ASSUME NEW q \in Maint!Runs PROVE Kept(report'[q])
  BY DEF Maint!WithinBudget, Kept, Maint!Absorbers
<1>1. Kept(report[q])
  BY DEF Maint!WithinBudget, Kept
<1> QED
  BY <1>1

LEMMA FailuresKept == ASSUME NEW o \in {"failed", "skipped"} PROVE Maint!Failure(o).outcome = o /\ Kept(Maint!Failure(o))
BY DEF Maint!Failure, Maint!Unreported, Kept

LEMMA WorkersRecorded ==
  ASSUME Recorded, NEW w \in Workers
  PROVE  /\ Maint!BeginRun(w) => Recorded'
         /\ Maint!TryLock(w) => Recorded'
         /\ Maint!FinishSkipped(w) => Recorded'
         /\ Maint!MarkAbandoned(w) => Recorded'
         /\ Maint!LockTables(w) => Recorded'
         /\ Maint!FailRun(w) => Recorded'
         /\ Maint!Leave(w) => Recorded'
         /\ Maint!Crash(w) => Recorded'
<1> USE DEF Recorded
<1>0. IsGraph(graph) /\ nruns \in 0 .. MaxRuns /\ MaxRuns \in Nat /\ Maint!None \notin Workers
  BY GraphConstants DEF Tables
<1>1. ASSUME Maint!BeginRun(w) PROVE Recorded'
  <2>1. PICK r : r = nruns + 1
    OBVIOUS
  <2>2. /\ nruns < MaxRuns /\ nruns' = r /\ wpc[w] = "idle"
        /\ run' = [run EXCEPT ![r] = [status |-> "running", active |-> TRUE]]
        /\ wrun' = [wrun EXCEPT ![w] = r] /\ wpc' = [wpc EXCEPT ![w] = "begun"]
        /\ UNCHANGED <<graph, report, advisory, tables, before, epc, hand, edits>>
    BY <1>1, <2>1 DEF Maint!BeginRun, Maint!Goto, Maint!editor
  <2>3. r \in Maint!Runs /\ r \in Nat /\ nruns' \in 0 .. MaxRuns
    BY <1>0, <2>1, <2>2 DEF Maint!Runs
  <2>4. run \in Rows /\ wrun \in [Workers -> Nat] /\ wpc \in [Workers -> Steps]
    BY DEF Tables
  <2>5. run' \in Rows /\ run'[r].status = "running" /\ \A q \in Maint!Runs : q # r => run'[q] = run[q]
    BY <2>2, <2>3, <2>4 DEF Rows
  <2>6. wrun' \in [Workers -> Nat] /\ wpc' \in [Workers -> Steps]
    BY <2>2, <2>3, <2>4 DEF Steps
  <2>7. Tables'
    BY <2>2, <2>3, <2>5, <2>6 DEF Tables, IsGraph, Maint!Attached, Maint!Alive
  <2>8. Unrun'
    BY <1>0, <2>1, <2>2, <2>5 DEF Unrun, Maint!Runs
  <2>9. Own'
    <3> SUFFICES ASSUME NEW v \in Workers
                 PROVE  /\ wrun'[v] <= nruns'
                        /\ wpc'[v] # "idle" => wrun'[v] \in Maint!Runs
                        /\ tables' = v <=> wpc'[v] = "writing"
                        /\ wpc'[v] = "writing" => before'[v] = graph'
      BY DEF Own
    <3>1. wrun[v] \in Nat /\ nruns \in Nat /\ r \in Nat /\ wrun[v] <= nruns
      BY <1>0, <2>3, <2>4 DEF Own
    <3>2. CASE v = w
      <4>1. wrun'[v] = r /\ wpc'[v] = "begun" /\ tables # w
        BY <2>2, <2>4, <3>2 DEF Own
      <4> QED
        BY <2>2, <2>3, <3>1, <3>2, <4>1
    <3>3. CASE v # w
      <4>1. wrun'[v] = wrun[v] /\ wpc'[v] = wpc[v]
        BY <2>2, <2>4, <3>3
      <4>2. wrun[v] <= r
        BY <1>0, <2>1, <3>1
      <4> QED
        BY <2>2, <4>1, <4>2 DEF Own
    <3> QED
      BY <3>2, <3>3
  <2>10. InHand'
    BY <2>2 DEF InHand
  <2>11. Maint!ReportedIffFinished'
    <3>1. run[r].status = "unborn"
      BY <1>0, <2>1, <2>3 DEF Unrun
    <3>2. report'[r].outcome = Maint!None
      BY <2>2, <2>3, <3>1 DEF Maint!ReportedIffFinished
    <3> QED
      BY <2>2, <2>5, <3>2 DEF Maint!ReportedIffFinished
  <2>12. Maint!WithinBudget'
    BY <2>2 DEF Maint!WithinBudget, Maint!Absorbers
  <2> QED
    BY <2>7, <2>8, <2>9, <2>10, <2>11, <2>12
<1>2. ASSUME Maint!TryLock(w) PROVE Recorded'
  <2>1. /\ wpc[w] = "begun"
        /\ UNCHANGED <<graph, nruns, run, report, tables, wrun, before, epc, hand, edits>>
        /\ advisory' \in {advisory, w}
        /\ wpc' \in {[wpc EXCEPT ![w] = "holding"], [wpc EXCEPT ![w] = "skipping"]}
    BY <1>2 DEF Maint!TryLock, Maint!Goto, Maint!records, Maint!editor
  <2>2. wpc \in [Workers -> Steps]
    BY DEF Tables
  <2>3. wpc' \in [Workers -> Steps] /\ wpc'[w] \in {"holding", "skipping"} /\ \A v \in Workers : v # w => wpc'[v] = wpc[v]
    BY <2>1, <2>2 DEF Steps
  <2>4. Tables'
    BY <2>1, <2>3 DEF Tables, IsGraph, Maint!Attached, Maint!Alive
  <2>5. Own'
    BY <2>1, <2>3 DEF Own
  <2>6. Unrun' /\ InHand' /\ Maint!ReportedIffFinished' /\ Maint!WithinBudget'
    BY <2>1 DEF Unrun, InHand, Maint!ReportedIffFinished, Maint!WithinBudget, Maint!Absorbers
  <2> QED
    BY <2>4, <2>5, <2>6
<1>3. ASSUME Maint!FinishSkipped(w) PROVE Recorded'
  <2>1. /\ wpc[w] = "skipping" /\ Maint!Finish(wrun[w], "skipped", Maint!Failure("skipped"))
        /\ wpc' = [wpc EXCEPT ![w] = "leaving"]
        /\ UNCHANGED <<graph, nruns, advisory, tables, wrun, before, epc, hand, edits>>
    BY <1>3 DEF Maint!FinishSkipped, Maint!Goto, Maint!editor
  <2>2. wrun[w] \in Maint!Runs /\ wrun[w] <= nruns
    BY <2>1 DEF Own
  <2>3. /\ run' \in Rows /\ report' = [q \in Maint!Runs |-> report'[q]] /\ Maint!ReportedIffFinished' /\ Unrun'
        /\ \A q \in Maint!Runs : report'[q] \in {report[q], Maint!Failure("skipped")}
    BY <2>1, <2>2, FinishRecords, FailuresKept
  <2>4. wpc' \in [Workers -> Steps] /\ wpc'[w] = "leaving" /\ \A v \in Workers : v # w => wpc'[v] = wpc[v]
    BY <2>1 DEF Tables, Steps
  <2>5. Tables'
    BY <2>1, <2>3, <2>4 DEF Tables, IsGraph, Maint!Attached, Maint!Alive
  <2>6. Own'
    BY <2>1, <2>4 DEF Own
  <2>7. InHand' /\ Maint!WithinBudget'
    BY <2>1, <2>3, BudgetKept, FailuresKept DEF InHand
  <2> QED
    BY <2>3, <2>5, <2>6, <2>7
<1>4. ASSUME Maint!MarkAbandoned(w) PROVE Recorded'
  <2>1. PICK old : old = Maint!Abandoned(wrun[w])
    OBVIOUS
  <2>2. /\ wpc[w] = "holding"
        /\ run' = [r \in Maint!Runs |-> IF r \in old THEN [run[r] EXCEPT !.status = "failed"] ELSE run[r]]
        /\ report' = [r \in Maint!Runs |-> IF r \in old THEN Maint!Failure("failed") ELSE report[r]]
        /\ wpc' = [wpc EXCEPT ![w] = "prepared"]
        /\ UNCHANGED <<graph, nruns, advisory, tables, wrun, before, epc, hand, edits>>
    BY <1>4, <2>1 DEF Maint!MarkAbandoned, Maint!Goto, Maint!editor
  <2>3. run \in Rows
    BY DEF Tables
  <2>4. run' \in Rows
    BY <2>2, <2>3 DEF Rows
  <2>5. \A r \in Maint!Runs : IF r \in old THEN run'[r].status = "failed" /\ report'[r] = Maint!Failure("failed")
                        ELSE run'[r] = run[r] /\ report'[r] = report[r]
    BY <2>2, <2>3 DEF Rows
  <2>6. report' = [r \in Maint!Runs |-> report'[r]]
    BY <2>2
  <2>7. wpc' \in [Workers -> Steps] /\ wpc'[w] = "prepared" /\ \A v \in Workers : v # w => wpc'[v] = wpc[v]
    BY <2>2 DEF Tables, Steps
  <2>8. Tables'
    BY <2>2, <2>4, <2>6, <2>7 DEF Tables, IsGraph, Maint!Attached, Maint!Alive
  <2>9. Unrun'
    <3>1. \A r \in Maint!Runs : r \in old => r <= nruns
      <4>1. wrun[w] \in Nat /\ wrun[w] <= nruns /\ nruns \in Nat
        BY <1>0 DEF Own, Tables
      <4> QED
        BY <2>1, <4>1 DEF Maint!Abandoned, Maint!Runs
    <3>2. nruns \in Nat /\ \A r \in Maint!Runs : r > nruns => r \notin old
      BY <1>0, <3>1 DEF Maint!Runs
    <3> QED
      BY <2>2, <2>5, <3>2 DEF Unrun
  <2>10. Own' /\ InHand'
    BY <2>2, <2>7 DEF Own, InHand
  <2>11. Maint!ReportedIffFinished'
    <3> SUFFICES ASSUME NEW q \in Maint!Runs
                 PROVE  /\ report'[q].outcome # Maint!None <=> run'[q].status \in {"success", "failed", "skipped"}
                        /\ report'[q].outcome # Maint!None => report'[q].outcome = run'[q].status
      BY DEF Maint!ReportedIffFinished
    <3>1. CASE q \in old
      BY <2>5, <3>1, FailuresKept DEF Maint!None
    <3>2. CASE q \notin old
      BY <2>5, <3>2 DEF Maint!ReportedIffFinished
    <3> QED
      BY <3>1, <3>2
  <2>12. Maint!WithinBudget'
    BY <2>5, BudgetKept, FailuresKept
  <2> QED
    BY <2>8, <2>9, <2>10, <2>11, <2>12
<1>5. ASSUME Maint!LockTables(w) PROVE Recorded'
  <2>1. /\ wpc[w] = "prepared" /\ tables = Maint!None /\ tables' = w
        /\ before' = [before EXCEPT ![w] = graph] /\ wpc' = [wpc EXCEPT ![w] = "writing"]
        /\ UNCHANGED <<graph, nruns, run, report, advisory, wrun, epc, hand, edits>>
    BY <1>5 DEF Maint!LockTables, Maint!Goto, Maint!records, Maint!editor
  <2>2. before' = [v \in Workers |-> before'[v]] /\ before'[w] = graph
    BY <2>1 DEF Tables
  <2>3. wpc' \in [Workers -> Steps] /\ wpc'[w] = "writing" /\ \A v \in Workers : v # w => wpc'[v] = wpc[v]
    BY <2>1 DEF Tables, Steps
  <2>4. Tables'
    BY <2>1, <2>2, <2>3 DEF Tables, IsGraph, Maint!Attached, Maint!Alive
  <2>5. \A v \in Workers : wpc[v] # "writing"
    BY <1>0, <2>1 DEF Own
  <2>6. Own'
    BY <2>1, <2>2, <2>3, <2>5 DEF Own
  <2>7. Unrun' /\ InHand' /\ Maint!ReportedIffFinished' /\ Maint!WithinBudget'
    BY <2>1 DEF Unrun, InHand, Maint!ReportedIffFinished, Maint!WithinBudget, Maint!Absorbers
  <2> QED
    BY <2>4, <2>6, <2>7
<1>6. ASSUME Maint!FailRun(w) PROVE Recorded'
  <2>1. /\ wpc[w] # "idle" /\ Maint!Finish(wrun[w], "failed", Maint!Failure("failed"))
        /\ tables' = (IF tables = w THEN Maint!None ELSE tables)
        /\ before' = [before EXCEPT ![w] = Maint!Empty] /\ wpc' = [wpc EXCEPT ![w] = "leaving"]
        /\ UNCHANGED <<graph, nruns, advisory, wrun, epc, hand, edits>>
    BY <1>6 DEF Maint!FailRun, Maint!Goto, Maint!editor
  <2>2. wrun[w] \in Maint!Runs /\ wrun[w] <= nruns
    BY <2>1 DEF Own
  <2>3. /\ run' \in Rows /\ report' = [q \in Maint!Runs |-> report'[q]] /\ Maint!ReportedIffFinished' /\ Unrun'
        /\ \A q \in Maint!Runs : report'[q] \in {report[q], Maint!Failure("failed")}
    BY <2>1, <2>2, FinishRecords, FailuresKept
  <2>4. wpc' \in [Workers -> Steps] /\ wpc'[w] = "leaving" /\ \A v \in Workers : v # w => wpc'[v] = wpc[v]
    BY <2>1 DEF Tables, Steps
  <2>5. before' = [v \in Workers |-> before'[v]] /\ \A v \in Workers : v # w => before'[v] = before[v]
    BY <2>1 DEF Tables
  <2>6. Tables'
    BY <2>1, <2>3, <2>4, <2>5 DEF Tables, IsGraph, Maint!Attached, Maint!Alive
  <2>7. Own'
    BY <1>0, <2>1, <2>4, <2>5 DEF Own
  <2>8. InHand' /\ Maint!WithinBudget'
    BY <2>1, <2>3, BudgetKept, FailuresKept DEF InHand
  <2> QED
    BY <2>3, <2>6, <2>7, <2>8
<1>7. ASSUME Maint!Leave(w) PROVE Recorded'
  <2>1. PICK r : r = wrun[w]
    OBVIOUS
  <2>2. /\ wpc[w] = "leaving" /\ advisory' = (IF advisory = w THEN Maint!None ELSE advisory)
        /\ run' = [run EXCEPT ![r].active = FALSE] /\ wrun' = [wrun EXCEPT ![w] = 0]
        /\ wpc' = [wpc EXCEPT ![w] = "idle"]
        /\ UNCHANGED <<graph, nruns, report, tables, before, epc, hand, edits>>
    BY <1>7, <2>1 DEF Maint!Leave, Maint!Goto, Maint!editor
  <2>3. run' \in Rows /\ \A q \in Maint!Runs : run'[q].status = run[q].status
    BY <2>2 DEF Tables, Rows
  <2>4. wpc' \in [Workers -> Steps] /\ wpc'[w] = "idle" /\ \A v \in Workers : v # w => wpc'[v] = wpc[v]
    BY <2>2 DEF Tables, Steps
  <2>5. wrun' \in [Workers -> Nat] /\ wrun'[w] = 0 /\ \A v \in Workers : v # w => wrun'[v] = wrun[v]
    BY <2>2 DEF Tables
  <2>6. Tables'
    BY <2>2, <2>3, <2>4, <2>5 DEF Tables, IsGraph, Maint!Attached, Maint!Alive
  <2>7. Own'
    BY <1>0, <2>2, <2>4, <2>5 DEF Own
  <2>8. Unrun' /\ InHand' /\ Maint!ReportedIffFinished' /\ Maint!WithinBudget'
    BY <2>2, <2>3 DEF Unrun, InHand, Maint!ReportedIffFinished, Maint!WithinBudget, Maint!Absorbers
  <2> QED
    BY <2>6, <2>7, <2>8
<1>8. ASSUME Maint!Crash(w) PROVE Recorded'
  <2>1. /\ advisory' = (IF advisory = w THEN Maint!None ELSE advisory)
        /\ tables' = (IF tables = w THEN Maint!None ELSE tables)
        /\ wrun' = [wrun EXCEPT ![w] = 0] /\ before' = [before EXCEPT ![w] = Maint!Empty]
        /\ wpc' = [wpc EXCEPT ![w] = "idle"]
        /\ UNCHANGED <<graph, nruns, run, report, epc, hand, edits>>
    BY <1>8 DEF Maint!Crash, Maint!Goto, Maint!records, Maint!editor
  <2>2. wpc' \in [Workers -> Steps] /\ wpc'[w] = "idle" /\ \A v \in Workers : v # w => wpc'[v] = wpc[v]
    BY <2>1 DEF Tables, Steps
  <2>3. wrun' \in [Workers -> Nat] /\ wrun'[w] = 0 /\ \A v \in Workers : v # w => wrun'[v] = wrun[v]
    BY <2>1 DEF Tables
  <2>4. before' = [v \in Workers |-> before'[v]] /\ \A v \in Workers : v # w => before'[v] = before[v]
    BY <2>1 DEF Tables
  <2>5. Tables'
    BY <2>1, <2>2, <2>3, <2>4 DEF Tables, IsGraph, Maint!Attached, Maint!Alive
  <2>6. Own'
    BY <1>0, <2>1, <2>2, <2>3, <2>4 DEF Own
  <2>7. Unrun' /\ InHand' /\ Maint!ReportedIffFinished' /\ Maint!WithinBudget'
    BY <2>1 DEF Unrun, InHand, Maint!ReportedIffFinished, Maint!WithinBudget, Maint!Absorbers
  <2> QED
    BY <2>5, <2>6, <2>7
<1> QED
  BY <1>1, <1>2, <1>3, <1>4, <1>5, <1>6, <1>7, <1>8

(* A run that commits: what it writes, and that it is over.                *)
Committing(w, g, d, details) ==
  /\ d = Maint!Reconciled(graph, cache[w])
  /\ details = [outcome |-> "success", node |-> Maint!ChangeSet(graph, d.graph).node,
                edge |-> Maint!ChangeSet(graph, d.graph).edge, into |-> d.into, replaced |-> d.replaced]
  /\ g = d.graph

LEMMA CommitFacts ==
  ASSUME Recorded, NEW w \in Workers, Maint!CommitRun(w)
  PROVE  \E g, d, details :
           /\ Committing(w, g, d, details)
           /\ wpc[w] = "writing" /\ graph' = IF report[wrun[w]] = Maint!Unreported THEN g ELSE graph
           /\ Maint!Finish(wrun[w], "success", details)
           /\ tables' = Maint!None /\ before' = [before EXCEPT ![w] = Maint!Empty]
           /\ wpc' = [wpc EXCEPT ![w] = "leaving"]
           /\ UNCHANGED <<nruns, advisory, wrun, cache, epc, hand, edits>>
<1>1. wpc[w] = "writing" /\ before[w] = graph
  BY DEF Maint!CommitRun, Recorded, Own
<1>2. PICK d : d = Maint!Reconciled(graph, cache[w])
  OBVIOUS
<1>3. PICK details : details = [outcome |-> "success", node |-> Maint!ChangeSet(graph, d.graph).node,
                edge |-> Maint!ChangeSet(graph, d.graph).edge, into |-> d.into, replaced |-> d.replaced]
  OBVIOUS
<1>4. PICK g : g = d.graph
  OBVIOUS
<1>5. Committing(w, g, d, details)
  BY <1>2, <1>3, <1>4 DEF Committing
<1>6. /\ graph' = (IF report[wrun[w]] = Maint!Unreported THEN g ELSE graph)
      /\ Maint!Finish(wrun[w], "success", details)
      /\ tables' = Maint!None /\ before' = [before EXCEPT ![w] = Maint!Empty]
      /\ wpc' = [wpc EXCEPT ![w] = "leaving"]
      /\ UNCHANGED <<nruns, advisory, wrun, cache, epc, hand, edits>>
  BY <1>1, <1>2, <1>3, <1>4 DEF Maint!CommitRun, Maint!Goto, Maint!editor
<1> QED
  BY <1>1, <1>5, <1>6

LEMMA CommitRecorded ==
  ASSUME Recorded, NEW w \in Workers, Maint!CommitRun(w)
  PROVE  Recorded'
<1> USE DEF Recorded
<1>0. IsGraph(graph) /\ Maint!None \notin Workers
  BY GraphConstants DEF Tables
<1>1. PICK g, d, details :
        /\ Committing(w, g, d, details)
        /\ wpc[w] = "writing" /\ graph' = IF report[wrun[w]] = Maint!Unreported THEN g ELSE graph
        /\ Maint!Finish(wrun[w], "success", details)
        /\ tables' = Maint!None /\ before' = [before EXCEPT ![w] = Maint!Empty]
        /\ wpc' = [wpc EXCEPT ![w] = "leaving"]
        /\ UNCHANGED <<nruns, advisory, wrun, cache, epc, hand, edits>>
  BY CommitFacts
<1>2. /\ IsGraph(d.graph)
      /\ Maint!Cardinality(Maint!Absorbers(d) \cup {n \in Maint!Nodes : d.into[n] # n}) <= MaxAffected
  BY <1>0, <1>1, ReconciledIsSound DEF Committing
<1>3. details.outcome = "success" /\ details.into = d.into
  BY <1>1 DEF Committing
<1>4. Kept(details)
  BY <1>2, <1>3 DEF Kept, Maint!Absorbers
<1>5. wrun[w] \in Maint!Runs /\ wrun[w] <= nruns /\ tables = w
  BY <1>1 DEF Own
<1>6. /\ run' \in Rows /\ report' = [q \in Maint!Runs |-> report'[q]] /\ Maint!ReportedIffFinished' /\ Unrun'
      /\ \A q \in Maint!Runs : report'[q] \in {report[q], details}
  BY <1>1, <1>3, <1>5, FinishRecords
<1>7. IsGraph(graph')
  BY <1>0, <1>1, <1>2 DEF Committing
<1>8. wpc' \in [Workers -> Steps] /\ wpc'[w] = "leaving" /\ \A v \in Workers : v # w => wpc'[v] = wpc[v]
  BY <1>1 DEF Tables, Steps
<1>9. before' = [v \in Workers |-> before'[v]]
  BY <1>1 DEF Tables
<1>10. Tables'
  <2>1. IsGraph(graph)'
    BY <1>7 DEF IsGraph, Maint!Attached, Maint!Alive
  <2> QED
    BY <1>1, <1>6, <1>8, <1>9, <2>1 DEF Tables
<1>11. \A v \in Workers : wpc'[v] # "writing"
  BY <1>5, <1>8 DEF Own
<1>12. Own'
  BY <1>0, <1>1, <1>8, <1>11 DEF Own
<1>13. InHand' /\ Maint!WithinBudget'
  BY <1>1, <1>4, <1>6, BudgetKept DEF InHand
<1> QED
  BY <1>6, <1>10, <1>12, <1>13

LEMMA NextRecorded == Recorded /\ [Maint!Next]_Maint!vars => Recorded'
<1> SUFFICES ASSUME Recorded, [Maint!Next]_Maint!vars PROVE Recorded'
  OBVIOUS
<1>1. CASE Maint!EditorStep
  BY <1>1, EditorsRecorded
<1>2. ASSUME NEW w \in Workers,
             \/ Maint!BeginRun(w) \/ Maint!TryLock(w) \/ Maint!FinishSkipped(w) \/ Maint!MarkAbandoned(w)
             \/ Maint!LockTables(w) \/ Maint!CommitRun(w) \/ Maint!FailRun(w) \/ Maint!Leave(w) \/ Maint!Crash(w)
      PROVE  Recorded'
  BY <1>2, WorkersRecorded, CommitRecorded
<1>3. ASSUME NEW r \in Maint!Runs, Maint!Deactivate(r) PROVE Recorded'
  <2>1. /\ run' = [run EXCEPT ![r].active = FALSE]
        /\ UNCHANGED <<graph, nruns, report, advisory, tables, wpc, wrun, before, epc, hand, edits>>
    BY <1>3 DEF Maint!Deactivate, Maint!worker, Maint!editor
  <2>2. run' \in Rows /\ \A q \in Maint!Runs : run'[q].status = run[q].status
    BY <2>1 DEF Recorded, Tables, Rows
  <2>3. Tables'
    BY <2>1, <2>2 DEF Recorded, Tables, IsGraph, Maint!Attached, Maint!Alive
  <2>4. Unrun' /\ Own' /\ InHand' /\ Maint!ReportedIffFinished' /\ Maint!WithinBudget'
    BY <2>1, <2>2 DEF Recorded, Unrun, Own, InHand, Maint!ReportedIffFinished, Maint!WithinBudget, Maint!Absorbers
  <2> QED
    BY <2>3, <2>4 DEF Recorded
<1>4. CASE UNCHANGED Maint!vars
  <2>1. UNCHANGED <<graph, nruns, run, report, advisory, tables, wpc, wrun, before, epc, hand, edits>>
    BY <1>4 DEF Maint!vars, Maint!records, Maint!worker, Maint!editor
  <2> QED
    BY <2>1 DEF Recorded, Tables, IsGraph, Maint!Attached, Maint!Alive, Unrun, Own, InHand, Maint!ReportedIffFinished, Maint!WithinBudget, Maint!Absorbers
<1> QED
  BY <1>1, <1>2, <1>3, <1>4 DEF Maint!Next, Maint!WorkerStep

LEMMA AlwaysRecorded == Maint!Spec => []Recorded
<1>1. Maint!Init => Recorded
  BY RecordedAtFirst
<1>2. Recorded /\ [Maint!Next]_Maint!vars => Recorded'
  BY NextRecorded
<1> QED
  BY <1>1, <1>2, PTL DEF Maint!Spec

(* Types hold, a run that was finished has one report and it says how, and *)
(* no run touches more nodes than MAX_AFFECTED_NODES                       *)
(* (src/knowledge/maintenance.py:153, contemplate_engine.py:52).           *)
THEOREM ReportsAlwaysHold == Maint!Spec => []ReportsHold
<1>1. Recorded => ReportsHold
  BY RecordedIsTyped DEF ReportsHold
<1> QED
  BY <1>1, AlwaysRecorded, PTL

-----------------------------------------------------------------------------
(* A report undoes its run.                                                *)
LEMMA RestoredByReport ==
  ASSUME NEW g \in Maint!Graph, NEW h \in Maint!Graph, NEW rep,
         rep.node = Maint!ChangeSet(g, h).node, rep.edge = Maint!ChangeSet(g, h).edge
  PROVE  Maint!Restored(h, rep) = g
<1>1. DOMAIN rep.node = {m \in Maint!Nodes : Maint!Row(g, m) # Maint!Row(h, m)}
      /\ \A n \in DOMAIN rep.node : rep.node[n][1] = Maint!Row(g, n)
  BY DEF Maint!ChangeSet
<1>2. DOMAIN rep.edge = {f \in Maint!Triples : g.edge[f] # h.edge[f]}
      /\ \A e \in DOMAIN rep.edge : rep.edge[e][1] = g.edge[e]
  BY DEF Maint!ChangeSet
<1>3. ASSUME NEW n \in Maint!Nodes
      PROVE  /\ (IF n \in DOMAIN rep.node THEN rep.node[n][1][1] ELSE h.status[n]) = g.status[n]
             /\ (IF n \in DOMAIN rep.node THEN rep.node[n][1][2] ELSE h.content[n]) = g.content[n]
             /\ (IF n \in DOMAIN rep.node THEN rep.node[n][1][3] ELSE h.ws[n]) = g.ws[n]
             /\ (IF n \in DOMAIN rep.node THEN rep.node[n][1][4] ELSE h.sup[n]) = g.sup[n]
  <2>1. CASE n \in DOMAIN rep.node
    BY <1>1, <2>1 DEF Maint!Row
  <2>2. CASE n \notin DOMAIN rep.node
    <3>1. Maint!Row(g, n) = Maint!Row(h, n)
      BY <1>1, <2>2
    <3> QED
      BY <2>2, <3>1 DEF Maint!Row
  <2> QED
    BY <2>1, <2>2
<1>4. \A e \in Maint!Triples : (IF e \in DOMAIN rep.edge THEN rep.edge[e][1] ELSE h.edge[e]) = g.edge[e]
  BY <1>2
<1>5. PICK b : b = Maint!Restored(h, rep)
  OBVIOUS
<1>6. g.status \in [Maint!Nodes -> {"unborn", "staged", "committed", "gone"}] /\ g.content \in [Maint!Nodes -> Seq(Maint!Facts)]
      /\ g.ws \in [Maint!Nodes -> SUBSET Workspaces] /\ g.sup \in [Maint!Nodes -> 0 .. N] /\ g.edge \in [Maint!Triples -> 0 .. MaxWeight]
  BY Columns
<1>7. b.status = g.status
  <2>1. b.status = [n \in Maint!Nodes |-> IF n \in DOMAIN rep.node THEN rep.node[n][1][1] ELSE h.status[n]]
    BY <1>5 DEF Maint!Restored
  <2> QED
    BY <1>3, <1>6, <2>1
<1>8. b.content = g.content
  <2>1. b.content = [n \in Maint!Nodes |-> IF n \in DOMAIN rep.node THEN rep.node[n][1][2] ELSE h.content[n]]
    BY <1>5 DEF Maint!Restored
  <2> QED
    BY <1>3, <1>6, <2>1
<1>9. b.ws = g.ws
  <2>1. b.ws = [n \in Maint!Nodes |-> IF n \in DOMAIN rep.node THEN rep.node[n][1][3] ELSE h.ws[n]]
    BY <1>5 DEF Maint!Restored
  <2> QED
    BY <1>3, <1>6, <2>1
<1>10. b.sup = g.sup
  <2>1. b.sup = [n \in Maint!Nodes |-> IF n \in DOMAIN rep.node THEN rep.node[n][1][4] ELSE h.sup[n]]
    BY <1>5 DEF Maint!Restored
  <2> QED
    BY <1>3, <1>6, <2>1
<1>11. b.edge = g.edge
  <2>1. b.edge = [e \in Maint!Triples |-> IF e \in DOMAIN rep.edge THEN rep.edge[e][1] ELSE h.edge[e]]
    BY <1>5 DEF Maint!Restored
  <2> QED
    BY <1>4, <1>6, <2>1
<1>12. b = [status |-> b.status, content |-> b.content, ws |-> b.ws, sup |-> b.sup, edge |-> b.edge]
  BY <1>5 DEF Maint!Restored
<1>13. g = [status |-> g.status, content |-> g.content, ws |-> g.ws, sup |-> g.sup, edge |-> g.edge]
  BY DEF Maint!Graph
<1> QED
  BY <1>5, <1>7, <1>8, <1>9, <1>10, <1>11, <1>12, <1>13

(* A step of Undoable.                                                     *)
Undone ==
  /\ \A r \in Maint!Runs : Maint!Succeeds(r) => Maint!Restored(graph', report'[r]) = graph
  /\ Maint!records' # Maint!records /\ (\A r \in Maint!Runs : ~Maint!Succeeds(r)) => graph' = graph
  /\ graph' # graph /\ edits' = edits => \E r \in Maint!Runs : Maint!Succeeds(r)

LEMMA QuietSteps ==
  ASSUME \A r \in Maint!Runs : ~Maint!Succeeds(r), graph' = graph \/ (edits' # edits /\ Maint!records' = Maint!records)
  PROVE  Undone
BY DEF Undone

LEMMA EditsQuiet ==
  ASSUME Recorded, Maint!EditorStep
  PROVE  Undone /\ \A r \in Maint!Runs : ~Maint!Succeeds(r)
<1>1. edits' # edits \/ graph' = graph
  <2>1. edits' = edits + 1 \/ graph' = graph
    <3>1. \A g : Maint!Edit(g) => edits' = edits + 1
      BY DEF Maint!Edit
    <3>2. ASSUME NEW n \in Maint!Nodes,
                 \/ \E s \in {"staged", "committed"}, W \in SUBSET Workspaces : Maint!CreateNode(n, s, W)
                 \/ \E f \in Maint!Facts : Maint!RewriteNode(n, f)
                 \/ Maint!DeleteNode(n) \/ Maint!CommitNode(n) \/ Maint!UncommitNode(n)
          PROVE  edits' = edits + 1
      BY <3>1, <3>2 DEF Maint!CreateNode, Maint!RewriteNode, Maint!DeleteNode, Maint!CommitNode, Maint!UncommitNode
    <3>3. ASSUME NEW e \in Maint!Triples, Maint!DeleteEdge(e) \/ \E weight \in 1 .. MaxWeight : Maint!CreateEdge(e, weight)
          PROVE  edits' = edits + 1
      BY <3>1, <3>3 DEF Maint!DeleteEdge, Maint!CreateEdge
    <3>4. ASSUME NEW c \in Editors, Maint!MergeWrite(c) \/ \E s, a \in Maint!Nodes : Maint!MergeRead(c, s, a)
          PROVE  edits' = edits + 1 \/ graph' = graph
      BY <3>4 DEF Maint!MergeWrite, Maint!MergeRead
    <3> QED
      BY <3>2, <3>3, <3>4 DEF Maint!EditorStep
  <2>2. edits \in Nat
    BY DEF Recorded, Tables
  <2> QED
    BY <2>1, <2>2
<1>2. Maint!records' = Maint!records
  BY DEF Maint!EditorStep, Maint!CreateNode, Maint!RewriteNode, Maint!DeleteNode, Maint!CommitNode, Maint!UncommitNode, Maint!DeleteEdge, Maint!CreateEdge,
         Maint!Edit, Maint!MergeWrite, Maint!MergeRead
<1>3. \A r \in Maint!Runs : ~Maint!Succeeds(r)
  BY <1>2 DEF Maint!records, Maint!Succeeds
<1> QED
  BY <1>1, <1>2, <1>3, QuietSteps

LEMMA FailuresQuiet ==
  ASSUME Tables, NEW q \in Maint!Runs, NEW o \in {"failed", "skipped"}, Maint!Finish(q, o, Maint!Failure(o))
  PROVE  \A r \in Maint!Runs : ~Maint!Succeeds(r)
BY DEF Tables, Rows, Maint!Finish, Maint!Succeeds

LEMMA WorkersQuiet ==
  ASSUME Recorded, NEW w \in Workers,
         \/ Maint!BeginRun(w) \/ Maint!TryLock(w) \/ Maint!FinishSkipped(w) \/ Maint!MarkAbandoned(w)
         \/ Maint!LockTables(w) \/ Maint!FailRun(w) \/ Maint!Leave(w) \/ Maint!Crash(w)
  PROVE  Undone /\ \A r \in Maint!Runs : ~Maint!Succeeds(r)
<1>1. graph' = graph
  BY DEF Maint!BeginRun, Maint!TryLock, Maint!FinishSkipped, Maint!MarkAbandoned, Maint!LockTables, Maint!FailRun, Maint!Leave, Maint!Crash
<1>2. run \in Rows /\ Tables
  BY DEF Recorded, Tables
<1>3. ASSUME Maint!BeginRun(w) PROVE \A r \in Maint!Runs : ~Maint!Succeeds(r)
  BY <1>2, <1>3 DEF Maint!BeginRun, Maint!Succeeds, Rows
<1>4. ASSUME Maint!TryLock(w) \/ Maint!LockTables(w) \/ Maint!Crash(w) PROVE \A r \in Maint!Runs : ~Maint!Succeeds(r)
  BY <1>4 DEF Maint!TryLock, Maint!LockTables, Maint!Crash, Maint!records, Maint!Succeeds
<1>5. ASSUME Maint!FinishSkipped(w) PROVE \A r \in Maint!Runs : ~Maint!Succeeds(r)
  <2>1. wrun[w] \in Maint!Runs
    BY <1>5 DEF Maint!FinishSkipped, Recorded, Own
  <2> QED
    BY <1>2, <1>5, <2>1, FailuresQuiet DEF Maint!FinishSkipped
<1>6. ASSUME Maint!MarkAbandoned(w) PROVE \A r \in Maint!Runs : ~Maint!Succeeds(r)
  BY <1>2, <1>6 DEF Maint!MarkAbandoned, Maint!Succeeds, Rows
<1>7. ASSUME Maint!FailRun(w) PROVE \A r \in Maint!Runs : ~Maint!Succeeds(r)
  <2>1. wrun[w] \in Maint!Runs
    BY <1>7 DEF Maint!FailRun, Recorded, Own
  <2> QED
    BY <1>2, <1>7, <2>1, FailuresQuiet DEF Maint!FailRun
<1>8. ASSUME Maint!Leave(w) PROVE \A r \in Maint!Runs : ~Maint!Succeeds(r)
  BY <1>2, <1>8 DEF Maint!Leave, Maint!Succeeds, Rows
<1>9. \A r \in Maint!Runs : ~Maint!Succeeds(r)
  BY <1>3, <1>4, <1>5, <1>6, <1>7, <1>8
<1> QED
  BY <1>1, <1>9, QuietSteps

(* The run that commits is the one whose report lists what changed.        *)
Effects(r) ==
  \E t : LET d == Maint!Reconciled(graph, t) IN
         graph' = d.graph /\ report'[r].into = d.into /\ report'[r].replaced = d.replaced

LEMMA CommitUndone ==
  ASSUME Recorded, NEW w \in Workers, Maint!CommitRun(w)
  PROVE  Undone /\ \A r \in Maint!Runs : Maint!Succeeds(r) => Effects(r)
<1>1. PICK g, d, details :
        /\ Committing(w, g, d, details)
        /\ wpc[w] = "writing" /\ graph' = IF report[wrun[w]] = Maint!Unreported THEN g ELSE graph
        /\ Maint!Finish(wrun[w], "success", details)
        /\ tables' = Maint!None /\ before' = [before EXCEPT ![w] = Maint!Empty]
        /\ wpc' = [wpc EXCEPT ![w] = "leaving"]
        /\ UNCHANGED <<nruns, advisory, wrun, cache, epc, hand, edits>>
  BY CommitFacts
<1>2. PICK q : q = wrun[w]
  OBVIOUS
<1>3. q \in Maint!Runs
  BY <1>1, <1>2 DEF Recorded, Own
<1>4. CASE report[q] = Maint!Unreported
  <2>1. graph' = d.graph /\ run' = [run EXCEPT ![q].status = "success"] /\ report' = [report EXCEPT ![q] = details]
    BY <1>1, <1>2, <1>4 DEF Maint!Finish, Committing
  <2>2. run \in Rows /\ report = [r \in Maint!Runs |-> report[r]] /\ IsGraph(graph)
    BY DEF Recorded, Tables
  <2>3. report'[q] = details /\ run'[q].status = "success" /\ \A r \in Maint!Runs : r # q => run'[r] = run[r]
    BY <1>3, <2>1, <2>2 DEF Rows
  <2>4. run[q].status # "success"
    BY <1>3, <1>4 DEF Recorded, Maint!ReportedIffFinished, Maint!Unreported
  <2>5. Maint!Succeeds(q) /\ \A r \in Maint!Runs : Maint!Succeeds(r) => r = q
    BY <2>3, <2>4 DEF Maint!Succeeds
  <2>6. graph \in Maint!Graph /\ d.graph \in Maint!Graph
    BY <1>1, <2>2, ReconciledIsSound DEF Committing, IsGraph
  <2>7. details.node = Maint!ChangeSet(graph, d.graph).node /\ details.edge = Maint!ChangeSet(graph, d.graph).edge
    BY <1>1 DEF Committing
  <2>8. Maint!Restored(d.graph, details) = graph
    BY <2>6, <2>7, RestoredByReport
  <2>9. Maint!Restored(graph', report'[q]) = graph
    BY <2>1, <2>3, <2>8
  <2>10. Undone
    BY <1>3, <2>5, <2>9 DEF Undone
  <2>11. Effects(q)
    <3>1. d = Maint!Reconciled(graph, cache[w]) /\ details.into = d.into /\ details.replaced = d.replaced
      BY <1>1 DEF Committing
    <3> QED
      BY <2>1, <2>3, <3>1 DEF Effects
  <2> QED
    BY <2>5, <2>10, <2>11
<1>5. CASE report[q] # Maint!Unreported
  <2>1. graph' = graph /\ UNCHANGED <<run, report>>
    BY <1>1, <1>2, <1>5 DEF Maint!Finish
  <2>2. \A r \in Maint!Runs : ~Maint!Succeeds(r)
    BY <2>1 DEF Maint!Succeeds
  <2> QED
    BY <2>1, <2>2, QuietSteps
<1> QED
  BY <1>4, <1>5

LEMMA DeactivateQuiet ==
  ASSUME Recorded, NEW r \in Maint!Runs, Maint!Deactivate(r)
  PROVE  Undone /\ \A q \in Maint!Runs : ~Maint!Succeeds(q)
<1>1. graph' = graph /\ run \in Rows
  BY DEF Maint!Deactivate, Recorded, Tables
<1>2. \A q \in Maint!Runs : ~Maint!Succeeds(q)
  BY <1>1 DEF Maint!Deactivate, Maint!Succeeds, Rows
<1> QED
  BY <1>1, <1>2, QuietSteps

(* From what a run left, its report leads back to exactly what the run     *)
(* found, whoever edited the graph until it locked the tables              *)
(* (src/knowledge/contemplate_report.py:51).                               *)
THEOREM ReportsUndo == Maint!Spec => Undoable
<1>1. Recorded /\ Maint!Next => Undone
  <2> SUFFICES ASSUME Recorded, Maint!Next PROVE Undone
    OBVIOUS
  <2> QED
    BY EditsQuiet, WorkersQuiet, CommitUndone, DeactivateQuiet DEF Maint!Next, Maint!WorkerStep
<1>2. Recorded /\ [Maint!Next]_Maint!vars => [Undone]_Maint!vars
  BY <1>1
<1>3. Maint!Spec => []Recorded
  BY AlwaysRecorded
<1>4. Maint!Spec => [][Undone]_Maint!vars
  BY <1>2, <1>3, PTL DEF Maint!Spec
<1> QED
  BY <1>4 DEF Undoable, Maint!Undoable, Undone

-----------------------------------------------------------------------------
(* Where nodes end up: the heir h[n] of each, at most d[n] merges away.    *)
Said(t) == {t[i] : i \in DOMAIN t}
Moved(x) == {m \in Maint!Nodes : x.into[m] # m}

Heirs(x, h, d) ==
  \A m \in Maint!Nodes :
    /\ d[m] <= Maint!Cardinality(Moved(x))
    /\ x.into[m] = m => h[m] = m /\ d[m] = 0
    /\ x.into[m] # m => h[m] = h[x.into[m]] /\ d[x.into[m]] < d[m] /\ x.graph.status[m] = "gone"
    /\ x.into[h[m]] = h[m] /\ x.roots[h[m]] = x.roots[m]
    /\ m \in DomainNodes => h[m] = m

Linked(g, x, h) ==
  \A e \in Maint!Triples : h[e[1]] # h[e[2]] => x.graph.edge[<<h[e[1]], h[e[2]], e[3]>>] >= g.edge[e]

Preserved(g, x, h) ==
  \A m \in Maint!Alive(g) :
    /\ h[m] \in Maint!Alive(x.graph) /\ g.ws[m] \subseteq x.graph.ws[h[m]]
    /\ m \notin x.replaced => Said(g.content[m]) \subseteq Said(x.graph.content[h[m]])

Traced(g, x, h, d) ==
  /\ h \in [Maint!Nodes -> Maint!Nodes] /\ d \in [Maint!Nodes -> Nat]
  /\ Heirs(x, h, d) /\ Linked(g, x, h) /\ Preserved(g, x, h)

Traces(g, x) == \E h, d : Traced(g, x, h, d)

LEMMA TracedAtFirst ==
  ASSUME NEW g, IsGraph(g), NEW t
  PROVE  Traces(g, Maint!Work(g, t))
<1>1. PICK x : x = Maint!Work(g, t)
  OBVIOUS
<1>2. x.graph = g /\ x.into = [n \in Maint!Nodes |-> n]
  BY <1>1 DEF Maint!Work
<1>3. PICK h, d : h = [n \in Maint!Nodes |-> n] /\ d = [n \in Maint!Nodes |-> 0]
  OBVIOUS
<1>4. h \in [Maint!Nodes -> Maint!Nodes] /\ d \in [Maint!Nodes -> Nat] /\ \A n \in Maint!Nodes : h[n] = n /\ d[n] = 0 /\ x.into[n] = n
  BY <1>2, <1>3
<1>5. Maint!Cardinality(Moved(x)) = 0
  <2>1. Moved(x) = {}
    BY <1>4 DEF Moved
  <2> QED
    BY <2>1, FS_EmptySet, SameCardinality
<1>6. Heirs(x, h, d)
  BY <1>4, <1>5 DEF Heirs
<1>7. Linked(g, x, h)
  <2> SUFFICES ASSUME NEW e \in Maint!Triples
               PROVE  x.graph.edge[<<h[e[1]], h[e[2]], e[3]>>] >= g.edge[e]
    BY DEF Linked
  <2>1. e = <<e[1], e[2], e[3]>> /\ e[1] \in Maint!Nodes /\ e[2] \in Maint!Nodes
    BY DEF Maint!Triples
  <2>2. g.edge[e] \in 0 .. MaxWeight
    BY Columns DEF IsGraph
  <2>3. x.graph.edge[<<h[e[1]], h[e[2]], e[3]>>] = g.edge[e]
    BY <1>2, <1>4, <2>1
  <2> QED
    BY <2>2, <2>3
<1>8. Preserved(g, x, h)
  BY <1>2, <1>4 DEF Preserved, Maint!Alive
<1> QED
  BY <1>1, <1>4, <1>6, <1>7, <1>8 DEF Traces, Traced

(* Nothing about heirs depends on who was deferred, or on what is embedded. *)
LEMMA AlikeTraced ==
  ASSUME NEW g, NEW x, Traces(g, x), NEW y,
         y.graph = x.graph, y.into = x.into, y.roots = x.roots, y.replaced = x.replaced
  PROVE  Traces(g, y)
<1>1. Moved(y) = Moved(x)
  BY DEF Moved
<1>2. ASSUME NEW h, NEW d, Traced(g, x, h, d) PROVE Traced(g, y, h, d)
  <2>1. Heirs(y, h, d)
    BY <1>1, <1>2 DEF Traced, Heirs
  <2>2. Linked(g, y, h)
    BY <1>2 DEF Traced, Linked
  <2>3. Preserved(g, y, h)
    BY <1>2 DEF Traced, Preserved
  <2> QED
    BY <1>2, <2>1, <2>2, <2>3 DEF Traced
<1> QED
  BY <1>2 DEF Traces

LEMMA DeferredTraced ==
  ASSUME NEW t, NEW r, NEW g, NEW x \in Works(t, r), Traces(g, x), NEW n
  PROVE  Traces(g, Maint!Deferred(x, n)) /\ Maint!Deferred(x, n).graph = x.graph
<1>1. PICK y : y = Maint!Deferred(x, n)
  OBVIOUS
<1>2. y.graph = x.graph /\ y.into = x.into /\ y.roots = x.roots /\ y.replaced = x.replaced
  BY <1>1 DEF Maint!Deferred, Works
<1> QED
  BY <1>1, <1>2, AlikeTraced

LEMMA PromoteTraced ==
  ASSUME NEW t, NEW r, NEW g, NEW x \in Works(t, r), Traces(g, x), NEW n \in Maint!Nodes, x.graph.status[n] # "gone"
  PROVE  /\ Traces(g, Maint!Promote(x, n))
         /\ \A m \in Maint!Nodes \ {n} : Maint!Promote(x, n).graph.status[m] = x.graph.status[m]
<1>1. PICK y : y = Maint!Promote(x, n)
  OBVIOUS
<1>2. PICK p : p = x.graph
  OBVIOUS
<1>3. p \in Maint!Graph
  BY <1>2 DEF Works
<1>4. PICK q : q = [p EXCEPT !.status[n] = "committed"]
  OBVIOUS
<1>5. y.graph = q /\ y.into = x.into /\ y.roots = x.roots /\ y.replaced = x.replaced
  <2>1. y = [x EXCEPT !.graph = q]
    BY <1>1, <1>2, <1>4 DEF Maint!Promote
  <2> QED
    BY <2>1 DEF Works
<1>6. q.edge = p.edge /\ q.ws = p.ws /\ q.content = p.content /\ q.status = [p.status EXCEPT ![n] = "committed"]
  BY <1>3, <1>4 DEF Maint!Graph
<1>7. q.status[n] = "committed" /\ \A m \in Maint!Nodes : m # n => q.status[m] = p.status[m]
  BY <1>3, <1>6, Columns
<1>8. Moved(y) = Moved(x)
  BY <1>5 DEF Moved
<1>9. Maint!Alive(p) \subseteq Maint!Alive(q)
  BY <1>7 DEF Maint!Alive
<1>10. ASSUME NEW h, NEW d, Traced(g, x, h, d) PROVE Traced(g, y, h, d)
  <2>1. Heirs(y, h, d)
    <3>1. \A m \in Maint!Nodes : x.into[m] # m => y.graph.status[m] = "gone"
      BY <1>2, <1>5, <1>7, <1>10 DEF Traced, Heirs
    <3> QED
      BY <1>5, <1>8, <1>10, <3>1 DEF Traced, Heirs
  <2>2. Linked(g, y, h)
    BY <1>2, <1>5, <1>6, <1>10 DEF Traced, Linked
  <2>3. Preserved(g, y, h)
    BY <1>2, <1>5, <1>6, <1>9, <1>10 DEF Traced, Preserved
  <2> QED
    BY <1>10, <2>1, <2>2, <2>3 DEF Traced
<1> QED
  BY <1>1, <1>2, <1>5, <1>7, <1>10 DEF Traces

(* Texts joined are the texts of both.                                     *)
LEMMA SaidJoined ==
  ASSUME NEW a \in Seq(Maint!Facts), NEW b \in Seq(Maint!Facts)
  PROVE  Said(a) \subseteq Said(Maint!Joined(a, b)) /\ Said(b) \subseteq Said(Maint!Joined(a, b))
<1>1. CASE a = b
  BY <1>1 DEF Maint!Joined
<1>2. CASE a # b
  <2>1. Maint!Joined(a, b) = a \o b
    BY <1>2 DEF Maint!Joined
  <2>2. Len(a) \in Nat /\ Len(b) \in Nat /\ Len(a \o b) = Len(a) + Len(b) /\ DOMAIN (a \o b) = 1 .. Len(a \o b)
        /\ DOMAIN a = 1 .. Len(a) /\ DOMAIN b = 1 .. Len(b)
    OBVIOUS
  <2>3. ASSUME NEW i \in DOMAIN a PROVE i \in DOMAIN (a \o b) /\ (a \o b)[i] = a[i]
    BY <2>2
  <2>4. ASSUME NEW i \in DOMAIN b PROVE Len(a) + i \in DOMAIN (a \o b) /\ (a \o b)[Len(a) + i] = b[i]
    BY <2>2
  <2> QED
    BY <2>1, <2>3, <2>4 DEF Said
<1> QED
  BY <1>1, <1>2

(* Merge by merge one comes to the heir, in as many steps as there are     *)
(* nodes.                                                                  *)
LEMMA HeirFound ==
  ASSUME NEW x, NEW h \in [Maint!Nodes -> Maint!Nodes], NEW d \in [Maint!Nodes -> Nat], Heirs(x, h, d),
         x.into \in [Maint!Nodes -> Maint!Nodes], NEW rep, rep.into = x.into, NEW n \in Maint!Nodes
  PROVE  Maint!Heir(rep, n) = h[n]
<1>0. N \in Nat /\ N \in 0 .. N
  BY GraphConstants
<1> DEFINE Eq(w) == w = [k \in 0 .. N |-> IF k = 0 THEN n ELSE rep.into[w[k - 1]]]
           F == [k \in 1 .. N |-> x.into]
<1>1. Maint!Heir(rep, n) = (CHOOSE w : Eq(w))[N]
  BY DEF Maint!Heir
<1>2. \E w : Eq(w)
  <2>1. F \in Stepping(N, Maint!Nodes)
    BY DEF Stepping
  <2>2. PICK w \in [0 .. N -> Maint!Nodes] : w[0] = n /\ \A k \in 1 .. N : w[k] = F[k][w[k - 1]]
    <3> HIDE DEF F, Eq
    <3>1. \E w : Iteration(N, Maint!Nodes, n, F, w)
      BY <1>0, <2>1, Iterates
    <3> QED
      BY <3>1 DEF Iteration
  <2>3. \A k \in 0 .. N : k = 0 \/ k \in 1 .. N
    OBVIOUS
  <2>4. \A k \in 1 .. N : w[k] = rep.into[w[k - 1]]
    BY <2>2
  <2>5. \A k \in 0 .. N : w[k] = IF k = 0 THEN n ELSE rep.into[w[k - 1]]
    <3> HIDE DEF F, Eq
    <3> QED
      BY <2>2, <2>3, <2>4, Zenon
  <2>6. Eq(w)
    <3> HIDE DEF F
    <3> QED
      BY <2>2, <2>5
  <2> HIDE DEF Eq
  <2> QED
    BY <2>6
<1>3. PICK w : w = CHOOSE v : Eq(v)
  OBVIOUS
<1>4. Eq(w)
  <2> HIDE DEF Eq
  <2> QED
    BY <1>2, <1>3
<1>5. w[0] = n /\ \A k \in 1 .. N : w[k] = x.into[w[k - 1]]
  BY <1>0, <1>4
<1> HIDE DEF Eq, F
<1>6. \A m \in Maint!Nodes : /\ d[m] \in Nat /\ h[m] \in Maint!Nodes /\ x.into[m] \in Maint!Nodes
                             /\ x.into[m] = m => h[m] = m /\ d[m] = 0
                             /\ x.into[m] # m => h[m] = h[x.into[m]] /\ d[x.into[m]] < d[m]
  BY DEF Heirs
<1>7. d[n] <= N
  <2>1. Maint!Cardinality(Maint!Nodes) = N /\ IsFiniteSet(Maint!Nodes)
    BY <1>0, FS_Interval, SameCardinality DEF Maint!Nodes
  <2>2. Moved(x) \subseteq Maint!Nodes
    BY DEF Moved
  <2>3. Maint!Cardinality(Moved(x)) <= N /\ Maint!Cardinality(Moved(x)) \in Nat
    BY <2>1, <2>2, FS_Subset, FS_CardinalityType, SameCardinality
  <2>4. d[n] <= Maint!Cardinality(Moved(x))
    BY DEF Heirs
  <2> QED
    BY <1>0, <1>6, <2>3, <2>4
<1> DEFINE T == {k \in 0 .. N : w[k] \in Maint!Nodes /\ h[w[k]] = h[n] /\ (d[w[k]] = 0 \/ d[w[k]] + k <= d[n])}
<1>8. 0 \in T
  BY <1>0, <1>5, <1>6
<1>9. \A k \in 0 .. N : k < N /\ k \in T => k + 1 \in T
  <2> SUFFICES ASSUME NEW k \in 0 .. N, k < N, k \in T PROVE k + 1 \in T
    OBVIOUS
  <2>1. k \in Nat /\ k + 1 \in 1 .. N /\ k + 1 \in 0 .. N /\ (k + 1) - 1 = k
    BY <1>0
  <2>2. PICK m : m = w[k]
    OBVIOUS
  <2>3. m \in Maint!Nodes /\ h[m] = h[n] /\ (d[m] = 0 \/ d[m] + k <= d[n]) /\ w[k + 1] = x.into[m]
    BY <1>5, <2>1, <2>2
  <2>4. CASE x.into[m] = m
    BY <1>6, <2>1, <2>3, <2>4
  <2>5. CASE x.into[m] # m
    <3>1. PICK o : o = x.into[m]
      OBVIOUS
    <3>2. o \in Maint!Nodes /\ h[o] = h[n] /\ d[o] \in Nat /\ d[m] \in Nat /\ d[n] \in Nat /\ d[o] < d[m]
      BY <1>6, <2>3, <2>5, <3>1
    <3>3. d[o] + (k + 1) <= d[n]
      BY <2>1, <2>3, <3>2
    <3> QED
      BY <2>1, <2>3, <3>1, <3>2, <3>3
  <2> QED
    BY <2>4, <2>5
<1>10. N \in T
  <2> HIDE DEF T
  <2>1. \A k \in 0 .. N : k \in T
    BY <1>0, <1>8, <1>9, Upwards, Zenon
  <2> QED
    BY <1>0, <2>1
<1>11. PICK m : m = w[N]
  OBVIOUS
<1>12. m \in Maint!Nodes /\ h[m] = h[n] /\ (d[m] = 0 \/ d[m] + N <= d[n])
  BY <1>10, <1>11
<1>13. d[m] = 0
  BY <1>0, <1>6, <1>7, <1>12
<1>14. x.into[m] = m
  BY <1>6, <1>12, <1>13
<1>15. h[m] = m
  BY <1>6, <1>12, <1>14
<1> QED
  BY <1>1, <1>3, <1>11, <1>12, <1>15

(* What a step about n leaves as it was, and what a merge needs.           *)
Follows(g, x, n, y) == Traces(g, y) /\ \A m \in Maint!Nodes \ {n} : y.graph.status[m] = x.graph.status[m]

Mergeable(x, c, n) ==
  /\ c # n /\ c \notin DomainNodes /\ n \notin DomainNodes /\ x.roots[c] = x.roots[n]
  /\ x.graph.status[c] = "committed" /\ x.graph.status[n] \in {"staged", "committed"}

(* A merge of n into c makes c the heir of those whose heir was n.         *)
LEMMA MergeTraced ==
  ASSUME NEW t, NEW r, NEW g, IsGraph(g), NEW x \in Works(t, r), Traces(g, x),
         NEW c \in Maint!Nodes, NEW n \in Maint!Nodes, NEW b \in BOOLEAN, Mergeable(x, c, n)
  PROVE  Follows(g, x, n, Maint!Merge(x, c, n, b))
<1> USE DEF Mergeable, Follows
<1>1. CASE Maint!Cardinality(x.affected \cup {c, n}) > MaxAffected
  <2>1. Maint!Merge(x, c, n, b) = Maint!Deferred(x, n)
    BY <1>1 DEF Maint!Merge
  <2> QED
    BY <2>1, DeferredTraced
<1>2. CASE ~(Maint!Cardinality(x.affected \cup {c, n}) > MaxAffected)
  <2>1. PICK y, i : y = Maint!Merge(x, c, n, b) /\ i = [x.into EXCEPT ![n] = c]
    OBVIOUS
  <2>2. PICK p, q : p = x.graph /\ q = Maint!Absorbed(p, c, n, b)
    OBVIOUS
  <2>3. /\ y.graph = q /\ y.into = i /\ y.roots = x.roots
        /\ y.replaced = IF b THEN x.replaced \cup Maint!OfHeir(x, c) ELSE x.replaced
    <3>1. /\ Maint!Merge(x, c, n, b).graph = Maint!Absorbed(x.graph, c, n, b)
          /\ Maint!Merge(x, c, n, b).into = [x.into EXCEPT ![n] = c]
          /\ Maint!Merge(x, c, n, b).roots = x.roots
          /\ Maint!Merge(x, c, n, b).replaced = IF b THEN x.replaced \cup Maint!OfHeir(x, c) ELSE x.replaced
      <4>1. PICK a, k, z : a = x.affected \cup {c, n} /\ k = x.changed \cup {c}
                           /\ z = IF b THEN x.replaced \cup Maint!OfHeir(x, c) ELSE x.replaced
        OBVIOUS
      <4>2. Maint!Merge(x, c, n, b) =
              [graph |-> Maint!Absorbed(x.graph, c, n, b), texts |-> x.texts, roots |-> x.roots, affected |-> a,
               deferred |-> x.deferred, changed |-> k, into |-> [x.into EXCEPT ![n] = c], replaced |-> z]
        BY <1>2, <4>1 DEF Maint!Merge, Works
      <4> QED
        BY <4>1, <4>2
    <3> QED
      BY <2>1, <2>2, <3>1, Zenon
  <2>4. p \in Maint!Graph /\ Maint!Attached(p) /\ x.into \in [Maint!Nodes -> Maint!Nodes]
    BY <2>2 DEF Works, Coherent, IsGraph
  <2>5. /\ p.status \in [Maint!Nodes -> {"unborn", "staged", "committed", "gone"}] /\ p.content \in [Maint!Nodes -> Seq(Maint!Facts)]
        /\ p.ws \in [Maint!Nodes -> SUBSET Workspaces] /\ p.edge \in [Maint!Triples -> 0 .. MaxWeight]
    BY <2>4, Columns
  <2>6. /\ q.status = [p.status EXCEPT ![c] = "committed", ![n] = "gone"]
        /\ q.content = [p.content EXCEPT ![c] = IF b THEN p.content[n] ELSE Maint!Joined(p.content[c], p.content[n])]
        /\ q.ws = [p.ws EXCEPT ![c] = p.ws[c] \cup p.ws[n]]
        /\ q.edge = Maint!Rewired(p.edge, c, n)
    BY <2>2 DEF Maint!Absorbed
  <2>7. q.status[n] = "gone" /\ q.status[c] = "committed" /\ \A m \in Maint!Nodes : m # n => q.status[m] = p.status[m]
    BY <2>2, <2>5, <2>6
  <2>8. PICK h, d : Traced(g, x, h, d)
    BY DEF Traces
  <2>9. h \in [Maint!Nodes -> Maint!Nodes] /\ d \in [Maint!Nodes -> Nat] /\ Heirs(x, h, d) /\ Linked(g, x, h) /\ Preserved(g, x, h)
    BY <2>8 DEF Traced
  <2>10. x.into[n] = n /\ x.into[c] = c /\ h[n] = n /\ h[c] = c
    BY <2>9 DEF Heirs
  <2>11. i \in [Maint!Nodes -> Maint!Nodes] /\ i[n] = c /\ \A m \in Maint!Nodes : m # n => i[m] = x.into[m]
    BY <2>1, <2>4
  <2>12. PICK hh, dd : /\ hh = [m \in Maint!Nodes |-> IF h[m] = n THEN c ELSE h[m]]
                       /\ dd = [m \in Maint!Nodes |-> IF i[m] = m THEN 0 ELSE d[m] + 1]
    OBVIOUS
  <2>13. hh \in [Maint!Nodes -> Maint!Nodes] /\ dd \in [Maint!Nodes -> Nat]
    BY <2>9, <2>12
  <2>14. /\ \A m \in Maint!Nodes : hh[m] = IF h[m] = n THEN c ELSE h[m]
         /\ \A m \in Maint!Nodes : dd[m] = IF i[m] = m THEN 0 ELSE d[m] + 1
    BY <2>12
  <2>15. Maint!Cardinality(Moved(y)) = Maint!Cardinality(Moved(x)) + 1 /\ Maint!Cardinality(Moved(x)) \in Nat
    <3>1. Moved(y) = Moved(x) \cup {n} /\ n \notin Moved(x)
      BY <2>3, <2>10, <2>11 DEF Moved
    <3>2. IsFiniteSet(Moved(x))
      BY NodesFinite, FS_Subset, SameCardinality DEF Moved
    <3> QED
      BY <3>1, <3>2, FS_AddElement, FS_CardinalityType, SameCardinality
  <2>16. Heirs(y, hh, dd)
    <3> SUFFICES ASSUME NEW m \in Maint!Nodes
                 PROVE  /\ dd[m] <= Maint!Cardinality(Moved(y))
                        /\ i[m] = m => hh[m] = m /\ dd[m] = 0
                        /\ i[m] # m => hh[m] = hh[i[m]] /\ dd[i[m]] < dd[m] /\ q.status[m] = "gone"
                        /\ i[hh[m]] = hh[m] /\ x.roots[hh[m]] = x.roots[m]
                        /\ m \in DomainNodes => hh[m] = m
      BY <2>3 DEF Heirs
    <3>1. /\ d[m] \in Nat /\ d[m] <= Maint!Cardinality(Moved(x)) /\ h[m] \in Maint!Nodes /\ x.into[m] \in Maint!Nodes /\ i[m] \in Maint!Nodes
          /\ x.into[m] = m => h[m] = m /\ d[m] = 0
          /\ x.into[m] # m => h[m] = h[x.into[m]] /\ d[x.into[m]] < d[m] /\ p.status[m] = "gone"
          /\ x.into[h[m]] = h[m] /\ x.roots[h[m]] = x.roots[m]
          /\ m \in DomainNodes => h[m] = m
      BY <2>2, <2>4, <2>9, <2>11 DEF Heirs
    <3>2. dd[m] <= Maint!Cardinality(Moved(y))
      BY <2>14, <2>15, <3>1
    <3>3. i[m] = m => hh[m] = m /\ dd[m] = 0
      BY <2>10, <2>11, <2>14, <3>1
    <3>4. ASSUME i[m] # m PROVE hh[m] = hh[i[m]] /\ dd[i[m]] < dd[m] /\ q.status[m] = "gone"
      <4>1. CASE m = n
        <5>1. hh[m] = c /\ hh[c] = c /\ dd[c] = 0 /\ dd[m] = d[m] + 1
          BY <2>10, <2>11, <2>14, <3>4, <4>1
        <5> QED
          BY <2>7, <2>11, <3>1, <4>1, <5>1
      <4>2. CASE m # n
        <5>1. i[m] = x.into[m] /\ h[m] = h[i[m]] /\ d[i[m]] < d[m] /\ q.status[m] = "gone"
          BY <2>7, <2>11, <3>1, <3>4, <4>2
        <5>2. hh[m] = hh[i[m]]
          BY <2>14, <3>1, <5>1
        <5>3. dd[m] = d[m] + 1 /\ dd[i[m]] \in {0, d[i[m]] + 1} /\ d[i[m]] \in Nat
          BY <2>9, <2>14, <3>1, <3>4
        <5> QED
          BY <3>1, <5>1, <5>2, <5>3
      <4> QED
        BY <4>1, <4>2
    <3>5. i[hh[m]] = hh[m]
      BY <2>10, <2>11, <2>14, <3>1
    <3>6. x.roots[hh[m]] = x.roots[m]
      BY <2>14, <3>1
    <3>7. m \in DomainNodes => hh[m] = m
      BY <2>14, <3>1
    <3> QED
      BY <3>2, <3>3, <3>4, <3>5, <3>6, <3>7
  <2>17. Linked(g, y, hh)
    <3> SUFFICES ASSUME NEW e \in Maint!Triples, hh[e[1]] # hh[e[2]]
                 PROVE  q.edge[<<hh[e[1]], hh[e[2]], e[3]>>] >= g.edge[e]
      BY <2>3 DEF Linked
    <3>1. PICK s, u, k : s = hh[e[1]] /\ u = hh[e[2]] /\ k = e[3]
      OBVIOUS
    <3>2. e[1] \in Maint!Nodes /\ e[2] \in Maint!Nodes /\ k \in EdgeTypes
      BY <3>1, EndsOf
    <3>3. PICK o, v : o = h[e[1]] /\ v = h[e[2]]
      OBVIOUS
    <3>4. /\ o \in Maint!Nodes /\ v \in Maint!Nodes /\ s \in Maint!Nodes /\ u \in Maint!Nodes
          /\ s = (IF o = n THEN c ELSE o) /\ u = (IF v = n THEN c ELSE v) /\ s # u /\ o # v /\ n \notin {s, u}
      BY <2>9, <2>14, <3>1, <3>2, <3>3
    <3>5. PICK f, old : f = <<s, u, k>> /\ old = <<o, v, k>>
      OBVIOUS
    <3>6. f \in Maint!Triples /\ old \in Maint!Triples /\ f[1] = s /\ f[2] = u /\ f[3] = k
      BY <3>2, <3>4, <3>5 DEF Maint!Triples
    <3>7. p.edge[old] >= g.edge[e]
      BY <2>2, <2>9, <3>1, <3>3, <3>4, <3>5 DEF Linked
    <3>8. p.edge[old] \in Nat /\ g.edge[e] \in Nat /\ p.edge[f] \in Nat
      <4>1. g.edge[e] \in 0 .. MaxWeight
        BY Columns DEF IsGraph
      <4> QED
        BY <2>5, <3>6, <4>1
    <3>9. q.edge[f] >= p.edge[old]
      <4>1. CASE o = n
        <5>1. s = c /\ u = v /\ u # c /\ old = <<n, f[2], f[3]>>
          BY <3>4, <3>5, <3>6, <4>1
        <5>2. q.edge[f] = Maint!Larger(p.edge[f], p.edge[old])
          BY <2>6, <3>4, <3>6, <5>1 DEF Maint!Rewired
        <5> QED
          BY <3>8, <5>2 DEF Maint!Larger
      <4>2. CASE v = n
        <5>1. u = c /\ s = o /\ s # c /\ old = <<f[1], n, f[3]>>
          BY <3>4, <3>5, <3>6, <4>2
        <5>2. q.edge[f] = Maint!Larger(p.edge[f], p.edge[old])
          BY <2>6, <3>4, <3>6, <5>1 DEF Maint!Rewired
        <5> QED
          BY <3>8, <5>2 DEF Maint!Larger
      <4>3. CASE o # n /\ v # n
        <5>1. old = f
          BY <3>4, <3>5, <4>3
        <5>2. PICK j, l : j = p.edge[<<n, f[2], f[3]>>] /\ l = p.edge[<<f[1], n, f[3]>>]
          OBVIOUS
        <5>3. j \in Nat /\ l \in Nat
          <6>1. <<n, f[2], f[3]>> \in Maint!Triples /\ <<f[1], n, f[3]>> \in Maint!Triples
            BY <3>2, <3>4, <3>6 DEF Maint!Triples
          <6> QED
            BY <2>5, <5>2, <6>1
        <5>4. q.edge[f] \in {Maint!Larger(p.edge[f], j), Maint!Larger(p.edge[f], l), p.edge[f]}
          <6>1. n # f[1] /\ n # f[2] /\ f[1] # f[2]
            BY <3>4, <3>6
          <6>2. CASE c = f[1]
            BY <2>6, <3>6, <5>2, <6>1, <6>2 DEF Maint!Rewired
          <6>3. CASE c = f[2]
            BY <2>6, <3>6, <5>2, <6>1, <6>3 DEF Maint!Rewired
          <6>4. CASE c # f[1] /\ c # f[2]
            BY <2>6, <3>6, <5>2, <6>1, <6>4 DEF Maint!Rewired
          <6> QED
            BY <6>2, <6>3, <6>4
        <5> QED
          BY <3>8, <5>1, <5>3, <5>4 DEF Maint!Larger
      <4> QED
        BY <4>1, <4>2, <4>3
    <3>10. q.edge[f] \in Nat
      <4>1. MaxWeight \in Nat
        BY GraphConstants
      <4>2. PICK z : z = Maint!Rewired(p.edge, c, n)
        OBVIOUS
      <4>3. z \in [Maint!Triples -> 0 .. MaxWeight]
        BY <2>5, <4>1, <4>2, RewiredFacts, Zenon
      <4> QED
        BY <2>6, <3>6, <4>1, <4>2, <4>3
    <3> QED
      BY <3>1, <3>5, <3>7, <3>8, <3>9, <3>10
  <2>18. Preserved(g, y, hh)
    <3> SUFFICES ASSUME NEW m \in Maint!Alive(g)
                 PROVE  /\ hh[m] \in Maint!Alive(q) /\ g.ws[m] \subseteq q.ws[hh[m]]
                        /\ m \notin y.replaced => Said(g.content[m]) \subseteq Said(q.content[hh[m]])
      BY <2>3 DEF Preserved
    <3>1. m \in Maint!Nodes /\ h[m] \in Maint!Nodes
      BY <2>9 DEF Maint!Alive
    <3>2. /\ h[m] \in Maint!Alive(p) /\ g.ws[m] \subseteq p.ws[h[m]]
          /\ m \notin x.replaced => Said(g.content[m]) \subseteq Said(p.content[h[m]])
      BY <2>2, <2>9 DEF Preserved
    <3>3. hh[m] \in Maint!Alive(q)
      BY <2>7, <2>14, <3>1, <3>2 DEF Maint!Alive
    <3>4. p.ws[c] \subseteq q.ws[c] /\ p.ws[n] \subseteq q.ws[c] /\ \A k \in Maint!Nodes : k # c => q.ws[k] = p.ws[k]
      BY <2>5, <2>6
    <3>5. g.ws[m] \subseteq q.ws[hh[m]]
      BY <2>14, <3>1, <3>2, <3>4
    <3>6. ASSUME m \notin y.replaced PROVE Said(g.content[m]) \subseteq Said(q.content[hh[m]])
      <4>1. m \notin x.replaced /\ (b => h[m] # c)
        <5>1. Maint!Heir(x, m) = h[m]
          BY <2>4, <2>9, <3>1, HeirFound
        <5> QED
          BY <2>3, <3>1, <3>6, <5>1 DEF Maint!OfHeir
      <4>2. p.content[c] \in Seq(Maint!Facts) /\ p.content[n] \in Seq(Maint!Facts)
        BY <2>5
      <4>3. PICK j : j = Maint!Joined(p.content[c], p.content[n])
        OBVIOUS
      <4>4. Said(p.content[c]) \subseteq Said(j) /\ Said(p.content[n]) \subseteq Said(j)
        BY <4>2, <4>3, SaidJoined
      <4>5. q.content[c] = (IF b THEN p.content[n] ELSE j) /\ \A k \in Maint!Nodes : k # c => q.content[k] = p.content[k]
        BY <2>5, <2>6, <4>3
      <4>6. CASE h[m] = n
        BY <2>14, <3>1, <3>2, <4>1, <4>4, <4>5, <4>6
      <4>7. CASE h[m] # n
        <5>1. hh[m] = h[m]
          BY <2>14, <3>1, <4>7
        <5>2. Said(p.content[h[m]]) \subseteq Said(q.content[h[m]])
          BY <3>1, <4>1, <4>4, <4>5
        <5> QED
          BY <3>2, <4>1, <5>1, <5>2
      <4> QED
        BY <4>6, <4>7
    <3> QED
      BY <3>3, <3>5, <3>6
  <2>19. Traced(g, y, hh, dd)
    BY <2>13, <2>16, <2>17, <2>18 DEF Traced
  <2> QED
    BY <2>1, <2>2, <2>3, <2>7, <2>19 DEF Traces
<1> QED
  BY <1>1, <1>2

(* What fits is near the same domains, and no domain itself.               *)
LEMMA FitsAlike ==
  ASSUME NEW x, NEW m \in Maint!Nodes, NEW n \in Maint!Nodes, Maint!Compatible(x, m, n)
  PROVE  m \notin DomainNodes /\ n \notin DomainNodes /\ x.roots[m] = x.roots[n]
BY DEF Maint!Compatible

LEMMA MatchTraced ==
  ASSUME NEW t, NEW r, NEW g, IsGraph(g), NEW x \in Works(t, r), Traces(g, x), NEW n \in Maint!Nodes,
         n \notin DomainNodes, x.graph.status[n] \in {"staged", "committed"}
  PROVE  /\ Traces(g, Maint!Match(x, n))
         /\ \A m \in Maint!Nodes \ {n} : Maint!Match(x, n).graph.status[m] = x.graph.status[m]
<1>1. PICK y \in Works(t, r) :
        /\ y.graph = x.graph /\ y.into = x.into /\ y.roots = x.roots /\ y.replaced = x.replaced
        /\ \/ Maint!Match(x, n) = x
           \/ Maint!Match(x, n) = Maint!Deferred(y, n)
           \/ \E c \in Maint!Candidates(x, n) : /\ Maint!Compatible(x, c, n)
                                               /\ Maint!Match(x, n) = Maint!Merge(y, c, n, FALSE)
  BY Matches
<1>2. Traces(g, y)
  BY <1>1, AlikeTraced
<1>3. CASE Maint!Match(x, n) = x
  BY <1>3
<1>4. CASE Maint!Match(x, n) = Maint!Deferred(y, n)
  BY <1>1, <1>2, <1>4, DeferredTraced DEF Follows
<1>5. ASSUME NEW c \in Maint!Candidates(x, n), Maint!Compatible(x, c, n),
             Maint!Match(x, n) = Maint!Merge(y, c, n, FALSE)
      PROVE  /\ Traces(g, Maint!Match(x, n))
             /\ \A m \in Maint!Nodes \ {n} : Maint!Match(x, n).graph.status[m] = x.graph.status[m]
  <2>1. c \in Maint!Nodes /\ c # n /\ x.graph.status[c] = "committed"
    BY DEF Maint!Candidates
  <2>2. c \notin DomainNodes /\ x.roots[c] = x.roots[n]
    BY <1>5, <2>1, FitsAlike
  <2>3. Mergeable(y, c, n) /\ FALSE \in BOOLEAN
    BY <1>1, <2>1, <2>2 DEF Mergeable
  <2>4. Follows(g, y, n, Maint!Merge(y, c, n, FALSE))
    BY <1>2, <2>1, <2>3, MergeTraced, Zenon
  <2> QED
    BY <1>1, <1>5, <2>4 DEF Follows
<1> QED
  BY <1>1, <1>3, <1>4, <1>5

LEMMA SettleTraced ==
  ASSUME NEW t, NEW r, NEW g, IsGraph(g), NEW x \in Works(t, r), Traces(g, x), NEW n \in Maint!Nodes,
         x.graph.status[n] = "staged"
  PROVE  /\ Traces(g, Maint!Settle(x, n))
         /\ \A m \in Maint!Nodes \ {n} : Maint!Settle(x, n).graph.status[m] = x.graph.status[m]
<1>1. PICK c : c = x.graph.sup[n]
  OBVIOUS
<1>2. CASE c # 0
  <2>1. c \in Maint!Nodes
    <3>1. x.graph \in Maint!Graph
      BY DEF Works
    <3>2. x.graph.sup \in [Maint!Nodes -> 0 .. N]
      BY <3>1, Columns
    <3> QED
      BY <1>1, <1>2, <3>2, GraphConstants DEF Maint!Nodes
  <2>2. CASE x.graph.status[c] = "committed" /\ Maint!Compatible(x, c, n)
    <3>1. c \notin DomainNodes /\ n \notin DomainNodes /\ x.roots[c] = x.roots[n] /\ c # n
      BY <2>1, <2>2, FitsAlike
    <3>2. Maint!Settle(x, n) = Maint!Merge(x, c, n, TRUE)
      BY <1>1, <1>2, <2>2 DEF Maint!Settle
    <3>3. Mergeable(x, c, n) /\ TRUE \in BOOLEAN
      BY <2>2, <3>1 DEF Mergeable
    <3>4. Follows(g, x, n, Maint!Merge(x, c, n, TRUE))
      BY <2>1, <3>3, MergeTraced, Zenon
    <3> QED
      BY <3>2, <3>4 DEF Follows
  <2>3. CASE ~(x.graph.status[c] = "committed" /\ Maint!Compatible(x, c, n))
    <3>1. Maint!Settle(x, n) = Maint!Deferred(x, n)
      BY <1>1, <1>2, <2>3 DEF Maint!Settle
    <3> QED
      BY <3>1, DeferredTraced
  <2> QED
    BY <2>2, <2>3
<1>3. CASE c = 0
  <2>1. PICK y : y = IF n \in DomainNodes THEN x ELSE Maint!Match(x, n)
    OBVIOUS
  <2>2. y \in Works(t, r) /\ Traces(g, y) /\ \A m \in Maint!Nodes \ {n} : y.graph.status[m] = x.graph.status[m]
    BY <2>1, MatchWorks, MatchTraced
  <2>3. Maint!Settle(x, n) = IF y.graph.status[n] = "gone" \/ n \in y.deferred THEN y ELSE Maint!Promote(y, n)
    BY <1>1, <1>3, <2>1 DEF Maint!Settle
  <2>4. CASE y.graph.status[n] = "gone" \/ n \in y.deferred
    BY <2>2, <2>3, <2>4
  <2>5. CASE ~(y.graph.status[n] = "gone" \/ n \in y.deferred)
    <3>1. /\ Traces(g, Maint!Promote(y, n))
          /\ \A m \in Maint!Nodes \ {n} : Maint!Promote(y, n).graph.status[m] = y.graph.status[m]
      BY <2>2, <2>5, PromoteTraced
    <3> QED
      BY <2>2, <2>3, <2>5, <3>1
  <2> QED
    BY <2>4, <2>5
<1> QED
  BY <1>2, <1>3

LEMMA CondenseTraced ==
  ASSUME NEW t, NEW r, NEW g, IsGraph(g), NEW x \in Works(t, r), Traces(g, x), NEW n \in Maint!Nodes,
         x.graph.status[n] = "committed"
  PROVE  Traces(g, Maint!Condense(x, n))
BY MatchTraced DEF Maint!Condense

(* So both loops trace: in the first, what is still to come is still       *)
(* staged.                                                                 *)
LEMMA LoopsTraced ==
  ASSUME NEW t, NEW g, IsGraph(g), NEW f, SettleRun(g, t, f), NEW q, CondenseRun(t, Roots(g), f[N], q)
  PROVE  Traces(g, q[N]) /\ q[N] \in Works(t, Roots(g))
<1>0. N \in Nat /\ N \in 0 .. N
  BY GraphConstants
<1>1. /\ f[0] = Maint!Work(g, t) /\ \A n \in 1 .. N : f[n] = SettleNode(g, f[n - 1], n)
      /\ \A n \in 0 .. N : f[n] \in Works(t, Roots(g))
  BY DEF SettleRun
<1>2. /\ q[0] = f[N] /\ \A n \in 1 .. N : q[n] = CondenseNode(q[n - 1], n)
      /\ \A n \in 0 .. N : q[n] \in Works(t, Roots(g))
  BY DEF CondenseRun
<1> DEFINE Ahead(n) == \A m \in Maint!Nodes : m > n => f[n].graph.status[m] = g.status[m]
           S == {n \in 0 .. N : Traces(g, f[n]) /\ Ahead(n)}
           C == {n \in 0 .. N : Traces(g, q[n])}
<1>3. 0 \in S
  <2>1. f[0].graph = g
    BY <1>1 DEF Maint!Work
  <2>2. Traces(g, f[0])
    BY <1>1, TracedAtFirst
  <2> QED
    BY <1>0, <2>1, <2>2
<1>4. \A n \in 0 .. N : n < N /\ n \in S => n + 1 \in S
  <2> SUFFICES ASSUME NEW n \in 0 .. N, n < N, Traces(g, f[n]), Ahead(n) PROVE n + 1 \in 0 .. N /\ Traces(g, f[n + 1]) /\ Ahead(n + 1)
    OBVIOUS
  <2>1. n + 1 \in 1 .. N /\ n + 1 \in 0 .. N /\ (n + 1) - 1 = n /\ n + 1 \in Maint!Nodes /\ n + 1 > n
    BY <1>0 DEF Maint!Nodes
  <2>2. f[n + 1] = SettleNode(g, f[n], n + 1) /\ f[n] \in Works(t, Roots(g))
    BY <1>1, <2>1
  <2>3. /\ Traces(g, f[n + 1])
        /\ \A m \in Maint!Nodes \ {n + 1} : f[n + 1].graph.status[m] = f[n].graph.status[m]
    <3>1. CASE g.status[n + 1] = "staged"
      <4>1. f[n].graph.status[n + 1] = "staged"
        BY <2>1, <3>1
      <4>2. f[n + 1] = Maint!Settle(f[n], n + 1)
        BY <2>2, <3>1 DEF SettleNode
      <4> QED
        BY <2>1, <2>2, <4>1, <4>2, SettleTraced
    <3>2. CASE g.status[n + 1] # "staged"
      BY <2>2, <3>2 DEF SettleNode
    <3> QED
      BY <3>1, <3>2
  <2>4. Ahead(n + 1)
    <3> SUFFICES ASSUME NEW m \in Maint!Nodes, m > n + 1 PROVE f[n + 1].graph.status[m] = g.status[m]
      OBVIOUS
    <3>1. m # n + 1 /\ m > n
      BY <1>0 DEF Maint!Nodes
    <3> QED
      BY <2>3, <3>1
  <2> QED
    BY <2>1, <2>3, <2>4
<1>5. Traces(g, f[N])
  <2>1. \A n \in 0 .. N : n \in S
    <3> HIDE DEF S
    <3> QED
      BY <1>0, <1>3, <1>4, Upwards, Zenon
  <2> QED
    BY <1>0, <2>1
<1>6. 0 \in C
  BY <1>0, <1>2, <1>5
<1>7. \A n \in 0 .. N : n < N /\ n \in C => n + 1 \in C
  <2> SUFFICES ASSUME NEW n \in 0 .. N, n < N, Traces(g, q[n]) PROVE n + 1 \in 0 .. N /\ Traces(g, q[n + 1])
    OBVIOUS
  <2>1. n + 1 \in 1 .. N /\ n + 1 \in 0 .. N /\ (n + 1) - 1 = n /\ n + 1 \in Maint!Nodes
    BY <1>0 DEF Maint!Nodes
  <2>2. q[n + 1] = CondenseNode(q[n], n + 1) /\ q[n] \in Works(t, Roots(g))
    BY <1>2, <2>1
  <2> QED
    BY <2>1, <2>2, CondenseTraced DEF CondenseNode
<1>8. \A n \in 0 .. N : n \in C
  <2> HIDE DEF C
  <2> QED
    BY <1>0, <1>6, <1>7, Upwards, Zenon
<1> QED
  BY <1>0, <1>2, <1>8

(* What a run leaves of the graph g it found, by its report.               *)
LinksOf(g, z, rep) ==
  \A e \in Maint!Triples :
    Maint!Heir(rep, e[1]) # Maint!Heir(rep, e[2]) => z.edge[<<Maint!Heir(rep, e[1]), Maint!Heir(rep, e[2]), e[3]>>] >= g.edge[e]
FactsOf(g, z, rep) ==
  \A n \in Maint!Alive(g) :
    LET h == Maint!Heir(rep, n) IN
    /\ h \in Maint!Alive(z) /\ g.ws[n] \subseteq z.ws[h]
    /\ n \in DomainNodes => h = n
    /\ n \notin rep.replaced => Said(g.content[n]) \subseteq Said(z.content[h])
ScopesOf(g, rep) ==
  \A n \in Maint!Alive(g) \ DomainNodes : Maint!Within(g, n) \cap DomainNodes = Maint!Within(g, Maint!Heir(rep, n)) \cap DomainNodes

LEMMA ReconciledKeeps ==
  ASSUME NEW g, IsGraph(g), NEW t, NEW rep,
         rep.into = Maint!Reconciled(g, t).into, rep.replaced = Maint!Reconciled(g, t).replaced
  PROVE  LinksOf(g, Maint!Reconciled(g, t).graph, rep) /\ FactsOf(g, Maint!Reconciled(g, t).graph, rep) /\ ScopesOf(g, rep)
<1>1. PICK f, q : SettleRun(g, t, f) /\ CondenseRun(t, Roots(g), f[N], q) /\ Maint!Reconciled(g, t) = Loopless(q[N])
  BY ReconciledFrom
<1>2. PICK b : b = q[N]
  OBVIOUS
<1>3. Traces(g, b) /\ b \in Works(t, Roots(g))
  BY <1>1, <1>2, LoopsTraced
<1>4. PICK h, d : Traced(g, b, h, d)
  BY <1>3 DEF Traces
<1>5. h \in [Maint!Nodes -> Maint!Nodes] /\ d \in [Maint!Nodes -> Nat] /\ Heirs(b, h, d) /\ Linked(g, b, h) /\ Preserved(g, b, h)
  BY <1>4 DEF Traced
<1>6. PICK p, e : p = b.graph /\ e = [a \in Maint!Triples |-> IF a[1] = a[2] THEN 0 ELSE p.edge[a]]
  OBVIOUS
<1>7. PICK z : z = [p EXCEPT !.edge = e]
  OBVIOUS
<1>8. p \in Maint!Graph /\ b.into \in [Maint!Nodes -> Maint!Nodes] /\ b.roots = Roots(g)
  BY <1>3, <1>6 DEF Works
<1>9. Maint!Reconciled(g, t).graph = z /\ Maint!Reconciled(g, t).into = b.into /\ Maint!Reconciled(g, t).replaced = b.replaced
  <2>1. Maint!Reconciled(g, t) = [b EXCEPT !.graph = z]
    BY <1>1, <1>2, <1>6, <1>7 DEF Loopless
  <2> QED
    BY <1>3, <2>1 DEF Works
<1>10. z.edge = e /\ z.ws = p.ws /\ z.content = p.content /\ z.status = p.status
  BY <1>7, <1>8 DEF Maint!Graph
<1>11. rep.into = b.into /\ rep.replaced = b.replaced
  BY <1>9
<1>12. \A n \in Maint!Nodes : Maint!Heir(rep, n) = h[n]
  BY <1>5, <1>8, <1>11, HeirFound
<1>13. LinksOf(g, z, rep)
  <2> SUFFICES ASSUME NEW a \in Maint!Triples, Maint!Heir(rep, a[1]) # Maint!Heir(rep, a[2])
               PROVE  z.edge[<<Maint!Heir(rep, a[1]), Maint!Heir(rep, a[2]), a[3]>>] >= g.edge[a]
    BY DEF LinksOf
  <2>1. PICK s, u : s = h[a[1]] /\ u = h[a[2]]
    OBVIOUS
  <2>2. a[1] \in Maint!Nodes /\ a[2] \in Maint!Nodes /\ a[3] \in EdgeTypes
    BY EndsOf
  <2>3. s = Maint!Heir(rep, a[1]) /\ u = Maint!Heir(rep, a[2]) /\ s # u /\ s \in Maint!Nodes /\ u \in Maint!Nodes
    BY <1>5, <1>12, <2>1, <2>2
  <2>4. PICK c : c = <<s, u, a[3]>>
    OBVIOUS
  <2>5. c \in Maint!Triples /\ c[1] # c[2]
    BY <2>2, <2>3, <2>4 DEF Maint!Triples
  <2>6. p.edge[c] >= g.edge[a]
    BY <1>5, <1>6, <2>1, <2>3, <2>4 DEF Linked
  <2>7. z.edge[c] = p.edge[c]
    BY <1>6, <1>10, <2>5
  <2> QED
    BY <2>3, <2>4, <2>6, <2>7
<1>14. FactsOf(g, z, rep)
  <2> SUFFICES ASSUME NEW n \in Maint!Alive(g)
               PROVE  /\ Maint!Heir(rep, n) \in Maint!Alive(z) /\ g.ws[n] \subseteq z.ws[Maint!Heir(rep, n)]
                      /\ n \in DomainNodes => Maint!Heir(rep, n) = n
                      /\ n \notin rep.replaced => Said(g.content[n]) \subseteq Said(z.content[Maint!Heir(rep, n)])
    BY DEF FactsOf
  <2>1. n \in Maint!Nodes
    BY DEF Maint!Alive
  <2>2. Maint!Heir(rep, n) = h[n] /\ (n \in DomainNodes => h[n] = n)
    BY <1>5, <1>12, <2>1 DEF Heirs
  <2>3. Maint!Alive(z) = Maint!Alive(p)
    BY <1>10 DEF Maint!Alive
  <2> QED
    BY <1>5, <1>6, <1>10, <1>11, <2>2, <2>3 DEF Preserved
<1>15. ScopesOf(g, rep)
  <2> SUFFICES ASSUME NEW n \in Maint!Alive(g) PROVE Maint!Within(g, n) \cap DomainNodes = Maint!Within(g, Maint!Heir(rep, n)) \cap DomainNodes
    BY DEF ScopesOf
  <2>1. n \in Maint!Nodes /\ h[n] \in Maint!Nodes
    BY <1>5 DEF Maint!Alive
  <2>2. Roots(g)[h[n]] = Roots(g)[n]
    BY <1>5, <1>8, <2>1 DEF Heirs
  <2>3. Roots(g)[h[n]] = Maint!Within(g, h[n]) \cap DomainNodes /\ Roots(g)[n] = Maint!Within(g, n) \cap DomainNodes
    BY <2>1 DEF Roots
  <2>4. Maint!Heir(rep, n) = h[n]
    BY <1>12, <2>1
  <2> QED
    BY <2>2, <2>3, <2>4
<1> QED
  BY <1>9, <1>13, <1>14, <1>15

(* A run that succeeds in a step has reconciled the graph in it.           *)
LEMMA SuccessKeeps ==
  ASSUME Recorded, Maint!Next, NEW r \in Maint!Runs, Maint!Succeeds(r)
  PROVE  LinksOf(graph, graph', report'[r]) /\ FactsOf(graph, graph', report'[r]) /\ ScopesOf(graph, report'[r])
<1>1. Effects(r)
  BY EditsQuiet, WorkersQuiet, CommitUndone, DeactivateQuiet DEF Maint!Next, Maint!WorkerStep
<1>2. IsGraph(graph)
  BY DEF Recorded, Tables
<1>3. PICK t : /\ graph' = Maint!Reconciled(graph, t).graph /\ report'[r].into = Maint!Reconciled(graph, t).into
               /\ report'[r].replaced = Maint!Reconciled(graph, t).replaced
  BY <1>1 DEF Effects
<1> QED
  BY <1>2, <1>3, ReconciledKeeps

(* An edge is not lost or weakened when its ends are merged, however       *)
(* merges chain: it is there between their heirs                           *)
(* (src/knowledge/maintenance.py:56).                                      *)
THEOREM MergedLinksSurvive == Maint!Spec => LinksSurvive
<1> DEFINE A == \A r \in Maint!Runs : Maint!Succeeds(r) => LinksOf(graph, graph', report'[r])
<1>1. Recorded /\ Maint!Next => A
  BY SuccessKeeps
<1>2. Recorded /\ [Maint!Next]_Maint!vars => [A]_Maint!vars
  BY <1>1
<1>3. Maint!Spec => []Recorded
  BY AlwaysRecorded
<1>4. Maint!Spec => [][A]_Maint!vars
  <2> HIDE DEF A
  <2> QED
    BY <1>2, <1>3, PTL DEF Maint!Spec
<1> QED
  BY <1>4 DEF LinksSurvive, Maint!LinksSurvive, LinksOf

(* A node's heir stands, in all of its workspaces, and says all it said    *)
(* unless a supersession replaced its text; a domain is its own heir       *)
(* (src/knowledge/maintenance.py:85).                                      *)
THEOREM MergedFactsSurvive == Maint!Spec => FactsSurvive
<1> DEFINE A ==
       \A r \in Maint!Runs : Maint!Succeeds(r) =>
         \A n \in Maint!Alive(graph) :
           LET h == Maint!Heir(report'[r], n) IN
           /\ h \in Maint!Alive(graph') /\ graph.ws[n] \subseteq graph'.ws[h]
           /\ n \in DomainNodes => h = n
           /\ n \notin report'[r].replaced =>
                {graph.content[n][i] : i \in DOMAIN graph.content[n]}
                  \subseteq {graph'.content[h][i] : i \in DOMAIN graph'.content[h]}
<1>1. Recorded /\ Maint!Next => A
  BY SuccessKeeps DEF FactsOf, Said
<1>2. Recorded /\ [Maint!Next]_Maint!vars => [A]_Maint!vars
  BY <1>1
<1>3. Maint!Spec => []Recorded
  BY AlwaysRecorded
<1>4. Maint!Spec => [][A]_Maint!vars
  <2> HIDE DEF A
  <2> QED
    BY <1>2, <1>3, PTL DEF Maint!Spec
<1> QED
  BY <1>4, PTL DEF FactsSurvive, Maint!FactsSurvive

(* A node and its heir are under the same domains, as the graph was before *)
(* the run (src/knowledge/contemplate_engine.py:30).                       *)
THEOREM MergedScopesApart == Maint!Spec => ScopesApart
<1> DEFINE A == \A r \in Maint!Runs : Maint!Succeeds(r) => ScopesOf(graph, report'[r])
<1>1. Recorded /\ Maint!Next => A
  BY SuccessKeeps
<1>2. Recorded /\ [Maint!Next]_Maint!vars => [A]_Maint!vars
  BY <1>1
<1>3. Maint!Spec => []Recorded
  BY AlwaysRecorded
<1>4. Maint!Spec => [][A]_Maint!vars
  <2> HIDE DEF A
  <2> QED
    BY <1>2, <1>3, PTL DEF Maint!Spec
<1> QED
  BY <1>4 DEF ScopesApart, Maint!ScopesApart, ScopesOf
=============================================================================
