---------------------------- MODULE KnowledgeScopes ----------------------------
(***************************************************************************)
(* The knowledge graph as its routes scope it (src/knowledge/routes.py,    *)
(* src/db/knowledge_graph.py, src/db/users.py): nodes hang under domains,  *)
(* which say who may write them, and are linked to workspaces, which are   *)
(* purged and imported as a whole.                                         *)
(*                                                                         *)
(* A request is a record `req[u]': creating a node checks the scope,       *)
(* inserts the node, then makes each edge in a transaction of its own;     *)
(* workspaces are a JSON list of the node, read and written back; a purge  *)
(* classifies the nodes, then deletes and unlinks them one by one.  Any    *)
(* number of users and administrators are at it, one request each at a     *)
(* time.  A node keeps the type of its identifier.                         *)
(***************************************************************************)
EXTENDS Naturals, FiniteSets

CONSTANTS Domains, Plain,    \* node ids, of type domain and of the others
          Users, Admins, Guests,
          Spaces,            \* workspaces
          Title,             \* [Plain -> titles], what an import compares
          MaxDepth,          \* hops walked up to the domains: 5 in the code
          PageSize,          \* nodes of one listing: 1000 in exports, up to 20000
          NoEdge,            \* whether connections may carry an unknown edge type
          Plans              \* sets of <<user, route>>: a behaviour keeps to one of them

Ids == Domains \cup Plain

ASSUME ScopesAssumption ==
  /\ Domains \cap Plain = {}
  /\ Admins \subseteq Users /\ Guests \subseteq Users \ Admins
  /\ MaxDepth \in Nat /\ PageSize \in Nat
  /\ NoEdge \in BOOLEAN

VARIABLES nodes, edges,  \* kg_nodes, kg_edges
          staged,        \* nodes whose status is 'staged'
          spaces,        \* metadata.workspaces of each node
          assigned, writable,  \* user_domains: the rows, those with can_write
          req,
          kept,          \* history: <<node, workspace>> links answered as made
          crossed,       \* history: nodes changed since a request read their list
          plan           \* who uses which routes, bounding the instance

vars == <<nodes, edges, staged, spaces, assigned, writable, req, kept, crossed, plan>>

Idle == [at |-> "idle"]
Uses(u, op) == <<u, op>> \in plan
Start(u, r) == req[u] = Idle /\ req' = [req EXCEPT ![u] = r]
Step(u, r) == req' = [req EXCEPT ![u] = r]
End(u) == Step(u, Idle)

-----------------------------------------------------------------------------
(* find_root_domains: breadth first over the edges either way; a domain is  *)
(* its own root.                                                            *)

Touching(S) == {n \in nodes : \E m \in S : <<n, m>> \in edges \/ <<m, n>> \in edges}

WalkOutwards(n) ==  \* follows edges from source to target only
  LET w[i \in 0 .. MaxDepth] ==
        IF i = 0 THEN {n} ELSE w[i - 1] \cup {m \in nodes : \E k \in w[i - 1] : <<k, m>> \in edges}
  IN w[MaxDepth]

Walk(n) ==
  LET w[i \in 0 .. MaxDepth] ==
        IF i = 0 THEN [seen |-> {n}, frontier |-> {n}]
        ELSE LET was == w[i - 1]
                 next == Touching(was.frontier) \ was.seen
             IN [seen |-> was.seen \cup next, frontier |-> next]
  IN w[MaxDepth].seen

RootDomains(n) ==
  IF n \in nodes \cap Domains THEN {n} ELSE (Walk(n) \ {n}) \cap Domains

(* _get_neighbors_with_conn: the walk for readers, who see committed nodes  *)
(* unless they ask for all; edges to nodes they do not see are skipped.     *)
Committed == nodes \ staged

Neighbors(n, depth, all) ==
  LET open == IF all THEN nodes ELSE Committed
      near(m) == {k \in open : <<m, k>> \in edges \/ <<k, m>> \in edges}
      w[i \in 0 .. depth] ==
        IF i = 0 THEN [seen |-> {}, frontier |-> {n}, edges |-> {}]
        ELSE LET was == w[i - 1]
                 seen == was.seen \cup was.frontier
             IN [seen |-> seen,
                 frontier |-> (UNION {near(m) : m \in was.frontier}) \ seen,
                 edges |-> was.edges \cup
                   {e \in edges : \/ e[1] \in was.frontier /\ e[2] \in open
                                  \/ e[2] \in was.frontier /\ e[1] \in open}]
  IN [nodes |-> (w[depth].seen \cup w[depth].frontier) \cap open,
      edges |-> w[depth].edges]

(* list_nodes and search_nodes: rows by status, type and text; a listing is *)
(* one page of them, the newest, which may be any.                          *)
Listing(hits, type, all) ==
  {n \in hits \cap (IF all THEN nodes ELSE Committed) : type = {} \/ n \in type}

Pages(rows) ==
  {page \in SUBSET rows : IF Cardinality(rows) <= PageSize THEN page = rows
                          ELSE Cardinality(page) = PageSize}

(* get_full_graph: a page of all nodes and the edges between them, or a page *)
(* of one type, its edges and the nodes these lead to.                       *)
FullGraph(page, type, all) ==
  LET shown == IF type = {} THEN page ELSE page \cup Listing(Touching(page), {}, all)
  IN [nodes |-> shown,
      edges |-> {e \in edges : {e[1], e[2]} \subseteq shown /\ {e[1], e[2]} \cap page # {}}]

(* What a guest is answered: the nodes under the domains assigned to it.    *)
Visible(u, shown) ==
  IF u \in Guests
  THEN {n \in shown : ({n} \cup RootDomains(n)) \cap assigned[u] # {}}
  ELSE shown

(* POST /api/knowledge/search. *)
Search(u, hits, type, all) == Visible(u, Listing(hits, type, all))

(* The nodes of a workspace with the edges between them, as the graph, its  *)
(* info and the export take them out of a page of the full graph; and the   *)
(* totals get_graph_summary counts in the database.                         *)
InSpace(w, all) == {n \in Listing(nodes, {}, all) : w \in spaces[n]}
Between(N) == {e \in edges : e[1] \in N /\ e[2] \in N}

OfSpace(page, w, all) ==
  LET g == FullGraph(page, {}, all)
      mine == {n \in g.nodes : w \in spaces[n]}
  IN [nodes |-> mine, edges |-> {e \in g.edges : e[1] \in mine /\ e[2] \in mine}]

Totals(N, E) == [nodes |-> Cardinality(N), edges |-> Cardinality(E)]
Summary(w, all) == Totals(InSpace(w, all), Between(InSpace(w, all)))

-----------------------------------------------------------------------------
Init ==
  /\ nodes \in SUBSET Domains
  /\ edges = {}
  /\ staged = {}
  /\ spaces = [n \in Ids |-> {}]
  /\ assigned = [u \in Users |-> IF u \in Admins THEN {} ELSE nodes]
  /\ writable \in {w \in [Users -> SUBSET nodes] :
                    \A u \in Users : u \in Admins \cup Guests => w[u] = {}}
  /\ req = [u \in Users |-> Idle]
  /\ kept = {}
  /\ crossed = [u \in Users |-> {}]
  /\ plan \in Plans

(* _requested_connection_domains. *)
RootsOf(conns) == UNION {RootDomains(t) : t \in conns \cap nodes}
InScopeOfUser(u, roots) ==  \* looks at the user's domains only
  u \in Admins \/ (u \notin Guests /\ writable[u] # {})

InScope(u, roots) ==
  \/ u \in Admins
  \/ u \notin Guests /\ writable[u] # {} /\ roots \subseteq writable[u]

(* POST /api/knowledge/nodes, or .../store into a workspace.  Everything is *)
(* checked first, but for connections to nodes that are not there; the      *)
(* identifier may be the client's, and be in use or have been.              *)
CreateCheck(u, n, conns, space) ==
  /\ Uses(u, IF space = {} THEN "create" ELSE "store")
  /\ InScope(u, RootsOf(conns))
  /\ Start(u, [at |-> "insert", node |-> n, todo |-> conns, space |-> space,
               rooted |-> RootsOf(conns) # {}, scope |-> writable[u], absent |-> conns \ nodes])
  /\ UNCHANGED <<nodes, edges, staged, spaces, assigned, writable, kept>>

CreateFails(u) ==  \* the identifier is in use
  /\ req[u].at = "insert" /\ req[u].node \in nodes
  /\ End(u)
  /\ UNCHANGED <<nodes, edges, staged, spaces, assigned, writable, kept>>

CreateInsert(u) ==
  LET r == req[u] IN
  /\ r.at = "insert" /\ r.node \notin nodes
  /\ nodes' = nodes \cup {r.node}
  /\ staged' \in {staged, staged \cup {r.node}}
  /\ spaces' = [spaces EXCEPT ![r.node] = r.space]
  /\ kept' = kept \cup {<<r.node, w>> : w \in r.space}
  /\ Step(u, [at |-> "link", node |-> r.node, todo |-> r.todo,
              rooted |-> r.rooted, scope |-> r.scope, absent |-> r.absent])
  /\ UNCHANGED <<edges, assigned, writable>>

(* KnowledgeGraphDB.create_edge: both ends must exist. *)
Joined(n, t) == IF {n, t} \subseteq nodes THEN edges \cup {<<n, t>>} ELSE edges

(* _create_experience_connections: a connection that fails is passed over,  *)
(* as one with an unknown edge type does.                                   *)
CreateLink(u, t) ==
  LET r == req[u] IN
  /\ r.at = "link" /\ t \in r.todo
  /\ \/ edges' = Joined(r.node, t)
     \/ NoEdge /\ UNCHANGED edges
  /\ Step(u, [r EXCEPT !.todo = @ \ {t}])
  /\ UNCHANGED <<nodes, staged, spaces, assigned, writable, kept>>

(* _link_node_to_domains: without a domain among the connections the node   *)
(* goes under every domain its creator may write, read again by now.        *)
RootsFor(u) == IF u \in Admins THEN Committed \cap Domains ELSE writable[u]

CreateRead(u) ==
  LET r == req[u] IN
  /\ r.at = "link" /\ r.todo = {}
  /\ IF r.rooted THEN End(u)
     ELSE Step(u, [at |-> "root", node |-> r.node, todo |-> RootsFor(u),
                   scope |-> r.scope \cup RootsFor(u)])
  /\ UNCHANGED <<nodes, edges, staged, spaces, assigned, writable, kept>>

(* An edge that fails here ends the request with an error; the node stays.  *)
CreateRoot(u) ==
  LET r == req[u] IN
  /\ r.at = "root"
  /\ \/ r.todo = {} /\ End(u) /\ UNCHANGED edges
     \/ \E d \in r.todo :
          /\ edges' = Joined(r.node, d)
          /\ IF {r.node, d} \subseteq nodes
             THEN Step(u, [r EXCEPT !.todo = @ \ {d}]) ELSE End(u)
  /\ UNCHANGED <<nodes, staged, spaces, assigned, writable, kept>>

-----------------------------------------------------------------------------
(* Assignments: UserDB.assign_domain, remove_domain.  Guests only read.     *)
Assigns(a, u) == Uses(a, IF u \in Guests THEN "invite" ELSE "assign")

Assign(a, u, d, can) ==
  /\ Assigns(a, u) /\ req[a] = Idle
  /\ assigned' = [assigned EXCEPT ![u] = @ \cup {d}]
  /\ writable' = [writable EXCEPT ![u] = IF can /\ u \notin Guests THEN @ \cup {d}
                                         ELSE @ \ {d}]
  /\ UNCHANGED <<nodes, edges, staged, spaces, req, kept>>

Unassign(a, u, d) ==
  /\ Assigns(a, u) /\ req[a] = Idle
  /\ assigned' = [assigned EXCEPT ![u] = @ \ {d}]
  /\ writable' = [writable EXCEPT ![u] = @ \ {d}]
  /\ UNCHANGED <<nodes, edges, staged, spaces, req, kept>>

(* A new domain is inserted, then given read-only to all but admins.        *)
CreateDomain(a, d) ==
  /\ Uses(a, "domain") /\ d \notin nodes
  /\ Start(a, [at |-> "domain", node |-> d])
  /\ nodes' = nodes \cup {d}
  /\ UNCHANGED <<edges, staged, spaces, assigned, writable, kept>>

AssignReadOnly(a) ==
  LET d == req[a].node  others == Users \ Admins IN
  /\ req[a].at = "domain"
  /\ assigned' = [u \in Users |-> IF u \in others THEN assigned[u] \cup {d} ELSE assigned[u]]
  /\ writable' = [u \in Users |-> IF u \in others THEN writable[u] \ {d} ELSE writable[u]]
  /\ End(a)
  /\ UNCHANGED <<nodes, edges, staged, spaces, kept>>

-----------------------------------------------------------------------------
(* Removing nodes takes their edges and leaves the assignments. *)
Gone(N) ==
  /\ nodes' = nodes \ N
  /\ staged' = staged \ N
  /\ edges' = {e \in edges : e[1] \notin N /\ e[2] \notin N}
  /\ spaces' = [n \in Ids |-> IF n \in N THEN {} ELSE spaces[n]]

(* DELETE .../nodes/<id>: check_domain_write_access, then the deletion. *)
Editable(u, n) ==
  \/ u \in Admins
  \/ u \notin Guests /\ (RootDomains(n) = {} \/ RootDomains(n) \cap writable[u] # {})

DeleteCheck(u, n) ==
  /\ Uses(u, "delete") /\ Editable(u, n)
  /\ Start(u, [at |-> "delete", node |-> n])
  /\ UNCHANGED <<nodes, edges, staged, spaces, assigned, writable, kept>>

DeleteNode(u) ==
  LET n == req[u].node IN
  /\ req[u].at = "delete"
  /\ Gone({n})
  /\ kept' = {k \in kept : k[1] # n}
  /\ End(u)
  /\ UNCHANGED <<assigned, writable>>

(* nodes/bulk-delete: one deletion, and transaction, after the other. *)
BulkDelete(a, N) ==
  /\ Uses(a, "prune")
  /\ Start(a, [at |-> "bulk", node |-> a, delete |-> N])
  /\ UNCHANGED <<nodes, edges, staged, spaces, assigned, writable, kept>>

BulkDeleteOne(a) ==
  /\ req[a].at = "bulk"
  /\ \/ req[a].delete = {} /\ End(a) /\ UNCHANGED <<nodes, edges, staged, spaces, kept>>
     \/ \E n \in req[a].delete :
          /\ Gone({n})
          /\ kept' = {k \in kept : k[1] # n}
          /\ Step(a, [req[a] EXCEPT !.delete = @ \ {n}])
  /\ UNCHANGED <<assigned, writable>>

(* prune_graph with remove_orphan_nodes. *)
Prune(a) ==
  LET alone == {n \in nodes : \A e \in edges : n # e[1] /\ n # e[2]} IN
  /\ Uses(a, "prune") /\ req[a] = Idle
  /\ Gone(alone)
  /\ kept' = {k \in kept : k[1] \notin alone}
  /\ UNCHANGED <<assigned, writable, req>>

Disconnect(a, e) ==
  /\ Uses(a, "disconnect") /\ e \in edges /\ req[a] = Idle
  /\ edges' = edges \ {e}
  /\ UNCHANGED <<nodes, staged, spaces, assigned, writable, req, kept>>

Connect(a, n, m) ==
  /\ Uses(a, "connect") /\ req[a] = Idle /\ {n, m} \subseteq nodes
  /\ edges' = Joined(n, m)
  /\ UNCHANGED <<nodes, staged, spaces, assigned, writable, req, kept>>

(* nodes/commit and nodes/uncommit of a workspace's nodes, or of those named: *)
(* the workspace's are listed first.                                         *)
StatusRead(a, w, commit) ==
  /\ Uses(a, "commit")
  /\ Start(a, [at |-> "status", node |-> w, commit |-> commit,
               ids |-> {n \in nodes : w \in spaces[n] /\ (n \in staged <=> commit)}])
  /\ UNCHANGED <<nodes, edges, staged, spaces, assigned, writable, kept>>

StatusWrite(a) ==
  LET r == req[a] IN
  /\ r.at = "status"
  /\ staged' = IF r.commit THEN staged \ r.ids ELSE staged \cup (r.ids \cap nodes)
  /\ End(a)
  /\ UNCHANGED <<nodes, edges, spaces, assigned, writable, kept>>

-----------------------------------------------------------------------------
(* Workspaces.  Linking and unlinking read the list and write it back, as    *)
(* an edit of other metadata does; a list older than the node's latest may   *)
(* put that back.                                                            *)
Lists(r) ==  \* the nodes whose lists a request has read
  CASE r.at \in {"space", "edit"} -> {r.node}
    [] r.at = "purge" -> r.delete \cup {x[1] : x \in r.unlink}
    [] OTHER -> {}

Changed == {n \in Ids : (n \in nodes) # (n \in nodes') \/ spaces'[n] # spaces[n]}

Crossing ==
  crossed' = [u \in Users |-> (crossed[u] \cup Changed) \cap Lists(req[u]) \cap Lists(req'[u])]

(* The links left after a write of the list, from what was read before. *)
Spared(u, n, list) == {k \in kept : k[1] # n \/ n \notin crossed[u] \/ k[2] \in list}

SpaceRead(a, n, w, link) ==
  /\ Uses(a, "space") /\ n \in nodes
  /\ Start(a, [at |-> "space", node |-> n, space |-> w, link |-> link,
               list |-> IF link THEN spaces[n] \cup {w} ELSE spaces[n] \ {w}])
  /\ UNCHANGED <<nodes, edges, staged, spaces, assigned, writable, kept>>

(* update_node: nothing when the node is gone. *)
Rewritten(n, list) ==
  spaces' = IF n \in nodes THEN [spaces EXCEPT ![n] = list] ELSE spaces

SpaceWrite(a) ==
  LET r == req[a] IN
  /\ r.at = "space"
  /\ Rewritten(r.node, r.list)
  /\ kept' = IF r.link /\ r.node \in nodes
             THEN Spared(a, r.node, r.list) \cup {<<r.node, r.space>>}
             ELSE Spared(a, r.node, r.list) \ {<<r.node, r.space>>}
  /\ End(a)
  /\ UNCHANGED <<nodes, edges, staged, assigned, writable>>

(* PUT .../nodes/<id>, whose metadata names workspaces or leaves them.      *)
EditRead(u, n) ==
  /\ Uses(u, "edit") /\ n \in nodes /\ Editable(u, n)
  /\ Start(u, [at |-> "edit", node |-> n, list |-> spaces[n]])
  /\ UNCHANGED <<nodes, edges, staged, spaces, assigned, writable, kept>>

EditWrite(u) ==
  LET r == req[u] IN
  /\ r.at = "edit"
  /\ Rewritten(r.node, r.list)
  /\ kept' = Spared(u, r.node, r.list)
  /\ End(u)
  /\ UNCHANGED <<nodes, edges, staged, assigned, writable>>

EditSpaces(u, n, list) ==
  /\ Uses(u, "edit") /\ n \in nodes /\ Editable(u, n) /\ req[u] = Idle
  /\ Rewritten(n, list)
  /\ kept' = {k \in kept : k[1] # n} \cup {<<n, w>> : w \in list}
  /\ UNCHANGED <<nodes, edges, staged, assigned, writable, req>>

(* _classify_workspace_nodes. *)
ExclusiveUpToTwo(w) == {n \in nodes : w \in spaces[n] /\ Cardinality(spaces[n]) <= 2}

Exclusive(w) == {n \in nodes : w \in spaces[n] /\ Cardinality(spaces[n]) <= 1}
Shared(w) == {n \in nodes : w \in spaces[n]} \ Exclusive(w)

PurgeClassify(a, w) ==
  /\ Uses(a, "purge")
  /\ Start(a, [at |-> "purge", node |-> w, delete |-> Exclusive(w),
               unlink |-> {<<n, spaces[n] \ {w}>> : n \in Shared(w)}])
  /\ UNCHANGED <<nodes, edges, staged, spaces, assigned, writable, kept>>

PurgeDelete(a, n) ==
  /\ req[a].at = "purge" /\ n \in req[a].delete
  /\ Gone({n})
  /\ kept' = Spared(a, n, {}) \ {<<n, req[a].node>>}
  /\ Step(a, [req[a] EXCEPT !.delete = @ \ {n}])
  /\ UNCHANGED <<assigned, writable>>

PurgeUnlink(a, x) ==
  /\ req[a].at = "purge" /\ req[a].delete = {} /\ x \in req[a].unlink
  /\ Rewritten(x[1], x[2])
  /\ kept' = Spared(a, x[1], x[2]) \ {<<x[1], req[a].node>>}
  /\ Step(a, [req[a] EXCEPT !.unlink = @ \ {x}])
  /\ UNCHANGED <<nodes, edges, staged, assigned, writable>>

PurgeEnd(a) ==
  /\ req[a].at = "purge" /\ req[a].delete = {} /\ req[a].unlink = {}
  /\ End(a)
  /\ UNCHANGED <<nodes, edges, staged, spaces, assigned, writable, kept>>

(* POST /api/knowledge/import of one node: a node of that title is linked,  *)
(* unless it is already, from the list read with the index, or it is created. *)
ImportRead(a, n, w) ==
  LET same == {m \in nodes \cap Plain : Title[m] = Title[n]} IN
  /\ Uses(a, "import")
  /\ IF same = {}
     THEN Start(a, [at |-> "import", node |-> n, space |-> w, list |-> {w}])
     ELSE \E m \in same :
            /\ w \notin spaces[m]
            /\ Start(a, [at |-> "space", node |-> m, space |-> w, link |-> TRUE,
                         list |-> spaces[m] \cup {w}])
  /\ UNCHANGED <<nodes, edges, staged, spaces, assigned, writable, kept>>

ImportCreate(a) ==
  LET r == req[a] IN
  /\ r.at = "import"
  /\ IF r.node \in nodes THEN UNCHANGED <<nodes, spaces, kept>>
     ELSE /\ nodes' = nodes \cup {r.node}
          /\ spaces' = [spaces EXCEPT ![r.node] = r.list]
          /\ kept' = kept \cup {<<r.node, r.space>>}
  /\ End(a)
  /\ UNCHANGED <<edges, staged, assigned, writable>>

-----------------------------------------------------------------------------
CreateStep(u) ==
  \/ \E n \in Plain, c \in SUBSET Ids, s \in {{}} \cup {{w} : w \in Spaces} :
       Cardinality(c) <= 1 /\ CreateCheck(u, n, c, s)
  \/ CreateInsert(u) \/ CreateFails(u) \/ CreateRead(u) \/ CreateRoot(u)
  \/ \E t \in Ids : CreateLink(u, t)
  \/ \E n \in Ids : DeleteCheck(u, n) \/ EditRead(u, n)
  \/ \E n \in Ids, S \in SUBSET Spaces : EditSpaces(u, n, S)
  \/ DeleteNode(u) \/ EditWrite(u)

GraphStep(a) ==
  \/ \E u \in Users \ Admins, d \in Domains, b \in BOOLEAN : Assign(a, u, d, b)
  \/ \E u \in Users \ Admins, d \in Domains : Unassign(a, u, d)
  \/ \E d \in Domains : CreateDomain(a, d)
  \/ \E e \in edges : Disconnect(a, e)
  \/ \E n, m \in Ids : Connect(a, n, m)
  \/ \E w \in Spaces, b \in BOOLEAN : StatusRead(a, w, b)
  \/ \E N \in SUBSET nodes : BulkDelete(a, N)
  \/ StatusWrite(a) \/ BulkDeleteOne(a)
  \/ AssignReadOnly(a) \/ Prune(a)

SpaceStep(a) ==
  \/ \E n \in Ids, w \in Spaces, b \in BOOLEAN : SpaceRead(a, n, w, b)
  \/ \E w \in Spaces : PurgeClassify(a, w)
  \/ \E n \in Ids : PurgeDelete(a, n)
  \/ \E n \in Ids, s \in SUBSET Spaces : PurgeUnlink(a, <<n, s>>)
  \/ \E n \in Plain, w \in Spaces : ImportRead(a, n, w)
  \/ SpaceWrite(a) \/ PurgeEnd(a) \/ ImportCreate(a)

Next ==
  /\ \/ \E u \in Users : CreateStep(u)
     \/ \E a \in Admins : GraphStep(a) \/ SpaceStep(a)
  /\ Crossing /\ UNCHANGED plan

Spec == Init /\ [][Next]_vars

-----------------------------------------------------------------------------
Requests ==
  {Idle}
    \cup [at : {"insert"}, node : Plain, todo : SUBSET Ids, space : SUBSET Spaces,
          rooted : BOOLEAN, scope : SUBSET Domains, absent : SUBSET Ids]
    \cup [at : {"link"}, node : Plain, todo : SUBSET Ids, rooted : BOOLEAN,
          scope : SUBSET Domains, absent : SUBSET Ids]
    \cup [at : {"root"}, node : Plain, todo : SUBSET Domains, scope : SUBSET Domains]
    \cup [at : {"domain"}, node : Domains]
    \cup [at : {"delete"}, node : Ids]
    \cup [at : {"bulk"}, node : Admins, delete : SUBSET Ids]
    \cup [at : {"status"}, node : Spaces, commit : BOOLEAN, ids : SUBSET Ids]
    \cup [at : {"space"}, node : Ids, space : Spaces, link : BOOLEAN, list : SUBSET Spaces]
    \cup [at : {"edit"}, node : Ids, list : SUBSET Spaces]
    \cup [at : {"purge"}, node : Spaces, delete : SUBSET Ids,
          unlink : SUBSET (Ids \X SUBSET Spaces)]
    \cup [at : {"import"}, node : Plain, space : Spaces, list : SUBSET Spaces]

TypeOK ==
  /\ nodes \subseteq Ids /\ staged \subseteq nodes
  /\ edges \in SUBSET (nodes \X nodes)
  /\ spaces \in [Ids -> SUBSET Spaces]
  /\ assigned \in [Users -> SUBSET Domains] /\ writable \in [Users -> SUBSET Domains]
  /\ \A u \in Users : writable[u] \subseteq assigned[u]
  /\ req \in [Users -> Requests]
  /\ kept \subseteq Ids \X Spaces
  /\ \A u \in Users : crossed[u] \subseteq Lists(req[u])
  /\ plan \in Plans

(* A link to a workspace that was answered as made holds until the node or  *)
(* the link is taken away, whatever users and administrators do meanwhile:  *)
(* a purge of another workspace spares it.  It is lost only to a write of   *)
(* the same node's list that had been read before the node last changed     *)
(* (src/knowledge/routes.py:1279).                                          *)
LinksHold == \A k \in kept : k[1] \in nodes /\ k[2] \in spaces[k[1]]

(* A node created by anyone but an administrator is hung only under domains *)
(* its creator could write when the request was checked or when it fell     *)
(* back on them, or that were not there when it was checked: those the      *)
(* check passes over (src/knowledge/routes.py:242).                         *)
HungInScope ==
  \A u \in Users \ Admins :
    /\ req[u].at = "link" => req[u].todo \cap Domains \subseteq req[u].scope \cup req[u].absent
    /\ req[u].at = "root" => req[u].todo \subseteq req[u].scope

(* The walks against the distance between nodes: a root is a domain within  *)
(* MaxDepth hops.  What a reader is shown is closed under its edges, but    *)
(* for a staged node looked at by its own identifier.  A page of one type   *)
(* adds only nodes with an edge into it that is shown.  And counted totals  *)
(* are those of the workspace's listing just when all of it is on the page  *)
(* (src/knowledge/routes.py:1214).                                          *)
Within(n, m, k) ==
  \E p \in [0 .. k -> nodes] :
    /\ p[0] = n /\ p[k] = m
    /\ \A i \in 1 .. k : p[i] = p[i - 1] \/ p[i] \in Touching({p[i - 1]})

ViewsAgree ==
  /\ \A n \in nodes :
       /\ n \notin Domains => RootDomains(n) = {d \in nodes \cap Domains : Within(n, d, MaxDepth)}
       /\ \A all \in BOOLEAN :
            LET g == Neighbors(n, 2, all)
            IN /\ g.edges \subseteq (g.nodes \cup {n}) \X (g.nodes \cup {n})
               /\ n \in g.nodes <=> all \/ n \notin staged
       /\ n \notin Domains => \A u \in Guests :
            n \in Search(u, {n}, Plain, TRUE) <=> \E d \in assigned[u] \cap nodes : Within(n, d, MaxDepth)
  /\ \A type \in {{}, Domains, Plain}, all \in BOOLEAN : \A page \in Pages(Listing(nodes, type, all)) :
       LET g == FullGraph(page, type, all)
       IN /\ g.edges \subseteq g.nodes \X g.nodes /\ (all \/ g.nodes \cap staged = {})
          /\ \A m \in g.nodes \ page : \E e \in g.edges : m \in {e[1], e[2]}
  /\ \A w \in Spaces, all \in BOOLEAN : \A page \in Pages(Listing(nodes, {}, all)) :
       LET g == OfSpace(page, w, all)
       IN Summary(w, all) = Totals(g.nodes, g.edges) <=> InSpace(w, all) \subseteq page
=============================================================================
