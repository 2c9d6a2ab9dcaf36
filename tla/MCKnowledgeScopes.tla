--------------------------- MODULE MCKnowledgeScopes ---------------------------
(* Plans for TLC: who uses which routes in one behaviour. *)
EXTENDS KnowledgeScopes, TLC

CONSTANTS d1, d2, n1, n2, w1, w2

MCTitle == [n \in Plain |-> "title"]

By(u, routes) == {u} \X routes

MCPlans ==
  { By("ann", {"create"}) \cup By("root", {"assign"}),
    By("ann", {"create"}) \cup By("root", {"delete"}),
    By("ann", {"create", "delete"}) \cup By("root", {"domain"}),
    By("root", {"connect", "invite"}),
    By("root", {"space", "import"}) \cup By("eve", {"space", "purge"}),
    By("ann", {"store"}) \cup By("eve", {"purge"}),
    By("ann", {"edit"}) \cup By("root", {"space"}) \cup By("eve", {"purge"}),
    By("ann", {"edit"}) \cup By("root", {"import", "space"}),
    By("root", {"connect", "prune", "disconnect"}) \cup By("eve", {"commit", "import"}) }

(* Where nobody asks what ann may write, she may write nothing; and one      *)
(* domain is enough to be filed in workspaces.                               *)
MCInit ==
  /\ Init
  /\ {<<"ann", op>> : op \in {"create", "store", "edit"}} \cap plan = {} => writable["ann"] = {}
  /\ <<"root", "space">> \in plan \/ <<"eve", "purge">> \in plan => Cardinality(nodes) <= 1

MCSpec == MCInit /\ [][Next]_vars

MCSymmetry == Permutations({d1, d2}) \cup Permutations({n1, n2}) \cup Permutations({w1, w2})
               
=============================================================================
