--------------------------- MODULE MCContemplation ---------------------------
(***************************************************************************)
(* A domain, node 1, and four nodes that bear one title; node 5 names node *)
(* 2 as superseded by it.  A behaviour is of one kind: one run that does    *)
(* not fail among the edits of users, or three runs of two workers that     *)
(* fail and crash on a graph nobody edits.                                  *)
(***************************************************************************)
EXTENDS Naturals, Sequences, FiniteSets, TLC

CONSTANTS
  N, DomainNodes, TitleOf, Fact, Supersedes, Unlike, EdgeTypes, MaxWeight, Workspaces, Hops,
  MaxAffected, Seeds, Workers, Editors, MaxRuns, MaxEdits, MaxFaults

VARIABLES
  kind,
  graph, nruns, run, report, advisory, tables, wpc, wrun, cache, before, epc, hand, edits, faults

Maint == INSTANCE Contemplation WITH Domains <- DomainNodes, Title <- TitleOf

(* Seeds are graphs without dangling edges, and no worker is "none".       *)
ASSUME GraphConstantsAssumption ==
  /\ {N, MaxWeight, Hops, MaxAffected, MaxRuns, MaxEdits, MaxFaults} \subseteq Nat
  /\ DomainNodes \subseteq Maint!Nodes /\ Supersedes \in [Maint!Nodes -> 0..N]
  /\ Seeds \subseteq Maint!Graph /\ \A g \in Seeds : Maint!Attached(g)
  /\ Maint!None \notin Workers

MCTitle      == [n \in 1..5 |-> IF n = 1 THEN "d" ELSE "t"]
MCFact       == [n \in 1..5 |-> IF n = 1 THEN "d" ELSE IF n = 2 THEN "f" ELSE "g"]
MCSupersedes == [n \in 1..5 |-> IF n = 5 THEN 2 ELSE 0]
MCUnlike     == {{2, 4}}

(* Statuses of nodes 1 to 5 by their initials, their workspaces, and their *)
(* edges.                                                                  *)
Spelled == [c |-> "committed", s |-> "staged", u |-> "unborn"]

Seed(initial, ws, edges) ==
  [status |-> [n \in 1..5 |-> Spelled[initial[n]]], ws |-> ws,
   content |-> [n \in 1..5 |-> <<MCFact[n]>>],
   sup |-> [n \in 1..5 |-> IF initial[n] = "u" THEN 0 ELSE MCSupersedes[n]],
   edge |-> [e \in (1..5) \X (1..5) \X {"k"} |-> IF e \in DOMAIN edges THEN edges[e] ELSE 0]]

MCSeeds ==
  { \* three twins under the domain, two of them linked to it alike
    Seed(<<"c", "c", "s", "c", "u">>,
         <<{}, {"u"}, {}, {}, {}>>,
         (<<2, 1, "k">> :> 1) @@ (<<3, 1, "k">> :> 2) @@ (<<4, 1, "k">> :> 1) @@ (<<3, 4, "k">> :> 1)),
    \* no domain near: workspaces decide, and node 5 supersedes node 2
    Seed(<<"c", "c", "c", "s", "s">>,
         <<{}, {"u"}, {"u", "v"}, {"v"}, {"u"}>>,
         (<<3, 4, "k">> :> 2) @@ (<<5, 3, "k">> :> 1)) }

MCInit == Maint!Init /\ kind \in {"edits", "runs"}
MCNext ==
  /\ Maint!Next
  /\ UNCHANGED kind
  /\ kind = "edits" => nruns' <= 1 /\ faults' = 0
  /\ kind = "runs" => edits' = 0 /\ UNCHANGED Maint!editor
MCSpec == MCInit /\ [][MCNext]_<<Maint!vars, kind>>

MCSymmetry == Permutations(Workers)

(* What the reports say of the runs holds, and no run merged more than it   *)
(* may (src/knowledge/maintenance.py:153, contemplate_engine.py:52).        *)
ReportsHold == Maint!TypeOK /\ Maint!ReportedIffFinished /\ Maint!WithinBudget

(* A report leads back to the graph before its run                          *)
(* (src/knowledge/contemplate_report.py).                                   *)
Undoable == Maint!Undoable

(* Edges, texts, workspaces and domains of merged nodes are those of their  *)
(* heirs, and nodes of different scope are never merged                     *)
(* (src/knowledge/contemplate_engine.py:30).                                *)
LinksSurvive == Maint!LinksSurvive
FactsSurvive == Maint!FactsSurvive
ScopesApart  == Maint!ScopesApart
=============================================================================
