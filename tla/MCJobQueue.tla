----------------------------- MODULE MCJobQueue -----------------------------
(***************************************************************************)
(* Small instances of the job queue for TLC.                               *)
(***************************************************************************)
EXTENDS JobQueue

MCKinds      == {"index", "codegraph_sync", "differential_sync"}
MCInLoop     == {"index", "codegraph_sync"}
MCDirect     == {"codegraph_sync", "differential_sync"}
MCStructural == {"codegraph_sync"}
MCFollowUps  ==
  [k \in MCKinds |->
     IF k = "differential_sync" THEN <<"index", "codegraph_sync">> ELSE <<>>]

(* Without the plain index job, to keep the liveness check small.          *)
MCKinds2     == {"codegraph_sync", "differential_sync"}
MCInLoop2    == {"codegraph_sync"}
MCFollowUps2 ==
  [k \in MCKinds2 |-> IF k = "differential_sync" THEN <<"codegraph_sync">> ELSE <<>>]
=============================================================================
