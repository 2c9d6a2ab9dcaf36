------------------------------- MODULE Notebooks -------------------------------
(***************************************************************************)
(* One notebook and the requests its owner and others send at once         *)
(* (src/routes/notebooks.py, src/db/notebooks.py): who may do what is      *)
(* looked up in a transaction of its own, and the write follows in         *)
(* another; meanwhile memberships end and the notebook is deleted.  The    *)
(* owner's assignments of many members are one transaction.  Conversations *)
(* are in Conversation, engrams in Engrams, lists in Pages.                *)
(***************************************************************************)
EXTENDS Integers, Sequences, FiniteSets

CONSTANTS Owner, Others, Requests, None,
          Plans   \* sets of operations: requests of one of them meet (all of them
                  \* would too, and TLC could not enumerate it)

VARIABLES plan,      \* the operations requests ask for
          alive,     \* whether the notebook's row exists
          member,    \* notebook_memberships
          rows,      \* the requests whose source, memory, artifact, rendition exists
          source,    \* a source that was there before: "there", "cited" or "gone"
          rendition, \* the status of a rendition that was there before, or "gone"
          versions,  \* the versions of an artifact: when their requests began
          lock,      \* the request that holds the artifact's row
          req, clock,
          ended,     \* history: requests in whose course their sender's access ended
          landed,    \* history: requests that took effect
          bereft,    \* history: requests whose result was deleted before they read it back
          overlap    \* history: whether two versions were under way at once

vars == <<plan, alive, member, rows, source, rendition, versions, lock, req, clock, ended, landed, bereft, overlap>>

Users == {Owner} \cup Others
MemberRoles == {"editor", "viewer"}
Statuses == {"pending", "rendering", "failed", "cancelled", "ready"}
StatusUpdates == Statuses \ {"ready"}

(* Operations by their routes, and by the access they ask for. *)
CoverOps     == {"set cover", "clear cover"}
MemberOps    == {"grant", "change", "revoke"}
SourceOps    == {"source", "remove source"}
ArtifactOps  == {"memory", "artifact", "version"}
RenditionOps == {"rendition", "mark", "remove rendition"}
OwnerOps == {"edit", "delete"} \cup CoverOps \cup MemberOps
WriteOps == SourceOps \cup ArtifactOps \cup RenditionOps

Nobody == [role |-> "none", active |-> FALSE]
At(c, p) == req[c].at = p
InProgress(c) == ~At(c, "new") /\ ~At(c, "done")

(* get_access: the owner by the notebook's own row, others by an active     *)
(* membership.                                                              *)
RoleOnceMember(u) ==
  IF ~alive THEN "none" ELSE IF u = Owner THEN "owner" ELSE member[u].role
Role(u) ==
  IF ~alive THEN "none" ELSE IF u = Owner THEN "owner" ELSE IF member[u].active THEN member[u].role ELSE "none"

(* What the user may do by the tables, whatever a request has been told.    *)
May(u, op) ==
  /\ alive
  /\ u = Owner \/ (op \in WriteOps /\ member[u] = [role |-> "editor", active |-> TRUE])

Init ==
  /\ plan \in Plans
  /\ alive = TRUE
  /\ member \in [Users -> [role : MemberRoles, active : BOOLEAN] \cup {Nobody, [role |-> "owner", active |-> TRUE]}]
  /\ \A u \in Users : member[u].role = "owner" <=> u = Owner
  /\ rows = {}
  /\ source = "there"
  /\ rendition \in {"pending", "ready"}
  /\ versions = <<0>>
  /\ lock = None
  /\ req = [c \in Requests |-> [at |-> "new"]]
  /\ clock = 0 /\ ended = {} /\ landed = {} /\ bereft = {} /\ overlap = FALSE

Answer(c, code) == req' = [req EXCEPT ![c] = [at |-> "done", who |-> req[c].who, op |-> req[c].op, code |-> code]]
Effect(c) == landed' = landed \cup {c}

(* _access: the notebook with the sender's role. *)
Refusal(u, op, of) ==
  IF Role(u) = "none" THEN "404"
  ELSE IF op \in OwnerOps /\ Role(u) # "owner" THEN "403"
  ELSE IF op \in WriteOps /\ Role(u) \notin {"owner", "editor"} THEN "403"
  ELSE IF op = "grant" /\ of = Owner THEN "400"
  ELSE None

LookingOps == {"change", "revoke", "version", "rendition"}

Check(c, u, op, of, arg) ==
  /\ At(c, "new")
  /\ LET no == Refusal(u, op, of)
     IN req' = [req EXCEPT ![c] =
          IF no # None THEN [at |-> "done", who |-> u, op |-> op, code |-> no]
          ELSE [at |-> IF op \in LookingOps THEN "look" ELSE "checked",
                who |-> u, op |-> op, of |-> of, arg |-> arg]]
  /\ UNCHANGED <<alive, member, rows, source, rendition, versions, lock, clock, landed>>

(* What some routes look up next: the member whose role is to change, which *)
(* is not the owner's, or the artifact.                                    *)
Missing(op, of) == IF op \in MemberOps THEN member[of].role = "none" ELSE ~alive

Look(c) ==
  LET no == IF Missing(req[c].op, req[c].of) THEN "404"
            ELSE IF req[c].op \in MemberOps /\ member[req[c].of].role = "owner" THEN "400"
            ELSE None
  IN
  /\ At(c, "look")
  /\ IF no # None THEN Answer(c, no)
     ELSE req' = [req EXCEPT ![c] = [at |-> "checked", who |-> @.who, op |-> @.op, of |-> @.of, arg |-> @.arg]]
  /\ UNCHANGED <<alive, member, rows, source, rendition, versions, lock, clock, landed>>

(* The foreign key refuses a row of a notebook that is gone, which only the  *)
(* upload of a rendition tells from an error of the server.                  *)
Insert(c, op, refused) ==
  /\ At(c, "checked") /\ req[c].op = op
  /\ rows' = IF alive THEN rows \cup {c} ELSE rows
  /\ landed' = IF alive THEN landed \cup {c} ELSE landed
  /\ Answer(c, IF alive THEN "201" ELSE refused)
  /\ UNCHANGED <<alive, member, source, rendition, versions, lock, clock>>

CreateSource(c)    == Insert(c, "source", "500")
CreateMemory(c)    == Insert(c, "memory", "500")
CreateArtifact(c)  == Insert(c, "artifact", "500")
CreateRendition(c) == Insert(c, "rendition", "400")

(* What is updated may be gone: update and clear_cover answer with nothing   *)
(* then, set_cover reads the notebook to answer.                             *)
ReadingBack(c) == req' = [req EXCEPT ![c] = [at |-> "wrote", who |-> @.who, op |-> @.op, of |-> @.of]]

Rewrite(c, op) ==
  /\ At(c, "checked") /\ req[c].op = op
  /\ landed' = IF alive THEN landed \cup {c} ELSE landed
  /\ IF op = "set cover" THEN ReadingBack(c) ELSE Answer(c, "200")
  /\ UNCHANGED <<alive, member, rows, source, rendition, versions, lock, clock>>

Update(c)     == Rewrite(c, "edit")
SetCover(c)   == Rewrite(c, "set cover")
ClearCover(c) == Rewrite(c, "clear cover")

(* What was changed is committed, then read back in a transaction of its    *)
(* own; when it is gone by then, the answer is that it was not found, or an *)
(* error.                                                                   *)
StillThere(c) ==
  CASE req[c].op = "set cover" -> alive
    [] req[c].op = "mark" -> rendition # "gone"
    [] OTHER -> member[req[c].of].role # "none"

Rereads(c) == At(c, "wrote") /\ StillThere(c)
Lost(c) == At(c, "wrote") /\ ~StillThere(c)

Reread(c) ==
  /\ At(c, "wrote")
  /\ Answer(c, IF req[c].op = "set cover" THEN (IF StillThere(c) THEN "201" ELSE "500")
               ELSE (IF StillThere(c) THEN "200" ELSE "404"))
  /\ UNCHANGED <<alive, member, rows, source, rendition, versions, lock, clock, landed>>

(* The row goes, and by the foreign keys all that refers to it, when no      *)
(* transaction holds a row of it.                                            *)
Delete(c) ==
  /\ At(c, "checked") /\ req[c].op = "delete"
  /\ lock = None
  /\ alive' = FALSE
  /\ member' = [u \in Users |-> Nobody]
  /\ rows' = {} /\ source' = "gone" /\ rendition' = "gone" /\ versions' = <<>>
  /\ Effect(c) /\ Answer(c, "200")
  /\ UNCHANGED <<lock, clock>>

(* grant_member: an upsert, refused by the foreign key; update_member and    *)
(* revoke_member: only of an active member.                                  *)
Grant(c) ==
  /\ At(c, "checked") /\ req[c].op = "grant"
  /\ member' = IF alive THEN [member EXCEPT ![req[c].of] = [role |-> req[c].arg, active |-> TRUE]] ELSE member
  /\ landed' = IF alive THEN landed \cup {c} ELSE landed
  /\ Answer(c, IF alive THEN "201" ELSE "500")
  /\ UNCHANGED <<alive, rows, source, rendition, versions, lock, clock>>

Change(c) ==
  LET active == member[req[c].of].active IN
  /\ At(c, "checked") /\ req[c].op = "change"
  /\ member' = IF active THEN [member EXCEPT ![req[c].of] = [role |-> req[c].arg, active |-> TRUE]] ELSE member
  /\ landed' = IF active THEN landed \cup {c} ELSE landed
  /\ IF active THEN ReadingBack(c) ELSE Answer(c, "404")
  /\ UNCHANGED <<alive, rows, source, rendition, versions, lock, clock>>

RevokeAlways(c) ==  \* reads back whether or not it updated
  LET active == member[req[c].of].active IN
  /\ At(c, "checked") /\ req[c].op = "revoke"
  /\ member' = IF active THEN [member EXCEPT ![req[c].of] = [role |-> @.role, active |-> FALSE]] ELSE member
  /\ landed' = IF active THEN landed \cup {c} ELSE landed
  /\ ReadingBack(c)
  /\ UNCHANGED <<alive, rows, source, rendition, versions, lock, clock>>

Revoke(c) ==
  LET active == member[req[c].of].active IN
  /\ At(c, "checked") /\ req[c].op = "revoke"
  /\ member' = IF active THEN [member EXCEPT ![req[c].of] = [role |-> @.role, active |-> FALSE]] ELSE member
  /\ landed' = IF active THEN landed \cup {c} ELSE landed
  /\ IF active THEN ReadingBack(c) ELSE Answer(c, "404")
  /\ UNCHANGED <<alive, rows, source, rendition, versions, lock, clock>>

(* batch_assignments: everything is checked under the notebook's lock; the   *)
(* owner may only be assigned what it is.                                    *)
BatchRefused(u, assign) ==
  \/ ~alive \/ u # Owner
  \/ Owner \in DOMAIN assign /\ assign[Owner] # "owner"
  \/ \E v \in DOMAIN assign \ {Owner} : assign[v] = "owner"

Assigned(assign, v) ==
  IF v \notin DOMAIN assign \ {Owner} THEN member[v]
  ELSE IF assign[v] # "remove" THEN [role |-> assign[v], active |-> TRUE]
  ELSE [role |-> member[v].role, active |-> FALSE]

Batch(c, u, assign) ==
  LET no == BatchRefused(u, assign) IN
  /\ At(c, "new")
  /\ member' = IF no THEN member ELSE [v \in Users |-> Assigned(assign, v)]
  /\ landed' = IF no THEN landed ELSE landed \cup {c}
  /\ req' = [req EXCEPT ![c] = [at |-> "done", who |-> u, op |-> "batch", code |-> IF no THEN "400" ELSE "200"]]
  /\ UNCHANGED <<alive, rows, source, rendition, versions, lock, clock>>

(* create_artifact_version: the time is taken, then the artifact's row is    *)
(* locked; when it is gone, nothing is created and 201 answered all the same. *)
BeginVersion(c) ==
  /\ At(c, "checked") /\ req[c].op = "version"
  /\ clock' = clock + 1
  /\ req' = [req EXCEPT ![c] = [at |-> "begun", who |-> @.who, op |-> @.op, now |-> clock + 1]]
  /\ UNCHANGED <<alive, member, rows, source, rendition, versions, lock, landed>>

LockVersionFree(c) ==
  /\ At(c, "begun")
  /\ lock' = IF alive THEN c ELSE lock
  /\ IF alive THEN req' = [req EXCEPT ![c] = [at |-> "locked", who |-> @.who, op |-> @.op, now |-> @.now, next |-> Len(versions) + 1]]
     ELSE Answer(c, "201")
  /\ UNCHANGED <<alive, member, rows, source, rendition, versions, clock, landed>>
LockVersion(c) ==
  /\ At(c, "begun") /\ lock = None
  /\ lock' = IF alive THEN c ELSE lock
  /\ IF alive THEN req' = [req EXCEPT ![c] = [at |-> "locked", who |-> @.who, op |-> @.op, now |-> @.now, next |-> Len(versions) + 1]]
     ELSE Answer(c, "201")
  /\ UNCHANGED <<alive, member, rows, source, rendition, versions, clock, landed>>

(* The primary key refuses a number that is taken. *)
CommitVersion(c) ==
  LET free == req[c].next > Len(versions) IN
  /\ At(c, "locked")
  /\ versions' = IF free THEN Append(versions, req[c].now) ELSE versions
  /\ landed' = IF free THEN landed \cup {c} ELSE landed
  /\ lock' = None
  /\ Answer(c, IF free THEN "201" ELSE "500")
  /\ UNCHANGED <<alive, member, rows, source, rendition, clock>>

(* update_artifact_rendition_status: never from, and never to, ready. *)
Mark(c) ==
  LET mutable == rendition \in StatusUpdates IN
  /\ At(c, "checked") /\ req[c].op = "mark"
  /\ rendition' = IF mutable THEN req[c].arg ELSE rendition
  /\ landed' = IF mutable THEN landed \cup {c} ELSE landed
  /\ IF mutable THEN ReadingBack(c) ELSE Answer(c, "404")
  /\ UNCHANGED <<alive, member, rows, source, versions, lock, clock>>

(* A row is read, then deleted if it is still there.                         *)
SeeRow(c, op, there) ==
  /\ At(c, "checked") /\ req[c].op = op
  /\ IF there THEN req' = [req EXCEPT ![c] = [at |-> "seen", who |-> @.who, op |-> @.op]] ELSE Answer(c, "404")
  /\ UNCHANGED <<alive, member, rows, source, rendition, versions, lock, clock, landed>>

SeeSource(c)    == SeeRow(c, "remove source", source # "gone")
SeeRendition(c) == SeeRow(c, "remove rendition", rendition # "gone")

(* A source that an engram item cites cannot be deleted. *)
DeleteSource(c) ==
  LET kept == source = "cited" IN
  /\ At(c, "seen") /\ req[c].op = "remove source"
  /\ source' = IF kept THEN source ELSE "gone"
  /\ landed' = IF kept THEN landed ELSE landed \cup {c}
  /\ Answer(c, IF kept THEN "500" ELSE "200")
  /\ UNCHANGED <<alive, member, rows, rendition, versions, lock, clock>>

DeleteRendition(c) ==
  /\ At(c, "seen") /\ req[c].op = "remove rendition"
  /\ rendition' = "gone"
  /\ Effect(c) /\ Answer(c, "200")
  /\ UNCHANGED <<alive, member, rows, source, versions, lock, clock>>

(* An engram item is created whose provenance names the source. *)
Cite ==
  /\ source = "there"
  /\ source' = "cited"
  /\ UNCHANGED <<alive, member, rows, rendition, versions, lock, req, clock, landed>>

(* A write of version fails, and gives the row back. *)
Abort(c) ==
  /\ At(c, "locked")
  /\ lock' = None
  /\ Answer(c, "500")
  /\ UNCHANGED <<alive, member, rows, source, rendition, versions, clock, landed>>

Step(c) ==
  \/ CreateSource(c) \/ CreateMemory(c) \/ CreateArtifact(c) \/ CreateRendition(c)
  \/ Update(c) \/ SetCover(c) \/ ClearCover(c) \/ Delete(c) \/ Grant(c) \/ Change(c) \/ Revoke(c)
  \/ BeginVersion(c) \/ LockVersion(c) \/ CommitVersion(c) \/ Abort(c)
  \/ Look(c) \/ Reread(c) \/ Mark(c) \/ SeeSource(c) \/ DeleteSource(c) \/ SeeRendition(c) \/ DeleteRendition(c)

(* What an operation is about: a member and a role, or a status. *)
Args(op) ==
  IF op \in {"grant", "change"} THEN Users \X MemberRoles
  ELSE IF op = "revoke" THEN Users \X {None}
  ELSE IF op = "mark" THEN {<<Owner, s>> : s \in StatusUpdates}
  ELSE {<<Owner, None>>}

Assignments == UNION {[vs -> {"editor", "viewer", "owner", "remove"}] : vs \in (SUBSET Users) \ {{}}}

Next ==
  /\ \/ \E c \in Requests, u \in Users, op \in plan \ {"batch"} :
          \E a \in Args(op) : Check(c, u, op, a[1], a[2])
     \/ "batch" \in plan /\ \E c \in Requests, u \in Users, assign \in Assignments : Batch(c, u, assign)
     \/ \E c \in Requests : Step(c)
     \/ "remove source" \in plan /\ Cite
  /\ UNCHANGED plan
  /\ overlap' = (overlap \/ Cardinality({c \in Requests : req'[c].at \in {"begun", "locked"}}) > 1)
  /\ bereft' = bereft \cup {c \in Requests : Rereads(c) /\ Lost(c)'}
  /\ ended' = ended \cup {c \in Requests : InProgress(c) /\ May(req[c].who, req[c].op) /\ ~May(req[c].who, req[c].op)'}

Spec == Init /\ [][Next]_vars

-----------------------------------------------------------------------------
(* The owner's membership is the owner's as long as the notebook exists, and *)
(* nothing of a notebook outlives it (src/db/notebooks.py:85).              *)
TypeOK ==
  /\ \A u \in Users : member[u] \in [role : MemberRoles, active : BOOLEAN] \cup {Nobody, [role |-> "owner", active |-> TRUE]}
  /\ IF alive THEN member[Owner] = [role |-> "owner", active |-> TRUE]
     ELSE rows = {} /\ versions = <<>> /\ source = "gone" /\ rendition = "gone" /\ \A u \in Users : member[u] = Nobody
  /\ rows \subseteq Requests /\ rendition \in Statuses \cup {"gone"}
  /\ lock # None => At(lock, "locked")

(* A write by someone whose access has ended was under way when it ended:   *)
(* a request sent later changes nothing (src/routes/notebooks.py:80).       *)
WritersHadAccess ==
  [][\A c \in landed' \ landed : req[c].at # "new" => May(req[c].who, req[c].op) \/ c \in ended]_vars

(* A request answered as done took effect, and one answered as refused or   *)
(* failed changed nothing.  Two exceptions are the code's: an edit or a new *)
(* version of a notebook that was deleted meanwhile is answered as done,    *)
(* with nothing (src/routes/notebooks.py:837), and a change whose row was   *)
(* deleted before it was read back is answered as not found, or as an error *)
(* (src/db/notebooks.py:425, 447, 898 and 1359).                            *)
AnswersAreTrue ==
  \A c \in Requests : At(c, "done") =>
    IF req[c].code \in {"200", "201"} THEN c \in landed \/ (c \in ended /\ req[c].op \in {"edit", "clear cover", "version"})
    ELSE c \notin landed \/ c \in bereft

(* Versions get the numbers 1, 2, ... one after the other: none is refused  *)
(* because two requests took the same; and they are in the order of their   *)
(* times unless two were under way at once (src/db/notebooks.py:1118).  *)
VersionsInTurn ==
  /\ \A c \in Requests : At(c, "locked") => req[c].next = Len(versions) + 1
  /\ \A i, j \in DOMAIN versions : i < j /\ versions[i] >= versions[j] => overlap
=============================================================================
