---------------------------- MODULE NotebooksProofs ----------------------------
(***************************************************************************)
(* Theorems about Notebooks, for any users, requests and plans: who writes *)
(* had access, an answer says what happened, and versions are numbered in  *)
(* turn.  And about the parts that read lists: every notification is told  *)
(* once, and pages cover their list.                                       *)
(***************************************************************************)
EXTENDS MCNotebooks, FiniteSetTheorems, WellFoundedInduction, TLAPS

(* Requests ask for the operations of the routes; finitely many, none of   *)
(* which is taken for "no one".                                            *)
Sensible ==
  /\ None \notin Requests /\ IsFiniteSet(Requests)
  /\ None \notin {"404", "403", "400"}
  /\ \A P \in Plans : P \subseteq OwnerOps \cup WriteOps \cup {"batch"}

-----------------------------------------------------------------------------
(* Tables and requests: the owner's membership is the owner's alone, what a *)
(* request carries was looked at, and the one at a version holds the lock.  *)
OwnerRole == [role |-> "owner", active |-> TRUE]
Membership == [role : MemberRoles, active : BOOLEAN] \cup {Nobody}

Tables ==
  /\ alive \in BOOLEAN /\ plan \in Plans
  /\ DOMAIN member = Users
  /\ \A u \in Users \ {Owner} : member[u] \in Membership
  /\ IF alive THEN member[Owner] = OwnerRole ELSE \A u \in Users : member[u] = Nobody

Contents ==
  /\ rows \subseteq Requests /\ rendition \in Statuses \cup {"gone"}
  /\ versions \in Seq(Nat) /\ clock \in Nat
  /\ ~alive => rows = {} /\ versions = <<>> /\ source = "gone" /\ rendition = "gone"

InVersion(c) == At(c, "begun") \/ At(c, "locked")

Asked(c) ==
  /\ At(c, "look") \/ At(c, "checked") =>
       /\ req[c].op \in {"grant", "change"} => req[c].arg \in MemberRoles
       /\ req[c].op = "mark" => req[c].arg \in StatusUpdates
  /\ At(c, "look") => req[c].op \in {"change", "revoke", "version", "rendition"} /\ req[c].of \in Users
  /\ At(c, "checked") /\ req[c].op \in MemberOps => req[c].of \in Users \ {Owner}
  /\ At(c, "wrote") => req[c].op \in {"set cover", "mark", "change", "revoke"}
  /\ InVersion(c) => req[c].op = "version" /\ req[c].now \in 0 .. clock
  /\ At(c, "locked") => lock = c /\ alive /\ req[c].next = Len(versions) + 1

Asking ==
  /\ DOMAIN req = Requests
  /\ lock \in Requests \cup {None} /\ (lock # None => At(lock, "locked"))
  /\ \A c \in Requests : Asked(c)

Base == Tables /\ Contents /\ Asking

LEMMA BaseInit == Sensible /\ Init => Base
<1> SUFFICES ASSUME Init PROVE Base
  OBVIOUS
<1>1. Tables
  BY DEF Init, Tables, OwnerRole, Membership, Users, Nobody, MemberRoles
<1>2. Contents
  BY DEF Init, Contents, Statuses
<1>3. Asking
  <2>1. lock = None /\ DOMAIN req = Requests /\ \A c \in Requests : req[c].at = "new"
    BY DEF Init
  <2> QED BY <2>1 DEF Asking, Asked, InVersion, At
<1> QED
  BY <1>1, <1>2, <1>3 DEF Base

LEMMA BaseImplies == Base => TypeOK
<1> SUFFICES ASSUME Base PROVE TypeOK
  OBVIOUS
<1> USE DEF Base, Tables, Contents, Asking, OwnerRole, Membership, Nobody
<1>1. \A u \in Users : member[u] \in [role : MemberRoles, active : BOOLEAN] \cup {Nobody, [role |-> "owner", active |-> TRUE]}
  BY DEF Users
<1> QED
  BY <1>1 DEF TypeOK

-----------------------------------------------------------------------------
(* What a request that passed its check may do. *)
LEMMA CheckedMay ==
  ASSUME Base, NEW u \in Users, NEW op \in OwnerOps \cup WriteOps, NEW of \in Users,
         Sensible, Refusal(u, op, of) = None
  PROVE  May(u, op) /\ (op = "grant" => of # Owner)
<1> USE DEF Base, Tables, Sensible
<1>1. Role(u) # "none"
  BY DEF Refusal
<1>2. op \in OwnerOps => Role(u) = "owner"
  BY <1>1 DEF Refusal
<1>3. op \in WriteOps => Role(u) \in {"owner", "editor"}
  BY <1>1, <1>2 DEF Refusal
<1>4. alive
  BY <1>1 DEF Role
<1>5. u # Owner => member[u] \in Membership
  OBVIOUS
<1>6. May(u, op)
  <2>1. CASE u = Owner
    BY <1>4, <2>1 DEF May
  <2>2. CASE u # Owner
    <3>1. Role(u) = member[u].role /\ member[u].active
      BY <1>1, <1>4, <2>2 DEF Role
    <3>2. member[u] \in [role : MemberRoles, active : BOOLEAN]
      BY <1>5, <2>2, <3>1 DEF Membership, Nobody
    <3>3. op \in WriteOps /\ member[u].role = "editor"
      BY <1>2, <1>3, <3>1, <3>2 DEF MemberRoles
    <3>4. member[u] = [role |-> "editor", active |-> TRUE]
      BY <3>1, <3>2, <3>3
    <3> QED BY <1>4, <3>3, <3>4 DEF May
  <2> QED BY <2>1, <2>2
<1>7. op = "grant" => of # Owner
  <2> SUFFICES ASSUME op = "grant", of = Owner PROVE FALSE
    OBVIOUS
  <2>1. op \in OwnerOps /\ op \notin WriteOps /\ Role(u) = "owner"
    BY <1>2 DEF OwnerOps, MemberOps, CoverOps, WriteOps, SourceOps, ArtifactOps, RenditionOps
  <2>2. Refusal(u, op, of) = "400"
    BY <2>1 DEF Refusal
  <2> QED BY <2>2
<1> QED
  BY <1>6, <1>7

(* A refusal is one of the codes. *)
LEMMA RefusalCodes ==
  ASSUME NEW u, NEW op, NEW of
  PROVE  Refusal(u, op, of) \in {"404", "403", "400", None}
  BY DEF Refusal

-----------------------------------------------------------------------------
(* What a step of one request does to the requests, the answers and the     *)
(* versions, whatever operation it is.                                      *)
Told(c) ==
  IF At(c, "wrote")
  THEN /\ landed' = landed /\ At(c, "done")'
       /\ req'[c].code \in {"200", "201"} <=> StillThere(c)
  ELSE IF At(c, "wrote")'
  THEN \/ c \in landed' /\ StillThere(c)'
       \/ landed' = landed /\ req'[c].op = "set cover" /\ ~alive'
  ELSE IF At(c, "done")'
  THEN IF req'[c].code \in {"200", "201"}
       THEN c \in landed' \/ (InProgress(c) /\ ~alive /\ req'[c].op \in {"edit", "clear cover", "version"})
       ELSE landed' = landed
  ELSE landed' = landed

Versioned(c) ==
  /\ \/ versions' = versions
     \/ versions' = <<>>
     \/ At(c, "locked") /\ At(c, "done")' /\ versions' = Append(versions, req[c].now)
  /\ clock' = clock \/ clock' = clock + 1
  /\ InVersion(c)' => \/ InVersion(c) /\ req'[c].now = req[c].now
                      \/ req'[c].now = clock + 1 /\ clock' = clock + 1 /\ versions' = versions

Shape(c) ==
  /\ \A d \in Requests \ {c} : req'[d] = req[d]
  /\ landed' = landed \/ landed' = landed \cup {c}
  /\ ~At(c, "done") /\ ~At(c, "new")'
  /\ InProgress(c) => req'[c].who = req[c].who /\ req'[c].op = req[c].op
  /\ At(c, "new") => (InProgress(c) => May(req[c].who, req[c].op))'
  /\ Told(c) /\ Versioned(c)

LEMMA AskingStep ==
  ASSUME Base, NEW c \in Requests, NEW r, req' = [req EXCEPT ![c] = r],
         clock' = clock \/ clock' = clock + 1, Asked(c)',
         \A d \in Requests \ {c} : At(d, "locked") => alive' = alive /\ versions' = versions /\ lock' = lock,
         lock' \in Requests \cup {None},
         lock' # None => IF lock' = c THEN r.at = "locked" ELSE lock' = lock
  PROVE  Asking' /\ req'[c] = r /\ \A d \in Requests \ {c} : req'[d] = req[d]
<1> USE DEF Base, Asking
<1>1. DOMAIN req' = Requests /\ req'[c] = r /\ \A d \in Requests \ {c} : req'[d] = req[d]
  OBVIOUS
<1>2. ASSUME NEW d \in Requests \ {c} PROVE Asked(d)'
  <2>1. Asked(d) /\ req'[d] = req[d]
    BY <1>1
  <2>2. /\ At(d, "look") \/ At(d, "checked") =>
             /\ req[d].op \in {"grant", "change"} => req[d].arg \in MemberRoles
             /\ req[d].op = "mark" => req[d].arg \in StatusUpdates
        /\ At(d, "look") => req[d].op \in {"change", "revoke", "version", "rendition"} /\ req[d].of \in Users
        /\ At(d, "checked") /\ req[d].op \in MemberOps => req[d].of \in Users \ {Owner}
        /\ At(d, "wrote") => req[d].op \in {"set cover", "mark", "change", "revoke"}
    BY <2>1 DEF Asked
  <2>3. (At(d, "locked") => lock = d /\ alive /\ req[d].next = Len(versions) + 1)'
    BY <2>1 DEF Asked, At
  <2>4. (InVersion(d) => req[d].op = "version" /\ req[d].now \in 0 .. clock)'
    <3>1. clock \in Nat
      BY DEF Contents
    <3>2. InVersion(d) => req[d].op = "version" /\ req[d].now \in 0 .. clock
      BY <2>1 DEF Asked
    <3> QED BY <2>1, <3>1, <3>2 DEF InVersion, At
  <2> QED BY <2>1, <2>2, <2>3, <2>4 DEF Asked, At
<1>3. (lock # None => At(lock, "locked"))'
  BY <1>1 DEF At
<1> QED
  BY <1>1, <1>2, <1>3

-----------------------------------------------------------------------------
(* Steps that answer a request without a lock. *)
LEMMA AnswerStep ==
  ASSUME Base, NEW c \in Requests, NEW code, Answer(c, code), At(c, "checked") \/ At(c, "seen") \/ At(c, "look"),
         UNCHANGED <<alive, versions, lock, clock>>,
         landed' = landed \/ landed' = landed \cup {c},
         IF code \in {"200", "201"}
         THEN c \in landed' \/ (~alive /\ req[c].op \in {"edit", "clear cover", "version"})
         ELSE landed' = landed
  PROVE  Asking' /\ Shape(c)
<1> DEFINE r == [at |-> "done", who |-> req[c].who, op |-> req[c].op, code |-> code]
<1>1. req' = [req EXCEPT ![c] = r] /\ r.at = "done" /\ r.who = req[c].who /\ r.op = req[c].op /\ r.code = code
  BY DEF Answer
<1> HIDE DEF r
<1>2. req'[c] = r
  BY <1>1 DEF Base, Asking
<1>3. Asked(c)'
  BY <1>1, <1>2 DEF Asked, At, InVersion
<1>4. lock' # None => IF lock' = c THEN r.at = "locked" ELSE lock' = lock
  BY DEF Base, Asking, At
<1>5. clock \in Nat /\ clock' = clock /\ lock' \in Requests \cup {None}
  <2>1. clock \in Nat /\ clock' = clock
    BY DEF Base, Contents
  <2>2. lock' \in Requests \cup {None}
    BY DEF Base, Asking
  <2> QED BY <2>1, <2>2
<1>8. Asking' /\ \A d \in Requests \ {c} : req'[d] = req[d]
  BY <1>1, <1>3, <1>4, <1>5, AskingStep
<1>6. Told(c)
  BY <1>1, <1>2 DEF Told, At, InProgress
<1>7. Versioned(c)
  BY <1>1, <1>2, <1>5 DEF Versioned, At, InVersion
<1> QED
  BY <1>1, <1>2, <1>8, <1>6, <1>7 DEF Shape, At, InProgress

(* Steps that commit a change and go on to read it back. *)
LEMMA WroteStep ==
  ASSUME Base, NEW c \in Requests, ReadingBack(c), At(c, "checked"),
         req[c].op \in {"set cover", "mark", "change", "revoke"},
         UNCHANGED <<versions, lock, clock>>, alive' = alive,
         \/ landed' = landed \cup {c} /\ (req[c].op = "set cover" => alive)
            /\ (req[c].op = "mark" => rendition' # "gone")
            /\ (req[c].op \in {"change", "revoke"} => member'[req[c].of].role # "none")
         \/ landed' = landed /\ req[c].op = "set cover" /\ ~alive
  PROVE  Asking' /\ Shape(c)
<1> DEFINE r == [at |-> "wrote", who |-> req[c].who, op |-> req[c].op, of |-> req[c].of]
<1>1. req' = [req EXCEPT ![c] = r] /\ r.at = "wrote" /\ r.who = req[c].who /\ r.op = req[c].op /\ r.of = req[c].of
  BY DEF ReadingBack
<1> HIDE DEF r
<1>2. req'[c] = r
  BY <1>1 DEF Base, Asking
<1>3. Asked(c)'
  BY <1>1, <1>2 DEF Asked, At, InVersion
<1>4. lock' \in Requests \cup {None} /\ (lock' # None => IF lock' = c THEN r.at = "locked" ELSE lock' = lock)
  BY DEF Base, Asking, At
<1>5. Asking' /\ \A d \in Requests \ {c} : req'[d] = req[d]
  BY <1>1, <1>3, <1>4, AskingStep
<1>6. Told(c)
  BY <1>1, <1>2 DEF Told, At, StillThere
<1>7. Versioned(c)
  BY <1>1, <1>2 DEF Versioned, At, InVersion
<1> QED
  BY <1>1, <1>2, <1>5, <1>6, <1>7 DEF Shape, At, InProgress

LEMMA RereadStep ==
  ASSUME Base, UNCHANGED plan, NEW c \in Requests, Reread(c)
  PROVE  Base' /\ Shape(c)
<1>1. /\ UNCHANGED <<alive, member, rows, source, rendition, versions, lock, clock, landed>> /\ At(c, "wrote")
  BY DEF Reread
<1>2. PICK code \in {"200", "201", "404", "500"} :
        Answer(c, code) /\ (code \in {"200", "201"} <=> StillThere(c))
  BY DEF Reread
<1> DEFINE r == [at |-> "done", who |-> req[c].who, op |-> req[c].op, code |-> code]
<1>3. req' = [req EXCEPT ![c] = r] /\ r.at = "done" /\ r.who = req[c].who /\ r.op = req[c].op /\ r.code = code
  BY <1>2 DEF Answer
<1> HIDE DEF r
<1>4. req'[c] = r
  BY <1>3 DEF Base, Asking
<1>5. Asked(c)'
  BY <1>3, <1>4 DEF Asked, At, InVersion
<1>6. lock' \in Requests \cup {None} /\ (lock' # None => IF lock' = c THEN r.at = "locked" ELSE lock' = lock)
  BY <1>1 DEF Base, Asking, At
<1>7. Asking' /\ \A d \in Requests \ {c} : req'[d] = req[d]
  BY <1>1, <1>3, <1>5, <1>6, AskingStep
<1>8. Tables' /\ Contents'
  BY <1>1 DEF Base, Tables, Contents
<1>9. Told(c) /\ Versioned(c)
  BY <1>1, <1>2, <1>3, <1>4 DEF Told, Versioned, At, InVersion
<1> QED
  BY <1>1, <1>3, <1>4, <1>7, <1>8, <1>9 DEF Shape, At, InProgress, Base

LEMMA InsertStep ==
  ASSUME Base, UNCHANGED plan, NEW c \in Requests, NEW op, NEW refused, refused \in {"400", "500"},
         Insert(c, op, refused)
  PROVE  Base' /\ Shape(c)
<1>1. Asking' /\ Shape(c)
  BY AnswerStep DEF Insert
<1>2. Tables' /\ Contents'
  BY DEF Insert, Base, Tables, Contents
<1> QED BY <1>1, <1>2 DEF Base

LEMMA RewriteStep ==
  ASSUME Base, UNCHANGED plan, NEW c \in Requests, NEW op \in {"edit", "set cover", "clear cover"}, Rewrite(c, op)
  PROVE  Base' /\ Shape(c)
<1>1. Asking' /\ Shape(c)
  <2>1. CASE op = "set cover" /\ alive
    BY <2>1, WroteStep DEF Rewrite
  <2>2. CASE op = "set cover" /\ ~alive
    BY <2>2, WroteStep DEF Rewrite
  <2>3. CASE op # "set cover" /\ alive
    BY <2>3, AnswerStep DEF Rewrite
  <2>4. CASE op # "set cover" /\ ~alive
    BY <2>4, AnswerStep DEF Rewrite
  <2> QED BY <2>1, <2>2, <2>3, <2>4 DEF Base, Tables
<1>2. Tables' /\ Contents'
  BY DEF Rewrite, Base, Tables, Contents
<1> QED BY <1>1, <1>2 DEF Base

LEMMA MarkStep ==
  ASSUME Base, UNCHANGED plan, NEW c \in Requests, Mark(c)
  PROVE  Base' /\ Shape(c)
<1>1. Asking' /\ Shape(c)
  <2>1. CASE rendition \in StatusUpdates
    <3>1. req[c].arg # "gone"
      BY DEF Mark, Base, Asking, Asked, StatusUpdates, Statuses
    <3> QED BY <2>1, <3>1, WroteStep DEF Mark
  <2>2. CASE rendition \notin StatusUpdates
    BY <2>2, AnswerStep DEF Mark
  <2> QED BY <2>1, <2>2
<1>2. Tables' /\ Contents'
  BY DEF Mark, Base, Tables, Contents, Asking, Asked, Statuses, StatusUpdates
<1> QED BY <1>1, <1>2 DEF Base

LEMMA DeletedRowStep ==
  ASSUME Base, UNCHANGED plan, NEW c \in Requests, DeleteSource(c) \/ DeleteRendition(c)
  PROVE  Base' /\ Shape(c)
<1>1. CASE DeleteSource(c)
  <2>1. Asking' /\ Shape(c)
    BY <1>1, AnswerStep DEF DeleteSource
  <2>2. Tables' /\ Contents'
    BY <1>1 DEF DeleteSource, Base, Tables, Contents
  <2> QED BY <2>1, <2>2 DEF Base
<1>2. CASE DeleteRendition(c)
  <2>1. Asking' /\ Shape(c)
    BY <1>2, AnswerStep DEF DeleteRendition, Effect
  <2>2. Tables' /\ Contents'
    BY <1>2 DEF DeleteRendition, Base, Tables, Contents
  <2> QED BY <2>1, <2>2 DEF Base
<1> QED BY <1>1, <1>2

(* Memberships change only while there is a notebook, and never the owner's. *)
LEMMA MemberStep ==
  ASSUME Base, UNCHANGED plan, NEW c \in Requests, Grant(c) \/ Change(c) \/ Revoke(c)
  PROVE  Base' /\ Shape(c)
<1> DEFINE of == req[c].of
<1>1. of \in Users \ {Owner} /\ (req[c].op # "revoke" => req[c].arg \in MemberRoles)
  BY DEF Base, Asking, Asked, Grant, Change, Revoke, MemberOps
<1>4. ~alive => ~member[of].active
  BY <1>1 DEF Base, Tables, Nobody
<1>8. member[of].active => member[of] \in [role : MemberRoles, active : BOOLEAN]
  BY <1>1, <1>4 DEF Base, Tables, Membership, Nobody
<1>2. Asking' /\ Shape(c)
  <2>1. CASE Grant(c)  BY <2>1, AnswerStep DEF Grant
  <2>2. CASE Change(c)
    <3>1. CASE member[of].active
      <4>1. member'[of].role = req[c].arg /\ req[c].arg \in MemberRoles
        BY <1>1, <2>2, <3>1 DEF Change, Base, Tables
      <4>2. member'[of].role # "none"
        BY <4>1 DEF MemberRoles
      <4> QED BY <2>2, <3>1, <4>2, WroteStep DEF Change
    <3>2. CASE ~member[of].active
      BY <2>2, <3>2, AnswerStep DEF Change
    <3> QED BY <3>1, <3>2
  <2>3. CASE Revoke(c)
    <3>1. CASE member[of].active
      <4>1. member'[of].role = member[of].role /\ member[of].role \in MemberRoles
        BY <1>1, <1>8, <2>3, <3>1 DEF Revoke, Base, Tables
      <4>2. member'[of].role # "none"
        BY <4>1 DEF MemberRoles
      <4> QED BY <2>3, <3>1, <4>2, WroteStep DEF Revoke
    <3>2. CASE ~member[of].active
      BY <2>3, <3>2, AnswerStep DEF Revoke
    <3> QED BY <3>1, <3>2
  <2> QED BY <2>1, <2>2, <2>3
<1>3. Contents'
  BY DEF Grant, Change, Revoke, Base, Contents
<1>5. member' = member \/ (alive /\ \E m \in Membership : member' = [member EXCEPT ![of] = m])
  <2>1. CASE Grant(c)
    BY <1>1, <2>1 DEF Grant, Membership
  <2>2. CASE Change(c)
    BY <1>1, <1>4, <2>2 DEF Change, Membership
  <2>3. CASE Revoke(c)
    BY <1>4, <1>8, <2>3 DEF Revoke, Membership
  <2> QED BY <2>1, <2>2, <2>3
<1>6. alive' = alive
  BY DEF Grant, Change, Revoke
<1>7. Tables'
  BY <1>1, <1>5, <1>6 DEF Base, Tables, Users
<1> QED BY <1>2, <1>3, <1>7 DEF Base

-----------------------------------------------------------------------------
(* Steps that look, and go on or refuse. *)
LEMMA SeeStep ==
  ASSUME Base, UNCHANGED plan, NEW c \in Requests, SeeSource(c) \/ SeeRendition(c)
  PROVE  Base' /\ Shape(c)
<1>1. PICK op \in {"remove source", "remove rendition"}, there \in BOOLEAN : SeeRow(c, op, there)
  BY DEF SeeSource, SeeRendition
<1>2. CASE ~there
  <2>1. Asking' /\ Shape(c)
    BY <1>1, <1>2, AnswerStep DEF SeeRow
  <2>2. Tables' /\ Contents'
    BY <1>1 DEF SeeRow, Base, Tables, Contents
  <2> QED BY <2>1, <2>2 DEF Base
<1>3. CASE there
  <2> DEFINE r == [at |-> "seen", who |-> req[c].who, op |-> req[c].op]
  <2>1. req' = [req EXCEPT ![c] = r] /\ r.at = "seen" /\ r.who = req[c].who /\ r.op = req[c].op
    BY <1>1, <1>3 DEF SeeRow
  <2> HIDE DEF r
  <2>2. UNCHANGED <<alive, versions, lock, clock, landed>> /\ At(c, "checked")
    BY <1>1 DEF SeeRow
  <2>3. req'[c] = r
    BY <2>1 DEF Base, Asking
  <2>4. Asked(c)'
    BY <2>1, <2>3 DEF Asked, At, InVersion
  <2>5. lock' \in Requests \cup {None} /\ (lock' # None => IF lock' = c THEN r.at = "locked" ELSE lock' = lock)
    BY <2>2 DEF Base, Asking, At
  <2>6. Asking' /\ \A d \in Requests \ {c} : req'[d] = req[d]
    BY <2>1, <2>2, <2>4, <2>5, AskingStep
  <2>7. Tables' /\ Contents'
    BY <1>1 DEF SeeRow, Base, Tables, Contents
  <2>8. Told(c) /\ Versioned(c)
    BY <2>1, <2>2, <2>3 DEF Told, Versioned, At, InVersion
  <2> QED
    BY <2>1, <2>2, <2>3, <2>6, <2>7, <2>8 DEF Shape, At, InProgress, Base
<1> QED BY <1>1, <1>2, <1>3

LEMMA LookStep ==
  ASSUME Base, UNCHANGED plan, Sensible, NEW c \in Requests, Look(c)
  PROVE  Base' /\ Shape(c)
<1>1. UNCHANGED <<alive, member, rows, source, rendition, versions, lock, clock, landed>> /\ At(c, "look")
  BY DEF Look
<1>2. Tables' /\ Contents'
  BY <1>1 DEF Base, Tables, Contents
<1>3. CASE \E no \in {"404", "400"} : Answer(c, no)
  <2>1. Asking' /\ Shape(c)
    BY <1>1, <1>3, AnswerStep
  <2> QED BY <1>2, <2>1 DEF Base
<1> DEFINE r == [at |-> "checked", who |-> req[c].who, op |-> req[c].op, of |-> req[c].of, arg |-> req[c].arg]
<1>4. CASE req' = [req EXCEPT ![c] = r] /\ (req[c].op \in MemberOps => req[c].of # Owner)
  <2>1. req' = [req EXCEPT ![c] = r] /\ r.at = "checked" /\ r.who = req[c].who /\ r.op = req[c].op
        /\ r.of = req[c].of /\ r.arg = req[c].arg
    BY <1>4
  <2> HIDE DEF r
  <2>2. req'[c] = r
    BY <2>1 DEF Base, Asking
  <2>3. Asked(c)'
    <3>1. Asked(c) /\ At(c, "look")
      BY <1>1 DEF Base, Asking
    <3> QED BY <1>4, <2>1, <2>2, <3>1 DEF Asked, At, InVersion
  <2>4. lock' \in Requests \cup {None} /\ (lock' # None => IF lock' = c THEN r.at = "locked" ELSE lock' = lock)
    BY <1>1 DEF Base, Asking, At
  <2>5. Asking' /\ \A d \in Requests \ {c} : req'[d] = req[d]
    BY <1>1, <2>1, <2>3, <2>4, AskingStep
  <2>6. Told(c) /\ Versioned(c)
    BY <1>1, <2>1, <2>2 DEF Told, Versioned, At, InVersion
  <2> QED
    BY <1>1, <1>2, <2>1, <2>2, <2>5, <2>6 DEF Shape, At, InProgress, Base
<1> HIDE DEF r
<1>5. \/ \E no \in {"404", "400"} : Answer(c, no)
      \/ req' = [req EXCEPT ![c] = r] /\ (req[c].op \in MemberOps => req[c].of # Owner)
  <2>1. None \notin {"404", "400"}
    BY DEF Sensible
  <2>2. CASE Missing(req[c].op, req[c].of)
    BY <2>1, <2>2 DEF Look
  <2>3. CASE ~Missing(req[c].op, req[c].of) /\ req[c].op \in MemberOps /\ member[req[c].of].role = "owner"
    BY <2>1, <2>3 DEF Look
  <2>4. CASE ~Missing(req[c].op, req[c].of) /\ ~(req[c].op \in MemberOps /\ member[req[c].of].role = "owner")
    <3>1. req' = [req EXCEPT ![c] = r]
      BY <2>1, <2>4 DEF Look, r
    <3>2. ASSUME req[c].op \in MemberOps, req[c].of = Owner PROVE FALSE
      <4>1. member[Owner].role \in {"owner", "none"}
        BY DEF Base, Tables, OwnerRole, Nobody, Users
      <4> QED BY <2>4, <3>2, <4>1 DEF Missing
    <3> QED BY <3>1, <3>2
  <2> QED BY <2>2, <2>3, <2>4
<1> QED
  BY <1>3, <1>4, <1>5

LEMMA CheckStep ==
  ASSUME Base, UNCHANGED plan, Sensible, NEW c \in Requests, NEW u \in Users, NEW op \in plan \ {"batch"},
         NEW a \in Args(op), Check(c, u, op, a[1], a[2])
  PROVE  Base' /\ Shape(c)
<1> DEFINE no == Refusal(u, op, a[1])
           p  == IF op \in LookingOps THEN "look" ELSE "checked"
           r  == IF no = None THEN [at |-> p, who |-> u, op |-> op, of |-> a[1], arg |-> a[2]]
                 ELSE [at |-> "done", who |-> u, op |-> op, code |-> no]
<1>1. op \in OwnerOps \cup WriteOps
  BY DEF Base, Tables, Sensible
<1>2. a[1] \in Users /\ (op \in {"grant", "change"} => a[2] \in MemberRoles) /\ (op = "mark" => a[2] \in StatusUpdates)
  BY DEF Args, Users
<1>3. UNCHANGED <<alive, member, rows, source, rendition, versions, lock, clock, landed>> /\ At(c, "new")
  BY DEF Check
<1>4. req' = [req EXCEPT ![c] = r] /\ req'[c] = r
  BY DEF Check, Base, Asking
<1>5. no = None => May(u, op) /\ (op = "grant" => a[1] # Owner)
  BY <1>1, <1>2, CheckedMay
<1>6. no \in {"404", "403", "400", None}
  BY RefusalCodes
<1>7. IF no = None THEN r.at = p /\ r.who = u /\ r.op = op /\ r.of = a[1] /\ r.arg = a[2]
      ELSE r.at = "done" /\ r.who = u /\ r.op = op /\ r.code = no
  OBVIOUS
<1>16. /\ p = "look" \/ p = "checked"
       /\ p = "look" => op \in {"change", "revoke", "version", "rendition"}
       /\ p = "checked" /\ op \in MemberOps => op = "grant"
  BY DEF LookingOps, MemberOps
<1> HIDE DEF no, r, p
<1>8. Asked(c)'
  BY <1>2, <1>4, <1>5, <1>7, <1>16 DEF Asked, At, InVersion
<1>9. lock' \in Requests \cup {None} /\ (lock' # None => IF lock' = c THEN r.at = "locked" ELSE lock' = lock)
  BY <1>3 DEF Base, Asking, At
<1>10. Asking' /\ \A d \in Requests \ {c} : req'[d] = req[d]
  BY <1>3, <1>4, <1>8, <1>9, AskingStep
<1>11. Tables' /\ Contents'
  BY <1>3 DEF Base, Tables, Contents
<1>12. Told(c)
  BY <1>3, <1>4, <1>6, <1>7, <1>16 DEF Told, At
<1>13. Versioned(c)
  BY <1>3, <1>4, <1>7, <1>16 DEF Versioned, At, InVersion
<1>14. ~At(c, "done") /\ ~At(c, "new")' /\ ~InProgress(c)
  BY <1>3, <1>4, <1>7, <1>16 DEF At, InProgress
<1>15. (InProgress(c) => May(req[c].who, req[c].op))'
  <2>1. CASE no = None
    <3>1. May(u, op)'
      BY <1>3, <1>5, <2>1 DEF May
    <3> QED BY <1>4, <1>7, <2>1, <3>1 DEF May
  <2>2. CASE no # None
    BY <1>4, <1>7, <2>2 DEF InProgress, At
  <2> QED BY <2>1, <2>2
<1> QED
  BY <1>3, <1>10, <1>11, <1>12, <1>13, <1>14, <1>15 DEF Shape, Base

LEMMA BatchStep ==
  ASSUME Base, UNCHANGED plan, NEW c \in Requests, NEW u \in Users, NEW assign \in Assignments, Batch(c, u, assign)
  PROVE  Base' /\ Shape(c)
<1> DEFINE no == BatchRefused(u, assign)
           r  == [at |-> "done", who |-> u, op |-> "batch", code |-> IF no THEN "400" ELSE "200"]
<1>1. UNCHANGED <<alive, rows, source, rendition, versions, lock, clock>> /\ At(c, "new")
  BY DEF Batch
<1>2. req' = [req EXCEPT ![c] = r] /\ req'[c] = r
  BY DEF Batch, Base, Asking
<1>3. r.at = "done" /\ r.code = IF no THEN "400" ELSE "200"
  OBVIOUS
<1>4. landed' = IF no THEN landed ELSE landed \cup {c}
  BY DEF Batch
<1>5. member' = IF no THEN member ELSE [v \in Users |-> Assigned(assign, v)]
  BY DEF Batch
<1>6. ~no => alive /\ \A v \in DOMAIN assign \ {Owner} : assign[v] \in {"editor", "viewer", "remove"}
  BY DEF BatchRefused, Assignments
<1> HIDE DEF no, r
<1>7. Tables'
  <2>1. CASE no
    BY <1>1, <1>5, <2>1 DEF Base, Tables
  <2>2. CASE ~no
    <3>1. \A v \in Users \ {Owner} : Assigned(assign, v) \in Membership
      <4> TAKE v \in Users \ {Owner}
      <4>1. member[v] \in Membership
        BY DEF Base, Tables
      <4>2. CASE v \notin DOMAIN assign
        BY <4>1, <4>2 DEF Assigned
      <4>3. CASE v \in DOMAIN assign /\ assign[v] # "remove"
        BY <1>6, <2>2, <4>3 DEF Assigned, Membership, MemberRoles
      <4>4. CASE v \in DOMAIN assign /\ assign[v] = "remove"
        <5>1. Assigned(assign, v) = [role |-> member[v].role, active |-> FALSE]
          BY <4>4 DEF Assigned
        <5>2. CASE member[v] = Nobody
          BY <5>1, <5>2 DEF Membership, Nobody
        <5>3. CASE member[v] \in [role : MemberRoles, active : BOOLEAN]
          BY <5>1, <5>3 DEF Membership
        <5> QED BY <4>1, <5>2, <5>3 DEF Membership
      <4> QED BY <4>2, <4>3, <4>4
    <3>2. Assigned(assign, Owner) = member[Owner]
      BY DEF Assigned
    <3> QED BY <1>1, <1>5, <1>6, <2>2, <3>1, <3>2 DEF Base, Tables, Users
  <2> QED BY <2>1, <2>2
<1>8. Contents'
  BY <1>1 DEF Base, Contents
<1>9. Asked(c)'
  BY <1>2, <1>3 DEF Asked, At, InVersion
<1>10. lock' \in Requests \cup {None} /\ (lock' # None => IF lock' = c THEN r.at = "locked" ELSE lock' = lock)
  BY <1>1 DEF Base, Asking, At
<1>11. Asking' /\ \A d \in Requests \ {c} : req'[d] = req[d]
  BY <1>1, <1>2, <1>9, <1>10, AskingStep
<1>12. Told(c)
  BY <1>1, <1>2, <1>3, <1>4 DEF Told, At
<1>13. Versioned(c)
  BY <1>1, <1>2, <1>3 DEF Versioned, At, InVersion
<1> QED
  BY <1>1, <1>2, <1>3, <1>4, <1>7, <1>8, <1>11, <1>12, <1>13 DEF Shape, Base, At, InProgress

-----------------------------------------------------------------------------
(* The end of the notebook: nobody holds the artifact's row then. *)
LEMMA DeleteStep ==
  ASSUME Base, UNCHANGED plan, Sensible, NEW c \in Requests, Delete(c)
  PROVE  Base' /\ Shape(c)
<1> DEFINE r == [at |-> "done", who |-> req[c].who, op |-> req[c].op, code |-> "200"]
<1>1. /\ lock = None /\ lock' = lock /\ clock' = clock /\ landed' = landed \cup {c} /\ versions' = <<>>
      /\ At(c, "checked")
  BY DEF Delete, Effect
<1>2. req' = [req EXCEPT ![c] = r] /\ req'[c] = r
  BY DEF Delete, Answer, Base, Asking
<1>3. r.at = "done" /\ r.code = "200" /\ r.who = req[c].who /\ r.op = req[c].op
  OBVIOUS
<1> HIDE DEF r
<1>4. Tables'
  BY DEF Delete, Base, Tables, Membership, Users
<1>5. Contents'
  BY DEF Delete, Base, Contents
<1>6. Asked(c)'
  BY <1>2, <1>3 DEF Asked, At, InVersion
<1>7. \A d \in Requests : ~At(d, "locked")
  BY <1>1 DEF Base, Asking, Asked, Sensible
<1>8. Asking' /\ \A d \in Requests \ {c} : req'[d] = req[d]
  BY <1>1, <1>2, <1>6, <1>7, AskingStep
<1>9. Told(c) /\ Versioned(c)
  BY <1>1, <1>2, <1>3 DEF Told, Versioned, At, InVersion
<1> QED
  BY <1>1, <1>2, <1>3, <1>4, <1>5, <1>8, <1>9 DEF Shape, Base, At, InProgress

-----------------------------------------------------------------------------
(* The steps of a new version. *)
LEMMA BeginStep ==
  ASSUME Base, UNCHANGED plan, NEW c \in Requests, BeginVersion(c)
  PROVE  Base' /\ Shape(c)
<1> DEFINE r == [at |-> "begun", who |-> req[c].who, op |-> req[c].op, now |-> clock + 1]
<1>1. /\ UNCHANGED <<alive, member, rows, source, rendition, versions, lock, landed>>
      /\ clock' = clock + 1 /\ At(c, "checked") /\ req[c].op = "version"
  BY DEF BeginVersion
<1>2. req' = [req EXCEPT ![c] = r] /\ req'[c] = r
  BY DEF BeginVersion, Base, Asking
<1>3. r.at = "begun" /\ r.who = req[c].who /\ r.op = req[c].op /\ r.now = clock + 1
  OBVIOUS
<1> HIDE DEF r
<1>4. Tables' /\ Contents'
  BY <1>1 DEF Base, Tables, Contents
<1>5. Asked(c)'
  <2>1. clock \in Nat
    BY DEF Base, Contents
  <2>2. r.now \in 0 .. clock'
    BY <1>1, <1>3, <2>1
  <2> QED BY <1>1, <1>2, <1>3, <2>2 DEF Asked, At, InVersion
<1>6. lock' \in Requests \cup {None} /\ (lock' # None => IF lock' = c THEN r.at = "locked" ELSE lock' = lock)
  BY <1>1 DEF Base, Asking, At
<1>7. Asking' /\ \A d \in Requests \ {c} : req'[d] = req[d]
  BY <1>1, <1>2, <1>5, <1>6, AskingStep
<1>8. Told(c) /\ Versioned(c)
  BY <1>1, <1>2, <1>3 DEF Told, Versioned, At, InVersion
<1> QED
  BY <1>1, <1>2, <1>3, <1>4, <1>7, <1>8 DEF Shape, Base, At, InProgress

LEMMA LockStep ==
  ASSUME Base, UNCHANGED plan, Sensible, NEW c \in Requests, LockVersion(c)
  PROVE  Base' /\ Shape(c)
<1> DEFINE r == IF alive
                THEN [at |-> "locked", who |-> req[c].who, op |-> req[c].op, now |-> req[c].now, next |-> Len(versions) + 1]
                ELSE [at |-> "done", who |-> req[c].who, op |-> req[c].op, code |-> "201"]
<1>1. /\ UNCHANGED <<alive, member, rows, source, rendition, versions, clock, landed>>
      /\ At(c, "begun") /\ lock = None /\ lock' = IF alive THEN c ELSE lock
  BY DEF LockVersion
<1>2. req' = [req EXCEPT ![c] = r]
  BY DEF LockVersion, Answer
<1>3. req'[c] = r
  BY <1>2 DEF Base, Asking
<1>4. /\ r.who = req[c].who /\ r.op = req[c].op
      /\ IF alive THEN r.at = "locked" /\ r.now = req[c].now /\ r.next = Len(versions) + 1
         ELSE r.at = "done" /\ r.code = "201"
  OBVIOUS
<1> HIDE DEF r
<1>5. req[c].op = "version" /\ req[c].now \in 0 .. clock
  BY <1>1 DEF Base, Asking, Asked, InVersion
<1>6. Tables' /\ Contents'
  BY <1>1 DEF Base, Tables, Contents
<1>7. Asked(c)'
  BY <1>1, <1>3, <1>4, <1>5 DEF Asked, At, InVersion
<1>8. \A d \in Requests : ~At(d, "locked")
  BY <1>1 DEF Base, Asking, Asked, Sensible
<1>9. Asking' /\ \A d \in Requests \ {c} : req'[d] = req[d]
  BY <1>1, <1>2, <1>4, <1>7, <1>8, AskingStep
<1>10. Told(c)
  BY <1>1, <1>3, <1>4, <1>5 DEF Told, At, InProgress
<1>11. Versioned(c)
  BY <1>1, <1>3, <1>4 DEF Versioned, At, InVersion
<1> QED
  BY <1>1, <1>3, <1>4, <1>6, <1>9, <1>10, <1>11 DEF Shape, Base, At, InProgress

LEMMA EndVersionStep ==
  ASSUME Base, UNCHANGED plan, Sensible, NEW c \in Requests, CommitVersion(c) \/ Abort(c)
  PROVE  Base' /\ Shape(c)
<1>1. At(c, "locked") /\ lock = c /\ req[c].op = "version" /\ req[c].now \in 0 .. clock /\ alive
  BY DEF CommitVersion, Abort, Base, Asking, Asked, InVersion
<1>2. PICK code \in {"201", "500"} :
        /\ Answer(c, code)
        /\ IF code = "201" THEN versions' = Append(versions, req[c].now) /\ landed' = landed \cup {c}
           ELSE versions' = versions /\ landed' = landed
  BY DEF CommitVersion, Abort
<1> DEFINE r == [at |-> "done", who |-> req[c].who, op |-> req[c].op, code |-> code]
<1>3. UNCHANGED <<alive, member, rows, source, rendition, clock>> /\ lock' = None
  BY DEF CommitVersion, Abort
<1>4. req' = [req EXCEPT ![c] = r] /\ req'[c] = r
  BY <1>2 DEF Answer, Base, Asking
<1>5. r.at = "done" /\ r.code = code /\ r.who = req[c].who /\ r.op = req[c].op
  OBVIOUS
<1> HIDE DEF r
<1>6. Tables'
  BY <1>3 DEF Base, Tables
<1>7. Contents'
  <2>1. req[c].now \in Nat /\ versions \in Seq(Nat)
    BY <1>1 DEF Base, Contents
  <2>2. versions' \in Seq(Nat)
    BY <1>2, <2>1
  <2> QED BY <1>1, <1>3, <2>2 DEF Base, Contents
<1>8. Asked(c)'
  BY <1>4, <1>5 DEF Asked, At, InVersion
<1>9. \A d \in Requests \ {c} : ~At(d, "locked")
  BY <1>1 DEF Base, Asking, Asked
<1>10. Asking' /\ \A d \in Requests \ {c} : req'[d] = req[d]
  BY <1>3, <1>4, <1>8, <1>9, AskingStep
<1>11. Told(c)
  BY <1>1, <1>2, <1>4, <1>5 DEF Told, At
<1>12. Versioned(c)
  BY <1>1, <1>2, <1>3, <1>4, <1>5 DEF Versioned, At, InVersion
<1>13. landed' = landed \/ landed' = landed \cup {c}
  BY <1>2
<1> QED
  BY <1>1, <1>4, <1>5, <1>6, <1>7, <1>10, <1>11, <1>12, <1>13 DEF Shape, Base, At, InProgress

-----------------------------------------------------------------------------
(* Every step is a request's, or changes nothing that requests see. *)
Still == UNCHANGED <<alive, member, versions, req, clock, landed>>

LEMMA CiteStep ==
  ASSUME Base, UNCHANGED plan, Cite PROVE Base' /\ Still
<1>1. UNCHANGED <<alive, member, rows, rendition, versions, lock, req, clock, landed>> /\ (~alive => source' = source)
  BY DEF Cite, Base, Contents
<1> QED
  BY <1>1 DEF Still, Base, Tables, Contents, Asking, Asked, InVersion, At

LEMMA StepShape ==
  ASSUME Base, UNCHANGED plan, Sensible, NEW c \in Requests, Step(c) PROVE Base' /\ Shape(c)
<1>1. CASE CreateSource(c) \/ CreateMemory(c) \/ CreateArtifact(c) \/ CreateRendition(c)
  BY <1>1, InsertStep DEF CreateSource, CreateMemory, CreateArtifact, CreateRendition
<1>2. CASE Update(c) \/ SetCover(c) \/ ClearCover(c)
  BY <1>2, RewriteStep DEF Update, SetCover, ClearCover
<1>3. CASE Delete(c)
  BY <1>3, DeleteStep
<1>4. CASE Grant(c) \/ Change(c) \/ Revoke(c)
  BY <1>4, MemberStep
<1>5. CASE BeginVersion(c)
  BY <1>5, BeginStep
<1>6. CASE LockVersion(c)
  BY <1>6, LockStep
<1>7. CASE CommitVersion(c) \/ Abort(c)
  BY <1>7, EndVersionStep
<1>8. CASE Mark(c)
  BY <1>8, MarkStep
<1>9. CASE SeeSource(c) \/ SeeRendition(c)
  BY <1>9, SeeStep
<1>10. CASE DeleteSource(c) \/ DeleteRendition(c)
  BY <1>10, DeletedRowStep
<1>11. CASE Look(c)
  BY <1>11, LookStep
<1>12. CASE Reread(c)
  BY <1>12, RereadStep
<1> QED
  BY <1>1, <1>2, <1>3, <1>4, <1>5, <1>6, <1>7, <1>8, <1>9, <1>10, <1>11, <1>12 DEF Step

LEMMA NextShape ==
  ASSUME Base, Sensible, Next PROVE Base' /\ (Still \/ \E c \in Requests : Shape(c))
<1>1. CASE \E c \in Requests, u \in Users, op \in plan \ {"batch"} : \E a \in Args(op) : Check(c, u, op, a[1], a[2])
  <2>1. PICK c \in Requests, u \in Users, op \in plan \ {"batch"} : \E a \in Args(op) : Check(c, u, op, a[1], a[2])
    BY <1>1
  <2>2. PICK a \in Args(op) : Check(c, u, op, a[1], a[2])
    BY <2>1
  <2> QED BY <2>2, CheckStep DEF Next
<1>2. CASE \E c \in Requests, u \in Users, assign \in Assignments : Batch(c, u, assign)
  <2>1. PICK c \in Requests, u \in Users, assign \in Assignments : Batch(c, u, assign)
    BY <1>2
  <2> QED BY <2>1, BatchStep DEF Next
<1>3. CASE \E c \in Requests : Step(c)
  BY <1>3, StepShape DEF Next
<1>4. CASE Cite
  BY <1>4, CiteStep DEF Next
<1> QED
  BY <1>1, <1>2, <1>3, <1>4 DEF Next

LEMMA StutterStill ==
  ASSUME Base, UNCHANGED vars PROVE Base' /\ Still /\ ended' = ended /\ overlap' = overlap
  BY DEF vars, Base, Still, Tables, Contents, Asking, Asked, InVersion, At

(* Notebooks' TypeOK, by Base (src/db/notebooks.py:85). *)
THEOREM TypeCorrect == Sensible => (Spec => []TypeOK)
<1> SUFFICES ASSUME Sensible PROVE Spec => []TypeOK
  OBVIOUS
<1>1. Init => Base
  BY BaseInit
<1>2. Base /\ [Next]_vars => Base'
  BY NextShape, StutterStill
<1>3. Base => TypeOK
  BY BaseImplies
<1> QED
  BY <1>1, <1>2, <1>3, PTL DEF Spec

-----------------------------------------------------------------------------
(* A request under way has its access, or was seen to lose it. *)
Access == \A c \in Requests : InProgress(c) => May(req[c].who, req[c].op) \/ c \in ended

AccessInv == Base /\ Access

LEMMA AccessStep ==
  ASSUME AccessInv, Sensible, [Next]_vars PROVE AccessInv'
<1> USE DEF AccessInv
<1>1. CASE UNCHANGED vars
  BY <1>1, StutterStill DEF Still, Access, InProgress, At, May
<1>2. CASE Next
  <2>1. ended' = ended \cup {c \in Requests : InProgress(c) /\ May(req[c].who, req[c].op) /\ ~May(req[c].who, req[c].op)'}
    BY <1>2 DEF Next
  <2>2. Base' /\ (Still \/ \E c \in Requests : Shape(c))
    BY <1>2, NextShape
  <2>3. ASSUME NEW d \in Requests, InProgress(d), req'[d].who = req[d].who, req'[d].op = req[d].op
        PROVE  May(req[d].who, req[d].op)' \/ d \in ended'
    BY <2>1, <2>3 DEF Access
  <2>4. CASE Still
    BY <2>2, <2>3, <2>4 DEF Still, Access, InProgress, At
  <2>5. CASE \E c \in Requests : Shape(c)
    <3>1. PICK c \in Requests : Shape(c)
      BY <2>5
    <3>2. ASSUME NEW d \in Requests, InProgress(d)' PROVE (May(req[d].who, req[d].op) \/ d \in ended)'
      <4>1. CASE InProgress(d)
        BY <2>3, <3>1, <4>1 DEF Shape
      <4>2. CASE ~InProgress(d)
        BY <3>1, <3>2, <4>2 DEF Shape, InProgress, At
      <4> QED BY <4>1, <4>2
    <3> QED BY <2>2, <3>2 DEF Access
  <2> QED BY <2>2, <2>4, <2>5
<1> QED
  BY <1>1, <1>2

(* Who writes had access: the requests under way are all that a revocation *)
(* or a deletion cannot reach (src/routes/notebooks.py:80).                *)
THEOREM WritersMay == Sensible => (Spec => WritersHadAccess)
<1> SUFFICES ASSUME Sensible PROVE Spec => WritersHadAccess
  OBVIOUS
<1>1. Init => AccessInv
  BY BaseInit DEF Init, AccessInv, Access, InProgress, At
<1>2. AccessInv /\ [Next]_vars => AccessInv'
  BY AccessStep
<1>3. AccessInv /\ [Next]_vars =>
        [\A c \in landed' \ landed : req[c].at # "new" => May(req[c].who, req[c].op) \/ c \in ended]_vars
  <2> SUFFICES ASSUME AccessInv, Next, NEW c \in landed' \ landed, req[c].at # "new"
               PROVE  May(req[c].who, req[c].op) \/ c \in ended
    OBVIOUS
  <2>1. c \in Requests /\ ~At(c, "done")
    BY NextShape DEF AccessInv, Still, Shape
  <2> QED BY <2>1 DEF AccessInv, Access, InProgress, At
<1> QED
  BY <1>1, <1>2, <1>3, PTL DEF Spec, WritersHadAccess

-----------------------------------------------------------------------------
(* Before it writes a request has changed nothing; what it wrote is there    *)
(* to be read back, or was seen to be deleted.                              *)
Unanswered == \A c \in Requests : ~At(c, "done") /\ ~At(c, "wrote") => c \notin landed

Written == \A c \in Requests : At(c, "wrote") =>
  /\ c \in landed \/ (req[c].op = "set cover" /\ ~alive)
  /\ c \in landed => StillThere(c) \/ c \in bereft

AnswersInv == AccessInv /\ Unanswered /\ Written /\ AnswersAreTrue

(* A notebook that is gone stays so. *)
LEMMA NoReturn == Next => (alive' => alive)
  BY DEF Next, Check, Batch, Step, Cite, CreateSource, CreateMemory, CreateArtifact, CreateRendition, Insert,
         Update, SetCover, ClearCover, Rewrite, Delete, Grant, Change, Revoke, BeginVersion, LockVersion,
         CommitVersion, Abort, Look, Reread, Mark, SeeSource, SeeRendition, SeeRow, DeleteSource, DeleteRendition

LEMMA AnswersStep ==
  ASSUME AnswersInv, Sensible, [Next]_vars PROVE AnswersInv'
<1> USE DEF AnswersInv
<1>0. AccessInv'
  BY AccessStep
<1>1. CASE UNCHANGED vars
  BY <1>0, <1>1 DEF vars, Unanswered, Written, StillThere, AnswersAreTrue, At
<1>2. CASE Next
  <2>1. ended \subseteq ended' /\ bereft' = bereft \cup {c \in Requests : Rereads(c) /\ Lost(c)'}
        /\ (alive' => alive)
    BY <1>2, NoReturn DEF Next
  <2>2. ASSUME NEW d \in Requests, At(d, "wrote"), req'[d] = req[d], d \in landed' <=> d \in landed
        PROVE  (/\ d \in landed \/ (req[d].op = "set cover" /\ ~alive)
                /\ d \in landed => StillThere(d) \/ d \in bereft)'
    <3>1. /\ d \in landed \/ (req[d].op = "set cover" /\ ~alive)
          /\ d \in landed => StillThere(d) \/ d \in bereft
      BY <2>2 DEF Written
    <3>2. StillThere(d) => StillThere(d)' \/ d \in bereft'
      BY <2>1, <2>2 DEF Rereads, Lost, At
    <3> QED BY <2>1, <2>2, <3>1, <3>2
  <2>3. CASE Still
    <3>1. Unanswered' /\ AnswersAreTrue'
      BY <2>1, <2>3 DEF Still, Unanswered, AnswersAreTrue, At
    <3>2. Written'
      BY <2>2, <2>3 DEF Still, Written, At
    <3> QED BY <1>0, <3>1, <3>2
  <2>4. CASE \E c \in Requests : Shape(c)
    <3>1. PICK c \in Requests : Shape(c)
      BY <2>4
    <3>0. \A d \in Requests \ {c} : req'[d] = req[d] /\ (d \in landed' <=> d \in landed)
      BY <3>1 DEF Shape
    <3>2. ASSUME NEW d \in Requests, ~At(d, "done")', ~At(d, "wrote")' PROVE d \notin landed'
      <4>1. CASE d # c
        BY <3>0, <3>2, <4>1 DEF Unanswered, At
      <4>2. CASE d = c
        <5>1. landed' = landed /\ ~At(c, "done") /\ ~At(c, "wrote")
          BY <3>1, <3>2, <4>2 DEF Shape, Told
        <5> QED BY <4>2, <5>1 DEF Unanswered
      <4> QED BY <4>1, <4>2
    <3>4. ASSUME NEW d \in Requests, At(d, "wrote")'
          PROVE  (/\ d \in landed \/ (req[d].op = "set cover" /\ ~alive)
                  /\ d \in landed => StillThere(d) \/ d \in bereft)'
      <4>1. CASE d # c
        <5>1. At(d, "wrote")
          BY <3>0, <3>4, <4>1 DEF At
        <5> QED BY <2>2, <3>0, <4>1, <5>1
      <4>2. CASE d = c
        <5>1. ~At(c, "wrote") /\ ~At(c, "done")
          BY <3>1, <3>4, <4>2 DEF Shape, Told, At
        <5>2. c \notin landed
          BY <5>1 DEF Unanswered
        <5>3. \/ c \in landed' /\ StillThere(c)'
              \/ landed' = landed /\ req'[c].op = "set cover" /\ ~alive'
          BY <3>1, <3>4, <4>2, <5>1 DEF Shape, Told
        <5> QED BY <4>2, <5>2, <5>3
      <4> QED BY <4>1, <4>2
    <3>3. ASSUME NEW d \in Requests, At(d, "done")'
          PROVE  (IF req[d].code \in {"200", "201"}
                  THEN d \in landed \/ (d \in ended /\ req[d].op \in {"edit", "clear cover", "version"})
                  ELSE d \notin landed \/ d \in bereft)'
      <4>1. CASE d # c
        <5>1. req'[d] = req[d] /\ At(d, "done") /\ (d \in landed' <=> d \in landed)
          BY <3>0, <3>3, <4>1 DEF At
        <5> QED BY <2>1, <5>1 DEF AnswersAreTrue
      <4>2. CASE d = c /\ At(c, "wrote")
        <5>1. landed' = landed /\ (req'[c].code \in {"200", "201"} <=> StillThere(c))
          BY <3>1, <4>2 DEF Shape, Told
        <5>2. /\ c \in landed \/ (req[c].op = "set cover" /\ ~alive)
              /\ c \in landed => StillThere(c) \/ c \in bereft
          BY <4>2 DEF Written
        <5>3. StillThere(c) => c \in landed
          BY <5>2 DEF StillThere
        <5> QED BY <2>1, <4>2, <5>1, <5>2, <5>3
      <4>3. CASE d = c /\ ~At(c, "wrote")
        <5>1. c \notin landed
          BY <3>1, <4>3 DEF Shape, Unanswered
        <5>2. ASSUME InProgress(c), ~alive PROVE c \in ended'
          BY <2>1, <5>2 DEF AccessInv, Access, May
        <5>3. ~At(c, "wrote")'
          BY <3>3, <4>3 DEF At
        <5>4. IF req'[c].code \in {"200", "201"}
              THEN c \in landed' \/ (InProgress(c) /\ ~alive /\ req'[c].op \in {"edit", "clear cover", "version"})
              ELSE landed' = landed
          BY <3>1, <3>3, <4>3, <5>3 DEF Shape, Told
        <5> QED BY <4>3, <5>1, <5>2, <5>4
      <4> QED BY <4>1, <4>2, <4>3
    <3>5. AnswersAreTrue'
      BY <3>3 DEF AnswersAreTrue
    <3>6. Unanswered' /\ Written'
      BY <3>2, <3>4 DEF Unanswered, Written
    <3> QED BY <1>0, <3>5, <3>6
  <2> QED BY <1>2, <2>3, <2>4, NextShape DEF AccessInv
<1> QED
  BY <1>1, <1>2

(* An answer says what happened, but for an edit or a version of what is    *)
(* gone (src/routes/notebooks.py:837) and a change of what was deleted      *)
(* before it was read back (src/db/notebooks.py:425, 447, 898 and 1359).    *)
THEOREM AnswersTold == Sensible => (Spec => []AnswersAreTrue)
<1> SUFFICES ASSUME Sensible PROVE Spec => []AnswersAreTrue
  OBVIOUS
<1>1. Init => AnswersInv
  BY BaseInit DEF Init, AnswersInv, AccessInv, Access, Unanswered, Written, AnswersAreTrue, InProgress, At
<1>2. AnswersInv /\ [Next]_vars => AnswersInv'
  BY AnswersStep
<1> QED
  BY <1>1, <1>2, PTL DEF Spec, AnswersInv

-----------------------------------------------------------------------------
(* Two versions under way at once are overlapping ones; while there were    *)
(* none, the versions are in the order of their times, and before the one   *)
(* that is under way.                                                       *)
InOrder ==
  /\ \A i \in DOMAIN versions : versions[i] <= clock
  /\ \A c, d \in Requests : InVersion(c) /\ InVersion(d) /\ c # d => overlap
  /\ ~overlap => /\ \A i, j \in DOMAIN versions : i < j => versions[i] < versions[j]
                 /\ \A c \in Requests : InVersion(c) => \A i \in DOMAIN versions : versions[i] < req[c].now

OrderInv == Base /\ InOrder

LEMMA TwoOfThem ==
  ASSUME NEW S, IsFiniteSet(S), NEW c \in S, NEW d \in S, c # d PROVE Cardinality(S) > 1
<1>1. IsFiniteSet({c}) /\ Cardinality({c}) = 1
  BY FS_Singleton
<1>2. {c} \subseteq S /\ {c} # S
  OBVIOUS
<1>3. Cardinality(S) \in Nat /\ Cardinality({c}) < Cardinality(S)
  BY <1>2, FS_CardinalityType, FS_Subset
<1> QED BY <1>1, <1>3

LEMMA OrderStep ==
  ASSUME OrderInv, Sensible, [Next]_vars PROVE OrderInv'
<1> USE DEF OrderInv
<1>1. CASE UNCHANGED vars
  BY <1>1, StutterStill DEF vars, InOrder, InVersion, At
<1>2. CASE Next
  <2>1. /\ overlap' = (overlap \/ Cardinality({c \in Requests : req'[c].at \in {"begun", "locked"}}) > 1)
        /\ Base' /\ (Still \/ \E c \in Requests : Shape(c))
    BY <1>2, NextShape DEF Next
  <2>2. overlap => overlap'
    BY <2>1
  <2>3. ASSUME NEW c \in Requests, NEW d \in Requests, InVersion(c)', InVersion(d)', c # d PROVE overlap'
    <3> DEFINE S == {e \in Requests : req'[e].at \in {"begun", "locked"}}
    <3>1. IsFiniteSet(S)
      BY FS_Subset DEF Sensible
    <3>2. c \in S /\ d \in S
      BY <2>3 DEF InVersion, At
    <3> HIDE DEF S
    <3>3. Cardinality(S) > 1
      BY <2>3, <3>1, <3>2, TwoOfThem
    <3> QED BY <2>1, <3>3 DEF S
  <2>4. CASE Still
    BY <2>1, <2>2, <2>3, <2>4 DEF Still, InOrder, InVersion, At
  <2>5. CASE \E c \in Requests : Shape(c)
    <3>1. PICK c \in Requests : Shape(c)
      BY <2>5
    <3>2. /\ \A d \in Requests \ {c} : req'[d] = req[d]
          /\ Versioned(c)
      BY <3>1 DEF Shape
    <3>3. clock \in Nat /\ versions \in Seq(Nat) /\ clock' \in Nat /\ clock <= clock'
      BY <3>2 DEF Versioned, Base, Contents
    <3>4. CASE versions' = versions
      <4>1. \A i \in DOMAIN versions' : versions'[i] <= clock'
        BY <3>3, <3>4 DEF InOrder
      <4>2. ASSUME ~overlap', NEW d \in Requests, InVersion(d)', NEW i \in DOMAIN versions
            PROVE  versions[i] < req'[d].now
        <5>1. CASE d # c
          BY <2>2, <3>2, <4>2, <5>1 DEF InOrder, InVersion, At
        <5>2. CASE d = c /\ InVersion(c) /\ req'[c].now = req[c].now
          BY <2>2, <4>2, <5>2 DEF InOrder
        <5>3. CASE d = c /\ req'[c].now = clock + 1
          BY <3>3, <4>2, <5>3 DEF InOrder
        <5> QED BY <3>2, <4>2, <5>1, <5>2, <5>3 DEF Versioned
      <4> QED BY <2>1, <2>2, <2>3, <3>4, <4>1, <4>2 DEF InOrder
    <3>5. CASE versions' = <<>>
      BY <2>1, <2>3, <3>5 DEF InOrder
    <3>6. CASE At(c, "locked") /\ At(c, "done")' /\ versions' = Append(versions, req[c].now)
      <4> DEFINE n == Len(versions)
      <4>1. InVersion(c) /\ req[c].now \in 0 .. clock
        BY <3>6 DEF InVersion, Base, Asking, Asked
      <4>2. /\ n \in Nat /\ DOMAIN versions = 1 .. n /\ DOMAIN versions' = 1 .. n + 1
            /\ versions'[n + 1] = req[c].now /\ \A i \in 1 .. n : versions'[i] = versions[i]
        BY <3>3, <3>6, <4>1
      <4> HIDE DEF n
      <4>3. ASSUME NEW i \in DOMAIN versions' PROVE versions'[i] <= clock'
        <5>1. CASE i = n + 1
          BY <3>3, <4>1, <4>2, <5>1
        <5>2. CASE i # n + 1
          <6>1. i \in DOMAIN versions /\ versions'[i] = versions[i] /\ versions[i] \in Nat
            BY <3>3, <4>2, <4>3, <5>2
          <6> QED BY <3>3, <6>1 DEF InOrder
        <5> QED BY <5>1, <5>2
      <4>4. ASSUME ~overlap', NEW i \in DOMAIN versions', NEW j \in DOMAIN versions', i < j
            PROVE  versions'[i] < versions'[j]
        <5>1. i \in DOMAIN versions /\ versions'[i] = versions[i]
          BY <4>2, <4>4
        <5>2. CASE j = n + 1
          BY <2>2, <4>1, <4>2, <4>4, <5>1, <5>2 DEF InOrder
        <5>3. CASE j # n + 1
          <6>1. j \in DOMAIN versions /\ versions'[j] = versions[j]
            BY <4>2, <4>4, <5>3
          <6> QED BY <2>2, <4>4, <5>1, <6>1 DEF InOrder
        <5> QED BY <5>2, <5>3
      <4>5. ASSUME NEW d \in Requests, InVersion(d)' PROVE overlap'
        <5>1. d # c
          BY <3>6, <4>5 DEF InVersion, At
        <5>2. InVersion(d)
          BY <3>2, <4>5, <5>1 DEF InVersion, At
        <5> QED BY <2>2, <4>1, <5>1, <5>2 DEF InOrder
      <4> QED BY <2>1, <2>3, <4>3, <4>4, <4>5 DEF InOrder
    <3> QED BY <3>2, <3>4, <3>5, <3>6 DEF Versioned
  <2> QED BY <2>1, <2>4, <2>5
<1> QED
  BY <1>1, <1>2

(* Versions are numbered in turn: none is refused because two requests took *)
(* its number, and they are in the order of their times unless two were     *)
(* under way at once (src/db/notebooks.py:1118).                            *)
THEOREM VersionsOneByOne == Sensible => (Spec => []VersionsInTurn)
<1> SUFFICES ASSUME Sensible PROVE Spec => []VersionsInTurn
  OBVIOUS
<1>1. Init => OrderInv
  BY BaseInit DEF Init, OrderInv, InOrder, InVersion, At
<1>2. OrderInv /\ [Next]_vars => OrderInv'
  BY OrderStep
<1>3. OrderInv => VersionsInTurn
  <2> SUFFICES ASSUME OrderInv PROVE VersionsInTurn
    OBVIOUS
  <2>1. \A c \in Requests : At(c, "locked") => req[c].next = Len(versions) + 1
    BY DEF OrderInv, Base, Asking, Asked
  <2>2. ASSUME NEW i \in DOMAIN versions, NEW j \in DOMAIN versions, i < j, versions[i] >= versions[j], ~overlap
        PROVE  FALSE
    <3>1. versions[i] \in Nat /\ versions[j] \in Nat /\ versions[i] < versions[j]
      BY <2>2 DEF OrderInv, InOrder, Base, Contents
    <3> QED BY <2>2, <3>1
  <2> QED BY <2>1, <2>2 DEF VersionsInTurn
<1> QED
  BY <1>1, <1>2, <1>3, PTL DEF Spec

-----------------------------------------------------------------------------
(* Notifications: News, an instance of Feed.                               *)

(* What was told is stored, for the user, and no later than what was told  *)
(* last; the rest is to come, or it is known why not.                      *)
FeedTypes ==
  /\ for \in [Notes -> {"me", "all", "other"}] /\ time \in [Notes -> Nat] /\ day \in Nat
  /\ stored \subseteq Notes /\ IsFiniteSet(stored)
  /\ since \in Notes \cup {None} /\ told \in [Notes -> Nat]

(* The client asks for what is later.                                      *)
Past(n) == since # None /\ time[n] <= time[since]

(* Who is told is told once; what is passed over, it is known why.         *)
FeedInv ==
  /\ FeedTypes
  /\ since # None => since \in stored
  /\ \A n \in stored : time[n] # 0
  /\ \A n \in Notes :
       /\ told[n] \in {0, 1}
       /\ told[n] # 0 => n \in stored /\ for[n] # "other" /\ Past(n)
       /\ n \in stored /\ for[n] # "other" /\ told[n] = 0 /\ Past(n) => n \in late \cup crowded

(* An instance counts as the library does.                                 *)
LEMMA SameCardinality == \A S : News!Cardinality(S) = Cardinality(S)
BY Zenon DEF Cardinality, News!Cardinality

(* A client asks, and is told the first of what is later, or how much it is. *)
LEMMA PollKeeps ==
  ASSUME None \notin Notes, FeedInv, News!Poll
  PROVE  FeedInv'
<1> USE DEF FeedInv
<1>1. PICK page \in News!Answers :
        /\ page # {}
        /\ told' = [n \in Notes |-> IF n \in page THEN told[n] + 1 ELSE told[n]]
        /\ \E n \in page : (\A m \in page : time[n] >= time[m]) /\ since' = n
        /\ crowded' = IF News!Cardinality(page) = Limit
                      THEN crowded \cup {n \in stored : told'[n] = 0 /\ time[n] <= time[since']} ELSE crowded
        /\ UNCHANGED <<for, time, stored, day, late>>
  BY DEF News!Poll
<1>2. /\ page \subseteq News!Recent
      /\ News!Cardinality(page) = IF News!Cardinality(News!Recent) < Limit THEN News!Cardinality(News!Recent) ELSE Limit
  BY DEF News!Answers
<1>3. \A n \in News!Recent : n \in stored /\ n \in Notes /\ for[n] # "other" /\ (since = None \/ time[n] > time[since])
  BY DEF News!Recent, News!Visible, News!Newer, FeedTypes
<1>4. \A n \in Notes : time[n] \in Nat /\ time'[n] = time[n]
  BY <1>1 DEF FeedTypes
<1>5. \A n \in page : n \in Notes /\ ~Past(n) /\ told[n] = 0
  <2> SUFFICES ASSUME NEW n \in page PROVE n \in Notes /\ ~Past(n) /\ told[n] = 0
    OBVIOUS
  <2>1. n \in Notes /\ (since = None \/ time[n] > time[since])
    BY <1>2, <1>3
  <2>2. ~Past(n)
    BY <1>4, <2>1 DEF Past, FeedTypes
  <2> QED
    BY <2>1, <2>2
<1>6. since' \in page /\ since' \in Notes /\ since' \in stored /\ since' # None /\ \A m \in page : time[m] <= time[since']
  <2>1. PICK n \in page : (\A m \in page : time[n] >= time[m]) /\ since' = n
    BY <1>1
  <2>2. \A m \in page : time[m] <= time[n]
    BY <1>4, <1>5, <2>1
  <2> QED
    BY <1>2, <1>3, <2>1, <2>2
<1>7. \A n \in Notes : told'[n] = (IF n \in page THEN 1 ELSE told[n]) /\ told'[n] \in {0, 1}
  BY <1>1, <1>5
<1>8. FeedTypes'
  <2>1. told' \in [Notes -> Nat]
    BY <1>1, <1>7
  <2> QED
    BY <1>1, <1>6, <2>1 DEF FeedTypes
<1>9. \A n \in Notes : Past(n) => Past(n)'
  <2> SUFFICES ASSUME NEW n \in Notes, Past(n) PROVE time[n] <= time[since']
    BY <1>4, <1>6 DEF Past
  <2>1. since \in Notes /\ time[n] <= time[since]
    BY DEF Past, FeedTypes
  <2>2. time[since'] > time[since]
    BY <1>2, <1>3, <1>6 DEF Past
  <2> QED
    BY <1>4, <1>6, <2>1, <2>2
<1>10. \A n \in Notes : told'[n] # 0 => n \in stored /\ for[n] # "other" /\ Past(n)'
  BY <1>2, <1>3, <1>4, <1>6, <1>7, <1>9 DEF Past
<1>11. ASSUME NEW n \in Notes, n \in stored, for[n] # "other", told'[n] = 0, Past(n)'
       PROVE  n \in late \cup crowded'
  <2>1. told[n] = 0 /\ n \notin page /\ crowded \subseteq crowded'
    BY <1>1, <1>7, <1>11
  <2>2. CASE Past(n)
    BY <1>11, <2>1, <2>2
  <2>3. CASE ~Past(n)
    <3>1. n \in News!Recent
      BY <1>4, <1>11, <2>3 DEF News!Recent, News!Visible, News!Newer, Past, FeedTypes
    <3>2. IsFiniteSet(News!Recent)
      BY FS_Subset DEF News!Recent, FeedTypes
    <3>3. Cardinality(page) # Cardinality(News!Recent)
      BY <1>2, <2>1, <3>1, <3>2, FS_Subset
    <3>4. News!Cardinality(page) = Limit
      BY <1>2, <3>3, SameCardinality
    <3>5. time[n] <= time[since']
      BY <1>4, <1>6, <1>11 DEF Past
    <3> QED
      BY <1>1, <1>11, <3>4, <3>5
  <2> QED
    BY <2>2, <2>3
<1> QED
  BY <1>1, <1>6, <1>7, <1>8, <1>10, <1>11

(* A notification is made or committed, or a client asks.                  *)
LEMMA FeedKeeps == None \notin Notes /\ FeedInv /\ [News!Next]_(News!vars) => FeedInv'
<1> SUFFICES ASSUME None \notin Notes, FeedInv, [News!Next]_(News!vars) PROVE FeedInv'
  OBVIOUS
<1>1. CASE News!Poll
  BY <1>1, PollKeeps
<1>2. CASE News!Tick
  <2>1. day + 1 \in Nat
    BY DEF FeedInv, FeedTypes
  <2> QED
    BY <1>2, <2>1 DEF News!Tick, FeedInv, FeedTypes, Past
<1>3. ASSUME NEW n \in Notes, News!Make(n) PROVE FeedInv'
  <2> USE DEF FeedInv
  <2>1. /\ time[n] = 0 /\ time' = [time EXCEPT ![n] = day] /\ n \notin stored
        /\ UNCHANGED <<for, stored, day, since, told, late, crowded>>
    BY <1>3 DEF News!Make
  <2>2. FeedTypes'
    BY <2>1 DEF FeedTypes
  <2>3. \A m \in stored : time'[m] = time[m]
    BY <2>1 DEF FeedTypes
  <2>4. \A m \in stored : Past(m)' <=> Past(m)
    BY <2>1, <2>3 DEF Past, FeedTypes
  <2> QED
    BY <2>1, <2>2, <2>3, <2>4
<1>4. ASSUME NEW n \in Notes, News!Commit(n) PROVE FeedInv'
  <2> USE DEF FeedInv
  <2>1. /\ time[n] # 0 /\ n \notin stored /\ stored' = stored \cup {n}
        /\ late' = IF since # None /\ time[n] <= time[since] THEN late \cup {n} ELSE late
        /\ UNCHANGED <<for, time, day, since, told, crowded>>
    BY <1>4 DEF News!Commit
  <2>2. FeedTypes'
    BY <2>1, FS_AddElement DEF FeedTypes
  <2>3. \A m \in Notes : Past(m)' <=> Past(m)
    BY <2>1 DEF Past
  <2>4. Past(n) => n \in late'
    BY <2>1 DEF Past
  <2> QED
    BY <2>1, <2>2, <2>3, <2>4
<1>5. CASE UNCHANGED News!vars
  BY <1>5 DEF News!vars, FeedInv, FeedTypes, Past
<1> QED
  BY <1>1, <1>2, <1>3, <1>4, <1>5 DEF News!Next

(* Whatever is made, committed and polled in whatever order, a client is   *)
(* told of every notification for it once, of no other, and of one that is *)
(* not told it is known that it came late or that an answer was full       *)
(* (src/db/notifications.py:229).                                          *)
THEOREM NotificationsAreToldOnce ==
  ASSUME None \notin Notes
  PROVE  News!Spec => []ToldOnce
<1>1. News!Init => FeedInv
  <2> SUFFICES ASSUME News!Init PROVE FeedInv
    OBVIOUS
  <2>1. FeedTypes
    BY FS_EmptySet DEF News!Init, FeedTypes
  <2> QED
    BY <2>1 DEF News!Init, FeedInv, Past
<1>2. FeedInv /\ [News!Next]_(News!vars) => FeedInv'
  BY FeedKeeps
<1>3. FeedInv => ToldOnce
  <2> SUFFICES ASSUME FeedInv, NEW n \in Notes
               PROVE  /\ told[n] <= (IF for[n] = "other" THEN 0 ELSE 1)
                      /\ (n \in stored /\ for[n] # "other" /\ told[n] = 0 /\ since # None /\ time[n] <= time[since])
                           => n \in late \cup crowded
    BY DEF ToldOnce, News!ToldOnce
  <2>1. told[n] \in {0, 1} /\ (told[n] # 0 => for[n] # "other")
    BY DEF FeedInv
  <2> QED
    BY <2>1 DEF FeedInv, Past
<1> QED
  BY <1>1, <1>2, <1>3, PTL DEF News!Spec

-----------------------------------------------------------------------------
(* Pages: List, an instance of Pages.                                      *)

(* Lists have times, pages have rows, and no row is taken for "no cursor". *)
ListsSensible ==
  /\ MaxRows \in Nat /\ Limit \in Nat \ {0} /\ MaxTime \in Nat \ {0}
  /\ None \notin 1 .. MaxRows

(* The types of a list and of its reader.                                  *)
ListTypes ==
  /\ list \in Lists /\ key \in [List!Rows -> Nat] /\ hour \in 1 .. MaxTime
  /\ \A r \in List!Rows : key[r] <= hour
  /\ shown \subseteq List!There /\ whole \subseteq shown
  /\ at \in List!Rows \cup {None} /\ read \in [List!Rows -> Nat]
  /\ reading \in BOOLEAN /\ more = reading /\ cut \in BOOLEAN /\ rewound \in BOOLEAN

(* The row a reader names was told; it is there, unless it was deleted.    *)
Placed ==
  /\ at = None => \A r \in List!Rows : read[r] = 0
  /\ at # None => read[at] # 0 /\ (list = "users" \/ at \in List!There \/ cut)

(* What has not been told comes after that row, what comes after has not.  *)
Covered == cut \/ \A r \in whole : read[r] # 0 \/ (reading /\ List!After(r))
Once    == rewound \/ \A r \in whole : read[r] \in {0, 1} /\ (List!After(r) => read[r] = 0)

(* What every step keeps.                                                  *)
ListInv == ListTypes /\ Placed /\ Covered /\ Once

(* Numbers have a least.                                                   *)
LEMMA LeastNumber ==
  ASSUME NEW T, T \subseteq Nat, T # {}
  PROVE  \E n \in T : \A m \in T : n <= m
<1>1. PICK n \in T : \A m \in T : ~(<<m, n>> \in OpToRel(<, Nat))
  BY NatLessThanWellFounded, WFMin
<1>2. \A m \in T : ~(m < n)
  BY <1>1 DEF OpToRel
<1> QED
  BY <1>2

(* Rows are in an order.                                                   *)
LEMMA RowsInOrder ==
  ASSUME ListTypes, NEW r \in List!Rows, NEW s \in List!Rows, NEW t \in List!Rows
  PROVE  /\ ~List!Precedes(r, r)
         /\ r = s \/ List!Precedes(r, s) \/ List!Precedes(s, r)
         /\ List!Precedes(r, s) /\ List!Precedes(s, t) => List!Precedes(r, t)
<1>1. key[r] \in Nat /\ key[s] \in Nat /\ key[t] \in Nat /\ r \in Int /\ s \in Int /\ t \in Int
  BY DEF ListTypes, List!Rows
<1>2. /\ ~List!Older(r, r)
      /\ r = s \/ List!Older(r, s) \/ List!Older(s, r)
      /\ List!Older(r, s) /\ List!Older(s, t) => List!Older(r, t)
      /\ List!Older(t, s) /\ List!Older(s, r) => List!Older(t, r)
  BY <1>1 DEF List!Older
<1>3. CASE list = "users"
  <2>1. list \notin List!Ascending
    BY <1>3 DEF List!Ascending
  <2>2. \A x, y : List!Precedes(x, y) <=> x < y
    BY <1>3, <2>1 DEF List!Precedes
  <2> QED
    BY <1>1, <2>2
<1>4. CASE list # "users" /\ list \in List!Ascending
  BY <1>2, <1>4 DEF List!Precedes
<1>5. CASE list # "users" /\ list \notin List!Ascending
  BY <1>2, <1>5 DEF List!Precedes
<1> QED
  BY <1>3, <1>4, <1>5

(* How many rows of a set precede one.                                     *)
Rank(S, r) == Cardinality({s \in S : List!Precedes(s, r)})

(* Ranks are numbers ...                                                   *)
LEMMA RowsFinite ==
  ASSUME ListsSensible, NEW S, S \subseteq List!Rows
  PROVE  IsFiniteSet(S) /\ Cardinality(S) \in Nat
<1>1. IsFiniteSet(1 .. MaxRows)
  BY FS_Interval DEF ListsSensible
<1> QED
  BY <1>1, FS_Subset, FS_CardinalityType DEF List!Rows

(* ... that grow along the order.                                          *)
LEMMA RankGrows ==
  ASSUME ListsSensible, ListTypes, NEW S \in SUBSET List!Rows, NEW r \in S, NEW s \in S
  PROVE  /\ Rank(S, r) \in Nat
         /\ List!Precedes(r, s) <=> Rank(S, r) < Rank(S, s)
<1>1. \A x \in S : Rank(S, x) \in Nat /\ IsFiniteSet({y \in S : List!Precedes(y, x)})
  BY RowsFinite DEF Rank
<1>2. ASSUME NEW x \in S, NEW y \in S, List!Precedes(x, y)
      PROVE  Rank(S, x) < Rank(S, y)
  <2> DEFINE X == {z \in S : List!Precedes(z, x)}
             Y == {z \in S : List!Precedes(z, y)}
  <2>1. X \subseteq Y /\ x \in Y /\ x \notin X
    BY <1>2, RowsInOrder
  <2>2. Cardinality(X) <= Cardinality(Y) /\ Cardinality(X) # Cardinality(Y)
    BY <1>1, <2>1, FS_Subset
  <2> QED
    BY <1>1, <2>2 DEF Rank
<1>3. r = s \/ List!Precedes(r, s) \/ List!Precedes(s, r)
  BY RowsInOrder
<1>4. ~List!Precedes(r, r) /\ ~(List!Precedes(r, s) /\ List!Precedes(s, r))
  BY RowsInOrder
<1>5. Rank(S, r) \in Nat /\ Rank(S, s) \in Nat
  BY <1>1
<1>6. CASE List!Precedes(r, s)
  BY <1>2, <1>5, <1>6
<1>7. CASE List!Precedes(s, r)
  <2>1. Rank(S, s) < Rank(S, r)
    BY <1>2, <1>7
  <2> QED
    BY <1>4, <1>5, <1>7, <2>1
<1>8. CASE r = s
  BY <1>4, <1>5, <1>8
<1> QED
  BY <1>3, <1>6, <1>7, <1>8

(* Every set of rows has a first and a last.                               *)
LEMMA FirstAndLast ==
  ASSUME ListsSensible, ListTypes, NEW S \in SUBSET List!Rows, S # {}
  PROVE  /\ \E r \in S : \A s \in S : s = r \/ List!Precedes(r, s)
         /\ \E r \in S : \A s \in S : s = r \/ List!Precedes(s, r)
<1>1. \A r \in S : Rank(S, r) \in Nat
  BY RankGrows
<1>2. PICK N \in Nat : \A r \in S : Rank(S, r) <= N
  <2>1. \A r \in S : Rank(S, r) <= Cardinality(S)
    BY RowsFinite, FS_Subset DEF Rank
  <2> QED
    BY <2>1, RowsFinite
<1>3. PICK r \in S : \A s \in S : Rank(S, r) <= Rank(S, s)
  <2>1. {Rank(S, r) : r \in S} \subseteq Nat /\ {Rank(S, r) : r \in S} # {}
    BY <1>1
  <2>2. PICK n \in {Rank(S, r) : r \in S} : \A m \in {Rank(S, r) : r \in S} : n <= m
    BY <2>1, LeastNumber
  <2> QED
    BY <2>2
<1>4. PICK l \in S : \A s \in S : Rank(S, s) <= Rank(S, l)
  <2> DEFINE T == {N - Rank(S, x) : x \in S}
  <2>1. T \subseteq Nat /\ T # {}
    BY <1>1, <1>2
  <2>2. PICK n \in T : \A m \in T : n <= m
    <3> HIDE DEF T
    <3> QED
      BY <2>1, LeastNumber
  <2>3. PICK r1 \in S : n = N - Rank(S, r1)
    BY <2>2
  <2>4. \A s \in S : N - Rank(S, r1) <= N - Rank(S, s)
    BY <2>2, <2>3
  <2>5. \A s \in S : Rank(S, s) <= Rank(S, r1)
    BY <1>1, <2>4
  <2> QED
    BY <2>5
<1>5. \A s \in S : s = r \/ List!Precedes(r, s)
  <2> SUFFICES ASSUME NEW s \in S PROVE s = r \/ List!Precedes(r, s)
    OBVIOUS
  <2>1. ~(Rank(S, s) < Rank(S, r))
    BY <1>1, <1>3
  <2> QED
    BY <2>1, RankGrows, RowsInOrder
<1>6. \A s \in S : s = l \/ List!Precedes(s, l)
  <2> SUFFICES ASSUME NEW s \in S PROVE s = l \/ List!Precedes(s, l)
    OBVIOUS
  <2>1. ~(Rank(S, l) < Rank(S, s))
    BY <1>1, <1>4
  <2> QED
    BY <2>1, RankGrows, RowsInOrder
<1> QED
  BY <1>5, <1>6

(* An instance counts as the library does.                                 *)
LEMMA SameSize == \A S : List!Cardinality(S) = Cardinality(S)
BY Zenon DEF Cardinality, List!Cardinality

(* A page is what comes first of the rest; without more it is all of it.   *)
LEMMA PageFacts ==
  ASSUME ListsSensible, ListTypes, NEW page, page = List!First(Limit)
  PROVE  /\ page \subseteq List!Rest /\ List!Rest \subseteq shown /\ List!Rest \subseteq List!Rows
         /\ page # {} =>
              /\ List!LastOf(page) \in page
              /\ \A s \in page : s = List!LastOf(page) \/ List!Precedes(s, List!LastOf(page))
         /\ \A r \in List!Rest \ page, s \in page : List!Precedes(s, r)
         /\ List!Rest # {} => page # {}
         /\ List!More(page) \in BOOLEAN
         /\ ~List!More(page) => List!Rest = page
<1>1. PICK R : R = List!Rest
  OBVIOUS
<1>2. R \subseteq shown /\ R \in SUBSET List!Rows
  BY <1>1 DEF List!Rest, ListTypes, List!There
<1>3. \A n : List!First(n) = {r \in R : Rank(R, r) < n}
  BY <1>1, SameSize DEF List!First, Rank
<1>4. page = {r \in R : Rank(R, r) < Limit} /\ page \in SUBSET List!Rows /\ Limit \in Nat /\ 0 < Limit
  BY <1>2, <1>3 DEF ListsSensible
<1>5. \A r \in R : Rank(R, r) \in Nat
  BY <1>2, RankGrows
<1>6. page # {} =>
        /\ List!LastOf(page) \in page
        /\ \A s \in page : s = List!LastOf(page) \/ List!Precedes(s, List!LastOf(page))
  <2> SUFFICES ASSUME page # {}
               PROVE  /\ List!LastOf(page) \in page
                      /\ \A s \in page : s = List!LastOf(page) \/ List!Precedes(s, List!LastOf(page))
    OBVIOUS
  <2>1. PICK l \in page : \A s \in page : s = l \/ List!Precedes(s, l)
    BY <1>4, FirstAndLast
  <2>2. \A s \in page : ~List!Precedes(l, s)
    <3> SUFFICES ASSUME NEW s \in page, List!Precedes(l, s) PROVE FALSE
      OBVIOUS
    <3>1. l \in List!Rows /\ s \in List!Rows
      BY <1>4
    <3>2. ~List!Precedes(l, l) /\ (List!Precedes(s, l) /\ List!Precedes(l, s) => List!Precedes(s, s)) /\ ~List!Precedes(s, s)
      BY <3>1, RowsInOrder
    <3> QED
      BY <2>1, <3>2
  <2>3. List!LastOf(page) \in page /\ \A s \in page : ~List!Precedes(List!LastOf(page), s)
    BY <2>1, <2>2 DEF List!LastOf
  <2>4. \A s \in page : s = List!LastOf(page) \/ List!Precedes(s, List!LastOf(page))
    BY <1>4, <2>3, RowsInOrder
  <2> QED
    BY <2>3, <2>4
<1>7. ASSUME NEW r \in R \ page, NEW s \in page PROVE List!Precedes(s, r)
  <2>1. Rank(R, s) < Limit /\ ~(Rank(R, r) < Limit) /\ s \in R /\ r \in R
    BY <1>4
  <2>2. Rank(R, s) < Rank(R, r)
    BY <1>4, <1>5, <2>1
  <2> QED
    BY <1>2, <2>1, <2>2, RankGrows
<1>8. R # {} => page # {}
  <2> SUFFICES ASSUME R # {} PROVE page # {}
    OBVIOUS
  <2>1. PICK r \in R : \A s \in R : s = r \/ List!Precedes(r, s)
    BY <1>2, FirstAndLast
  <2>2. {s \in R : List!Precedes(s, r)} = {}
    <3> SUFFICES ASSUME NEW s \in R, List!Precedes(s, r) PROVE FALSE
      OBVIOUS
    <3>1. ~List!Precedes(r, r) /\ (List!Precedes(r, s) /\ List!Precedes(s, r) => List!Precedes(r, r))
      BY <1>2, RowsInOrder
    <3> QED
      BY <2>1, <3>1
  <2>3. Rank(R, r) = 0
    BY <2>2, FS_EmptySet DEF Rank
  <2> QED
    BY <1>4, <2>1, <2>3
<1>9. ASSUME R # page
      PROVE  List!More(page)
  <2>1. PICK r \in R \ page : \A s \in R \ page : s = r \/ List!Precedes(r, s)
    <3>1. R \ page # {} /\ R \ page \in SUBSET List!Rows
      BY <1>2, <1>4, <1>9
    <3> QED
      BY <3>1, FirstAndLast
  <2>2. {s \in R : List!Precedes(s, r)} = page
    <3>1. ASSUME NEW s \in R, List!Precedes(s, r) PROVE s \in page
      <4>1. ~List!Precedes(r, r) /\ (List!Precedes(r, s) /\ List!Precedes(s, r) => List!Precedes(r, r))
        BY <1>2, <2>1, RowsInOrder
      <4> QED
        BY <2>1, <3>1, <4>1
    <3>2. page \subseteq R
      BY <1>4
    <3> QED
      BY <1>7, <2>1, <3>1, <3>2
  <2>3. Rank(R, r) = Cardinality(page) /\ ~(Rank(R, r) < Limit)
    BY <1>4, <2>1, <2>2 DEF Rank
  <2>4. PICK l \in page : \A s \in page : s = l \/ List!Precedes(s, l)
    <3>1. page # {}
      BY <1>8, <2>1
    <3> QED
      BY <1>4, <3>1, FirstAndLast
  <2>5. {s \in R : List!Precedes(s, l)} = page \ {l}
    <3>1. ASSUME NEW s \in R, List!Precedes(s, l) PROVE s \in page /\ s # l
      <4>1. Rank(R, s) < Rank(R, l) /\ Rank(R, l) < Limit
        BY <1>2, <1>4, <2>4, <3>1, RankGrows
      <4>2. s \in page
        BY <1>4, <1>5, <2>4, <4>1
      <4>3. ~List!Precedes(l, l)
        BY <1>4, <2>4, RowsInOrder
      <4> QED
        BY <3>1, <4>2, <4>3
    <3>2. page \subseteq R
      BY <1>4
    <3> QED
      BY <2>4, <3>1, <3>2
  <2>6. Cardinality(page \ {l}) < Limit /\ IsFiniteSet(page) /\ Cardinality(page) \in Nat
    BY <1>4, <2>4, <2>5, RowsFinite DEF Rank
  <2>7. Cardinality(page \ {l}) = Cardinality(page) - 1
    BY <2>4, <2>6, FS_RemoveElement
  <2>8. Cardinality(page) = Limit
    BY <1>4, <2>3, <2>6, <2>7
  <2>9. CASE list \in List!OneMore
    <3>1. Rank(R, r) < Limit + 1
      BY <1>4, <2>3, <2>8
    <3>2. r \in List!First(Limit + 1)
      BY <1>3, <2>1, <3>1
    <3> QED
      BY <2>1, <2>9, <3>2 DEF List!More
  <2>10. CASE list \notin List!OneMore
    BY <2>8, <2>10, SameSize DEF List!More
  <2> QED
    BY <2>9, <2>10
<1>10. List!More(page) \in BOOLEAN
  BY DEF List!More
<1> QED
  BY <1>1, <1>2, <1>4, <1>6, <1>7, <1>8, <1>9, <1>10

(* What a reader was told, counted.                                        *)
LEMMA ListTypesRead ==
  ASSUME ListsSensible, ListInv, List!Read
  PROVE  /\ \E page : /\ page = List!First(Limit)
                      /\ read' = [r \in List!Rows |-> IF r \in page THEN read[r] + 1 ELSE read[r]]
                      /\ at' = IF page = {} THEN at ELSE List!LastOf(page)
                      /\ more' = List!More(page) /\ reading' = List!More(page)
         /\ reading /\ UNCHANGED <<list, key, shown, hour, whole, cut, rewound>>
BY DEF List!Read

(* A page is told.                                                         *)
LEMMA ReadKeeps == ListsSensible /\ ListInv /\ List!Read => ListInv'
<1> SUFFICES ASSUME ListsSensible, ListInv, List!Read PROVE ListInv'
  OBVIOUS
<1> USE DEF ListInv
<1>1. PICK page : /\ page = List!First(Limit)
                  /\ read' = [r \in List!Rows |-> IF r \in page THEN read[r] + 1 ELSE read[r]]
                  /\ at' = IF page = {} THEN at ELSE List!LastOf(page)
                  /\ more' = List!More(page) /\ reading' = List!More(page)
  BY ListTypesRead
<1>2. reading /\ UNCHANGED <<list, key, shown, hour, whole, cut, rewound>>
  BY DEF List!Read
<1>3. PICK R : R = List!Rest
  OBVIOUS
<1>4. page \subseteq R /\ R \subseteq shown /\ R \subseteq List!Rows /\ shown \subseteq List!There /\ whole \subseteq List!Rows
  BY <1>1, <1>3, PageFacts DEF ListTypes, List!There
<1>5. page # {} => at' \in page /\ \A s \in page : s = at' \/ List!Precedes(s, at')
  BY <1>1, PageFacts
<1>6. \A r \in R \ page, s \in page : List!Precedes(s, r)
  BY <1>1, <1>3, PageFacts
<1>7. (R # {} => page # {}) /\ List!More(page) \in BOOLEAN /\ (~List!More(page) => R = page)
  BY <1>1, <1>3, PageFacts
<1>8. \A r, s : List!Precedes(r, s)' <=> List!Precedes(r, s)
  BY <1>2 DEF List!Precedes, List!Older
<1>9. \A r \in List!Rows : read'[r] = (IF r \in page THEN read[r] + 1 ELSE read[r]) /\ read[r] \in Nat
  BY <1>1 DEF ListTypes
<1>10. at' \in List!Rows \cup {None} /\ read' \in [List!Rows -> Nat]
  BY <1>1, <1>4, <1>5, <1>9 DEF ListTypes
<1>11. ListTypes'
  BY <1>1, <1>2, <1>7, <1>10 DEF ListTypes, List!There
<1>12. page # {} => at' # None /\ at' \in List!There
  BY <1>4, <1>5 DEF ListsSensible, List!There, List!Rows
<1>13. Placed'
  <2>1. CASE page = {}
    <3>1. at' = at /\ \A r \in List!Rows : read'[r] = read[r]
      BY <1>1, <1>9, <2>1
    <3>2. at \in List!Rows \cup {None}
      BY DEF ListTypes
    <3> QED
      BY <1>2, <3>1, <3>2 DEF Placed, List!There
  <2>2. CASE page # {}
    <3>1. read'[at'] # 0
      BY <1>4, <1>5, <1>9, <2>2
    <3> QED
      BY <1>2, <1>12, <2>2, <3>1 DEF Placed, List!There
  <2> QED
    BY <2>1, <2>2
<1>14. page # {} => \A r \in List!Rows : List!After(r)' <=> List!Precedes(at', r)
  BY <1>2, <1>8, <1>12 DEF List!After, List!There
<1>15. Covered'
  <2> SUFFICES ASSUME ~cut, NEW r \in whole, read'[r] = 0 PROVE reading' /\ List!After(r)'
    BY <1>2 DEF Covered
  <2>1. r \in List!Rows /\ r \notin page /\ read[r] = 0
    BY <1>4, <1>9
  <2>2. r \in R
    BY <1>3, <2>1 DEF Covered, List!Rest, ListTypes
  <2>3. reading'
    BY <1>1, <1>7, <2>1, <2>2
  <2>4. List!Precedes(at', r)
    BY <1>5, <1>6, <1>7, <2>1, <2>2
  <2> QED
    BY <1>7, <1>14, <2>1, <2>2, <2>3, <2>4
<1>16. Once'
  <2> SUFFICES ASSUME ~rewound, NEW r \in whole
               PROVE  read'[r] \in {0, 1} /\ (List!After(r)' => read'[r] = 0)
    BY <1>2 DEF Once
  <2>1. r \in List!Rows /\ read[r] \in {0, 1} /\ (List!After(r) => read[r] = 0) /\ (r \in page => List!After(r))
    BY <1>3, <1>4 DEF Once, List!Rest
  <2>2. read'[r] \in {0, 1}
    BY <1>9, <2>1
  <2>3. ASSUME List!After(r)' PROVE read'[r] = 0
    <3>1. CASE page = {}
      <4>1. at' = at /\ read'[r] = read[r]
        BY <1>1, <1>9, <2>1, <3>1
      <4>2. List!After(r)
        BY <1>2, <1>8, <2>3, <4>1 DEF List!After, List!There
      <4> QED
        BY <2>1, <4>1, <4>2
    <3>2. CASE page # {}
      <4>1. List!Precedes(at', r) /\ at' \in page /\ at' \in R /\ at' \in List!Rows
        BY <1>4, <1>5, <1>14, <2>1, <2>3, <3>2
      <4>2. r \notin page
        <5> SUFFICES ASSUME r \in page PROVE FALSE
          OBVIOUS
        <5>1. r = at' \/ List!Precedes(r, at')
          BY <1>5, <3>2
        <5>2. ~List!Precedes(r, r) /\ (List!Precedes(r, at') /\ List!Precedes(at', r) => List!Precedes(r, r))
          BY <2>1, <4>1, RowsInOrder
        <5> QED
          BY <4>1, <5>1, <5>2
      <4>3. List!After(at')
        BY <1>3, <4>1 DEF List!Rest
      <4>4. List!After(r)
        <5>1. CASE at = None
          BY <5>1 DEF List!After
        <5>2. CASE at # None
          <6>1. at \in List!Rows /\ List!Precedes(at, at') /\ (list = "users" \/ at \in List!There)
            BY <4>3, <5>2 DEF List!After, ListTypes
          <6>2. List!Precedes(at, r)
            BY <2>1, <4>1, <6>1, RowsInOrder
          <6> QED
            BY <6>1, <6>2 DEF List!After
        <5> QED
          BY <5>1, <5>2
      <4> QED
        BY <1>9, <2>1, <4>2, <4>4
    <3> QED
      BY <3>1, <3>2
  <2> QED
    BY <2>2, <2>3
<1> QED
  BY <1>11, <1>13, <1>15, <1>16

(* A new row, with the latest time; none is the one a reader names.        *)
LEMMA CreateKeeps ==
  ASSUME ListsSensible, ListInv, NEW r \in List!Rows, List!Create(r)
  PROVE  ListInv'
<1> USE DEF ListInv
<1>1. /\ hour < MaxTime /\ key[r] = 0 /\ read[r] = 0 /\ hour' = hour + 1
      /\ key' = [key EXCEPT ![r] = hour + 1] /\ shown' = shown \cup {r}
      /\ UNCHANGED <<list, at, more, reading, read, whole, cut, rewound>>
  BY DEF List!Create
<1>2. hour \in Nat /\ MaxTime \in Nat /\ hour' \in 1 .. MaxTime /\ hour + 1 \in Nat /\ hour + 1 # 0
  BY <1>1 DEF ListsSensible, ListTypes
<1>3. key'[r] = hour + 1 /\ \A s \in List!Rows : s # r => key'[s] = key[s]
  BY <1>1 DEF ListTypes
<1>4. \A s \in List!Rows : key'[s] <= hour'
  BY <1>1, <1>2, <1>3 DEF ListTypes
<1>5. List!There' = List!There \cup {r} /\ r \notin List!There
  BY <1>1, <1>2, <1>3 DEF List!There
<1>6. ListTypes'
  BY <1>1, <1>2, <1>4, <1>5 DEF ListTypes
<1>7. at # r
  BY <1>1 DEF Placed, ListsSensible, List!Rows
<1>8. \A s \in List!There : s \in List!Rows /\ s # r /\ (List!After(s)' <=> List!After(s))
  BY <1>1, <1>3, <1>5, <1>7 DEF List!After, List!Precedes, List!Older, List!There, ListTypes
<1>9. whole \subseteq List!There
  BY DEF ListTypes
<1>10. Placed'
  BY <1>1, <1>5 DEF Placed
<1> QED
  BY <1>1, <1>6, <1>8, <1>9, <1>10 DEF Covered, Once

(* A row changes its place in a list ordered by changes.                   *)
LEMMA UpdateKeeps ==
  ASSUME ListsSensible, ListInv, NEW r \in List!Rows, List!Update(r)
  PROVE  ListInv'
<1> USE DEF ListInv
<1>1. /\ hour < MaxTime /\ list \in List!ByChange /\ r \in List!There /\ hour' = hour + 1
      /\ key' = [key EXCEPT ![r] = hour + 1] /\ whole' = whole \ {r} /\ rewound' = (rewound \/ at = r)
      /\ UNCHANGED <<list, shown, at, more, reading, read, cut>>
  BY DEF List!Update
<1>2. hour \in Nat /\ MaxTime \in Nat /\ hour' \in 1 .. MaxTime /\ hour + 1 \in Nat /\ hour + 1 # 0
  BY <1>1 DEF ListsSensible, ListTypes
<1>3. key'[r] = hour + 1 /\ \A s \in List!Rows : s # r => key'[s] = key[s]
  BY <1>1 DEF ListTypes
<1>4. \A s \in List!Rows : key'[s] <= hour'
  BY <1>1, <1>2, <1>3 DEF ListTypes
<1>5. List!There' = List!There
  BY <1>1, <1>2, <1>3 DEF List!There
<1>6. ListTypes'
  BY <1>1, <1>2, <1>4, <1>5 DEF ListTypes
<1>7. whole \subseteq List!There /\ whole \subseteq List!Rows
  BY DEF ListTypes, List!There
<1>8. Placed'
  BY <1>1, <1>5 DEF Placed
<1>9. CASE at # r
  <2>1. \A s \in whole' : s # r /\ s \in List!Rows /\ (List!After(s)' <=> List!After(s))
    BY <1>1, <1>3, <1>5, <1>7, <1>9 DEF List!After, List!Precedes, List!Older, ListTypes
  <2> QED
    BY <1>1, <1>6, <1>8, <1>9, <2>1 DEF Covered, Once
<1>10. CASE at = r
  <2>1. list # "users" /\ list \notin List!Ascending
    BY <1>1 DEF List!ByChange, List!Ascending
  <2>2. ASSUME NEW s \in whole' PROVE List!After(s)'
    <3>1. s # r /\ s \in List!Rows /\ key'[s] = key[s] /\ key[s] <= hour /\ key[s] \in Nat
      BY <1>1, <1>3, <1>7 DEF ListTypes
    <3>2. key'[s] < key'[r]
      BY <1>2, <1>3, <3>1
    <3>3. List!Older(s, r)'
      BY <3>2 DEF List!Older
    <3>4. list' # "users" /\ list' \notin List!Ascending
      BY <1>1, <2>1
    <3>5. List!Precedes(r, s)'
      BY <3>3, <3>4 DEF List!Precedes
    <3> QED
      BY <1>1, <1>5, <1>10, <3>5 DEF List!After
  <2>3. Once'
    BY <1>1, <1>10 DEF Once
  <2>4. Covered'
    BY <1>1, <2>2 DEF Covered
  <2> QED
    BY <1>6, <1>8, <2>3, <2>4
<1> QED
  BY <1>9, <1>10

(* A row goes; nothing comes after it, but for users.                      *)
LEMMA DeleteKeeps ==
  ASSUME ListsSensible, ListInv, NEW r \in List!Rows, List!Delete(r)
  PROVE  ListInv'
<1> USE DEF ListInv
<1>1. /\ hour < MaxTime /\ r \in List!There /\ hour' = hour + 1
      /\ key' = [key EXCEPT ![r] = 0] /\ shown' = shown \ {r} /\ whole' = whole \ {r}
      /\ cut' = (cut \/ (at = r /\ list # "users"))
      /\ UNCHANGED <<list, at, more, reading, read, rewound>>
  BY DEF List!Delete
<1>2. hour \in Nat /\ MaxTime \in Nat /\ hour' \in 1 .. MaxTime
  BY <1>1 DEF ListsSensible, ListTypes
<1>3. key'[r] = 0 /\ \A s \in List!Rows : s # r => key'[s] = key[s]
  BY <1>1 DEF ListTypes
<1>4. \A s \in List!Rows : key'[s] <= hour'
  BY <1>1, <1>2, <1>3 DEF ListTypes
<1>5. List!There' = List!There \ {r}
  BY <1>1, <1>3 DEF List!There
<1>6. ListTypes'
  BY <1>1, <1>2, <1>4, <1>5 DEF ListTypes
<1>7. whole \subseteq List!There /\ whole \subseteq List!Rows
  BY DEF ListTypes, List!There
<1>8. Placed'
  BY <1>1, <1>5 DEF Placed
<1>9. CASE at # r \/ list = "users"
  <2>1. \A s \in whole' : s # r /\ s \in List!Rows /\ (List!After(s)' <=> List!After(s))
    <3>1. CASE at # r
      BY <1>1, <1>3, <1>5, <1>7, <3>1 DEF List!After, List!Precedes, List!Older, ListTypes
    <3>2. CASE list = "users"
      <4>1. list \notin List!Ascending /\ list' = list
        BY <1>1, <3>2 DEF List!Ascending
      <4>2. \A a, b : List!Precedes(a, b)' <=> List!Precedes(a, b)
        BY <3>2, <4>1 DEF List!Precedes
      <4> QED
        BY <1>1, <1>7, <3>2, <4>2 DEF List!After
    <3> QED
      BY <1>9, <3>1, <3>2
  <2> QED
    BY <1>1, <1>6, <1>8, <2>1 DEF Covered, Once
<1>10. CASE at = r /\ list # "users"
  <2>1. cut' /\ at' = r /\ list' = list /\ r \notin List!There' /\ r # None
    BY <1>1, <1>5, <1>10 DEF ListsSensible, List!Rows
  <2>2. \A s : ~List!After(s)'
    BY <1>10, <2>1 DEF List!After
  <2>3. Once'
    BY <1>1, <2>2 DEF Once
  <2>4. Covered'
    BY <2>1 DEF Covered
  <2> QED
    BY <1>6, <1>8, <2>3, <2>4
<1> QED
  BY <1>9, <1>10

(* A row leaves the list and stays in the table.                           *)
LEMMA HideKeeps ==
  ASSUME ListsSensible, ListInv, NEW r \in List!Rows, List!Hide(r)
  PROVE  ListInv'
<1> USE DEF ListInv
<1>1. /\ shown' = shown \ {r} /\ whole' = whole \ {r}
      /\ UNCHANGED <<list, key, hour, at, more, reading, read, cut, rewound>>
  BY DEF List!Hide
<1>2. List!There' = List!There /\ \A s : List!After(s)' <=> List!After(s)
  BY <1>1 DEF List!After, List!Precedes, List!Older, List!There
<1>3. ListTypes' /\ Placed'
  BY <1>1, <1>2 DEF ListTypes, Placed
<1> QED
  BY <1>1, <1>2, <1>3 DEF Covered, Once

(* Every step keeps the invariant ...                                      *)
LEMMA ListKeeps == ListsSensible /\ ListInv /\ [List!Next]_(List!vars) => ListInv'
<1> SUFFICES ASSUME ListsSensible, ListInv, [List!Next]_(List!vars) PROVE ListInv'
  OBVIOUS
<1>1. CASE UNCHANGED List!vars
  <2>1. UNCHANGED <<list, key, shown, hour, at, more, reading, read, whole, cut, rewound>>
    BY <1>1 DEF List!vars
  <2>2. List!There' = List!There /\ \A s : List!After(s)' <=> List!After(s)
    BY <2>1 DEF List!After, List!Precedes, List!Older, List!There
  <2> QED
    BY <2>1, <2>2 DEF ListInv, ListTypes, Placed, Covered, Once
<1> QED
  BY <1>1, ReadKeeps, CreateKeeps, UpdateKeeps, DeleteKeeps, HideKeeps DEF List!Next

(* ... which holds when a reader begins.                                   *)
LEMMA ListInit == ListsSensible /\ List!Init => ListInv
<1> SUFFICES ASSUME ListsSensible, List!Init PROVE ListInv
  OBVIOUS
<1> USE DEF List!Init
<1>1. \A r \in List!Rows : key[r] \in 0 .. 1
  OBVIOUS
<1>2. key \in [List!Rows -> Nat] /\ (\A r \in List!Rows : key[r] <= 1) /\ hour \in 1 .. MaxTime
  BY <1>1 DEF ListsSensible
<1>3. ListTypes
  BY <1>2 DEF ListTypes
<1>4. \A r \in List!Rows : read[r] = 0 /\ List!After(r)
  BY DEF List!After
<1>5. whole \subseteq List!Rows
  BY DEF List!There
<1> QED
  BY <1>3, <1>4, <1>5 DEF ListInv, Placed, Covered, Once

(* Whatever rows come, change, go and are hidden while a client reads a    *)
(* list page by page: at the end it was told of every row that was there   *)
(* all the while, and of none twice, unless the row it named was deleted   *)
(* or moved meanwhile (src/db/notebooks.py:109 and 1271).                  *)
THEOREM PagesCoverTheirList ==
  ASSUME ListsSensible
  PROVE  List!Spec => []PagesCover
<1>1. List!Init => ListInv
  BY ListInit
<1>2. ListInv /\ [List!Next]_(List!vars) => ListInv'
  BY ListKeeps
<1>3. ListInv => PagesCover
  <2> SUFFICES ASSUME ListInv PROVE PagesCover
    OBVIOUS
  <2> USE DEF ListInv
  <2>1. List!TypeOK
    <3>1. ASSUME NEW r \in List!Rows PROVE key[r] \in 0 .. MaxTime
      <4>1. key[r] \in Nat /\ key[r] <= hour /\ hour \in Nat /\ hour <= MaxTime
        BY DEF ListTypes, ListsSensible
      <4> QED
        BY <4>1 DEF ListsSensible
    <3> QED
      BY <3>1 DEF List!TypeOK, ListTypes
  <2>2. List!PagesCover
    <3> SUFFICES ASSUME ~reading, NEW r \in whole PROVE (read[r] >= 1 \/ cut) /\ (read[r] <= 1 \/ rewound)
      BY DEF List!PagesCover
    <3>1. read[r] \in Nat
      BY DEF ListTypes, List!There
    <3>2. (read[r] # 0 \/ cut) /\ (read[r] \in {0, 1} \/ rewound)
      BY DEF Covered, Once
    <3> QED
      BY <3>1, <3>2
  <2> QED
    BY <2>1, <2>2 DEF PagesCover
<1> QED
  BY <1>1, <1>2, <1>3, PTL DEF List!Spec
=============================================================================
