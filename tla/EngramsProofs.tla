---------------------------- MODULE EngramsProofs ----------------------------
(***************************************************************************)
(* Proofs that the optimistic checks of the engram endpoints do what their *)
(* clients rely on, for any number of clients and items.                   *)
(***************************************************************************)
EXTENDS Engrams, FiniteSetTheorems, TLAPS

(* The row lock of the notebook serialises writers: what the one holding   *)
(* it has read and checked still stands.                                   *)
Serial ==
  \A c \in Clients : pc[c] = "locked" =>
    /\ holder = {c}
    /\ mine[c] = [row |-> item, parent |-> current, next |-> Len(parents) + 1]
    /\ op[c] \in Requests(c)
    /\ ~ Conflict(c, op[c])

(* Only an item that does not exist has lock version zero.                 *)
Rows == \A i \in Items : IF i \in Born THEN item[i].lock > 0 ELSE item[i] = Absent

(* A revision that is still current pins the accepted items ...            *)
RevisionPins ==
  \A c \in Clients :
    /\ page[c].rev <= revision
    /\ page[c].full /\ page[c].rev = revision => SeenAccepted(c) /\ page[c].cut \subseteq Accepted

(* ... and a lock version that is still current pins its item.             *)
LockPins ==
  \A c \in Clients : \A i \in Shown(c) :
    /\ page[c].row[i].lock > 0
    /\ page[c].row[i].lock <= item[i].lock
    /\ page[c].row[i].lock = item[i].lock => page[c].row[i] = item[i]

Superseded == \A i \in once : item[i].status \in {"superseded", "resolved"}

IInv ==
  /\ TypeOK /\ Serial /\ Rows /\ RevisionPins /\ LockPins
  /\ SnapshotChain /\ TimelineCounts /\ Superseded

-----------------------------------------------------------------------------
(* What every commit does: it moves the revision forward, the lock version *)
(* of the items S it changes by one, and releases the row.                 *)
Moves(c, S, n) ==
  /\ pc[c] = "locked"
  /\ S \subseteq Items /\ n \in Nat \ {0}
  /\ StepRevision(n) /\ Log(S)
  /\ item' \in [Items -> Row]
  /\ \A i \in Items :
       IF i \in S THEN item'[i].lock = item[i].lock + 1 /\ item'[i].status # "unborn"
                  ELSE item'[i] = item[i]
  /\ Release(c)

(* A well-formed request, which carries only what its user was shown.      *)
Sound(c, q) ==
  /\ q \in Requested
  /\ q.rev => page[c].full /\ q.kind \in {"create", "decide", "snapshot"}
  /\ q.lock => q.on \subseteq Shown(c) /\ q.kind \in {"revise", "resolve", "supersede"}
  /\ q.kind # "snapshot" => q.on # {}
  /\ q.kind = "create" => q.to # "unborn"
  /\ q.kind = "decide" => q.to \in {"accepted", "rejected"}

(* The endpoints let through well-formed requests only.                    *)
LEMMA RequestsSound ==
  ASSUME NEW c \in Clients, NEW q \in Requests(c)
  PROVE  Sound(c, q)
BY DEF Sound, Requests, Endpoints, One, Requested, Statuses

LEMMA InitIInv == Init => IInv
BY EngramConstantsAssumption
   DEF Init, IInv, TypeOK, Serial, Rows, RevisionPins, LockPins, SnapshotChain, TimelineCounts,
       Superseded, Row, Statuses, Absent, NoRequest, NoRead, Requested, Shown, Born,
       SeenAccepted, Accepted

(* Once the handler that holds the row is done, no handler holds it.       *)
LEMMA ReleaseSerial ==
  ASSUME TypeOK, Serial, NEW c \in Clients, pc[c] = "locked", Release(c)
  PROVE  /\ Serial'
         /\ holder' \subseteq Clients
         /\ pc' \in [Clients -> {"idle", "reading", "locked"}]
         /\ op' \in [Clients -> Requested]
         /\ mine' \in [Clients -> [row : [Items -> Row], parent : Nat, next : Nat]]
         /\ page' = page
<1>1. \A d \in Clients : pc[d] = "locked" => d = c
  BY DEF Serial
<1>2. \A d \in Clients : pc'[d] # "locked"
  BY <1>1 DEF Release, TypeOK
<1>3. NoRequest \in Requested /\ NoRead \in [row : [Items -> Row], parent : Nat, next : Nat]
  BY DEF NoRequest, NoRead, Requested, Statuses, Row, Absent
<1>4. Serial'
  BY <1>2 DEF Serial
<1> QED
  BY <1>3, <1>4 DEF Release, TypeOK

(* A commit keeps everything that is said of items and of pages.           *)
LEMMA MovesKeep ==
  ASSUME IInv, NEW c \in Clients, NEW S, NEW n, Moves(c, S, n)
  PROVE  /\ revision' \in 0..MaxRevision /\ logged' \in Nat /\ about' \in [Items -> Nat]
         /\ Rows' /\ RevisionPins' /\ LockPins' /\ TimelineCounts'
<1> USE DEF IInv
<1>1. /\ revision \in Nat /\ logged \in Nat /\ about \in [Items -> Nat]
      /\ item \in [Items -> Row]
      /\ \A i \in Items : item[i].lock \in Nat
      /\ \A d \in Clients : page[d].rev \in Nat
      /\ \A d \in Clients : \A i \in Items : page[d].row[i].lock \in Nat
  BY DEF TypeOK, Row
<1>2. /\ n \in Nat \ {0} /\ revision' = revision + n /\ revision' <= MaxRevision
      /\ logged' = logged + n /\ page' = page
  BY DEF Moves, StepRevision, Release
<1>3. \A i \in Items : about'[i] = IF i \in S THEN about[i] + 1 ELSE about[i]
  BY DEF Moves, Log
<1>4. \A i \in Items :
        IF i \in S THEN item'[i].lock = item[i].lock + 1 /\ item'[i].status # "unborn"
                   ELSE item'[i] = item[i]
  BY DEF Moves
<1>5. revision' \in 0..MaxRevision /\ logged' \in Nat
  BY <1>1, <1>2, EngramConstantsAssumption
<1>6. about' \in [Items -> Nat]
  BY <1>1 DEF Moves, Log
<1>7. Rows'
  BY <1>1, <1>4 DEF Rows, Born
<1>8. \A d \in Clients : page'[d].rev <= revision' /\ page'[d].rev # revision'
  BY <1>1, <1>2 DEF RevisionPins
<1>9. RevisionPins'
  BY <1>8 DEF RevisionPins
<1>10. ASSUME NEW d \in Clients, NEW i \in Shown(d)
       PROVE  /\ page'[d].row[i].lock > 0
              /\ page'[d].row[i].lock <= item'[i].lock
              /\ page'[d].row[i].lock = item'[i].lock => page'[d].row[i] = item'[i]
  <2>1. i \in Items
    BY DEF Shown
  <2>2. /\ page[d].row[i].lock > 0
        /\ page[d].row[i].lock <= item[i].lock
        /\ page[d].row[i].lock = item[i].lock => page[d].row[i] = item[i]
    BY DEF LockPins
  <2> QED
    BY <1>1, <1>2, <1>4, <2>1, <2>2
<1>11. \A d \in Clients : Shown(d)' = Shown(d)
  BY <1>2 DEF Shown
<1>12. LockPins'
  BY <1>10, <1>11 DEF LockPins
<1>13. TimelineCounts'
  BY <1>1, <1>2, <1>3, <1>4 DEF TimelineCounts
<1> QED
  BY <1>5, <1>6, <1>7, <1>9, <1>12, <1>13

(* What the invariant says of a handler about to commit.                   *)
LEMMA AboutToCommit ==
  ASSUME IInv, NEW c \in Clients, pc[c] = "locked"
  PROVE  /\ Sound(c, op[c]) /\ ~ Conflict(c, op[c])
         /\ op[c].on \subseteq Items
         /\ mine[c] = [row |-> item, parent |-> current, next |-> Len(parents) + 1]
         /\ \A i \in Items : item[i] \in Row
BY RequestsSound DEF IInv, Serial, Sound, Requested, TypeOK

(* An update of a row.                                                     *)
LEMMA EditedRow ==
  ASSUME NEW r \in Row, NEW s \in Statuses, NEW v \in Nat
  PROVE  Edited(r, s, v) \in Row /\ Edited(r, s, v).status = s
         /\ Edited(r, s, v).lock = r.lock + 1
BY DEF Edited, Row

(* Every commit moves the lock versions, and leaves the superseded items   *)
(* and the chain of snapshots in order.                                    *)
Kept ==
  /\ current' \in Nat /\ parents' \in Seq(Nat) /\ once' \subseteq Items
  /\ SnapshotChain' /\ Superseded'

LEMMA CreateKeeps ==
  ASSUME IInv, NEW c \in Clients, CommitCreate(c)
  PROVE  Moves(c, op[c].on, 1) /\ Kept
<1> DEFINE q == op[c]
<1>1. pc[c] = "locked" /\ q.kind = "create" /\ Release(c) /\ StepRevision(1) /\ Log(q.on)
  BY DEF CommitCreate, Locked
<1>2. q.on \subseteq Items /\ q.on \cap Born = {} /\ q.to \in Statuses \ {"unborn"}
  BY <1>1, AboutToCommit DEF Conflict, Sound, Requested
<1>3. /\ item' \in [Items -> Row]
      /\ \A i \in Items :
           IF i \in q.on THEN item'[i].lock = item[i].lock + 1 /\ item'[i].status # "unborn"
                         ELSE item'[i] = item[i]
  BY <1>2 DEF CommitCreate, NewRow, Row, IInv, TypeOK, Rows, Born, Absent, Statuses
<1>4. Moves(c, q.on, 1)
  BY <1>1, <1>2, <1>3 DEF Moves
<1>5. Superseded'
  BY <1>2, <1>3 DEF CommitCreate, IInv, TypeOK, Superseded, Born
<1>6. UNCHANGED <<current, parents, once>>
  BY DEF CommitCreate
<1> QED
  BY <1>4, <1>5, <1>6 DEF Kept, IInv, TypeOK, SnapshotChain

LEMMA DecideKeeps ==
  ASSUME IInv, NEW c \in Clients, CommitDecide(c)
  PROVE  Moves(c, op[c].on, Cardinality(op[c].on)) /\ Kept
<1> DEFINE q == op[c]
<1>1. /\ pc[c] = "locked" /\ q.kind = "decide" /\ Release(c)
      /\ StepRevision(Cardinality(q.on)) /\ Log(q.on)
  BY DEF CommitDecide, Locked
<1>2. /\ q.on \subseteq Items /\ q.on # {} /\ q.to \in {"accepted", "rejected"}
      /\ \A i \in q.on : item[i].status \in Decidable
      /\ \A i \in Items : item[i] \in Row
  BY <1>1, AboutToCommit DEF Conflict, Sound
<1>3. Cardinality(q.on) \in Nat \ {0}
  <2>1. IsFiniteSet(q.on)
    BY <1>2, FS_Subset, EngramConstantsAssumption
  <2> QED
    BY <1>2, <2>1, FS_CardinalityType, FS_EmptySet
<1>4. /\ item' \in [Items -> Row]
      /\ \A i \in Items :
           IF i \in q.on THEN item'[i].lock = item[i].lock + 1 /\ item'[i].status # "unborn"
                         ELSE item'[i] = item[i]
  <2>0. \A i \in Items : item[i].version \in Nat
    BY <1>2 DEF Row
  <2>1. q.to \in Statuses /\ q.to # "unborn"
    BY <1>2 DEF Statuses
  <2>2. item' = [i \in Items |-> IF i \in q.on
                                THEN Edited(item[i], q.to, item[i].version)
                                ELSE item[i]]
    BY DEF CommitDecide
  <2> HIDE DEF q
  <2> QED
    BY <1>2, <2>1, <2>2, <2>0, EditedRow
<1>5. Moves(c, q.on, Cardinality(q.on))
  BY <1>1, <1>2, <1>3, <1>4 DEF Moves
<1>6. Superseded'
  BY <1>2, <1>4 DEF CommitDecide, IInv, TypeOK, Superseded, Decidable
<1>7. UNCHANGED <<current, parents, once>>
  BY DEF CommitDecide
<1> QED
  BY <1>5, <1>6, <1>7 DEF Kept, IInv, TypeOK, SnapshotChain

LEMMA ReviseKeeps ==
  ASSUME IInv, NEW c \in Clients, CommitRevise(c)
  PROVE  Moves(c, op[c].on, 1) /\ Kept
<1> DEFINE q == op[c]
<1>1. pc[c] = "locked" /\ q.kind = "revise" /\ Release(c) /\ StepRevision(1) /\ Log(q.on)
  BY DEF CommitRevise, Locked
<1>2. /\ q.on \subseteq Items /\ q.on \subseteq Born
      /\ \A i \in Items : item[i] \in Row
      /\ mine[c].row = item
  BY <1>1, AboutToCommit DEF Conflict
<1>3. /\ item' \in [Items -> Row]
      /\ \A i \in Items :
           IF i \in q.on THEN item'[i].lock = item[i].lock + 1 /\ item'[i].status # "unborn"
                         ELSE item'[i] = item[i]
      /\ \A i \in Items : item'[i].status = item[i].status
  <2>0. \A i \in Items : item[i].version \in Nat /\ item[i].status \in Statuses
    BY <1>2 DEF Row
  <2>1. \A i \in Items : item[i].version + 1 \in Nat
    BY <1>2 DEF Row
  <2>2. item' = [i \in Items |-> IF i \in q.on
                                THEN Edited(item[i], item[i].status, item[i].version + 1)
                                ELSE item[i]]
    BY <1>2 DEF CommitRevise
  <2> HIDE DEF q
  <2> QED
    BY <1>2, <2>1, <2>2, <2>0, EditedRow DEF Born
<1>4. Moves(c, q.on, 1)
  BY <1>1, <1>2, <1>3 DEF Moves
<1>5. UNCHANGED <<current, parents, once>>
  BY DEF CommitRevise
<1>6. Superseded'
  BY <1>3, <1>5 DEF IInv, TypeOK, Superseded
<1> QED
  BY <1>4, <1>5, <1>6 DEF Kept, IInv, TypeOK, SnapshotChain

LEMMA ResolveKeeps ==
  ASSUME IInv, NEW c \in Clients, CommitResolve(c)
  PROVE  Moves(c, op[c].on, 1) /\ Kept
<1> DEFINE q == op[c]
<1>1. pc[c] = "locked" /\ q.kind = "resolve" /\ Release(c) /\ StepRevision(1) /\ Log(q.on)
  BY DEF CommitResolve, Locked
<1>2. q.on \subseteq Items /\ (\A i \in Items : item[i] \in Row)
  BY <1>1, AboutToCommit
<1>3. /\ item' \in [Items -> Row]
      /\ \A i \in Items :
           IF i \in q.on THEN item'[i].lock = item[i].lock + 1 /\ item'[i].status = "resolved"
                         ELSE item'[i] = item[i]
  <2>0. \A i \in Items : item[i].version \in Nat
    BY <1>2 DEF Row
  <2>1. "resolved" \in Statuses
    BY DEF Statuses
  <2>2. item' = [i \in Items |-> IF i \in q.on
                                THEN Edited(item[i], "resolved", item[i].version)
                                ELSE item[i]]
    BY DEF CommitResolve
  <2> HIDE DEF q
  <2> QED
    BY <1>2, <2>1, <2>2, <2>0, EditedRow
<1>4. Moves(c, q.on, 1)
  BY <1>1, <1>2, <1>3 DEF Moves
<1>5. UNCHANGED <<current, parents, once>>
  BY DEF CommitResolve
<1>6. Superseded'
  BY <1>3, <1>5 DEF IInv, TypeOK, Superseded
<1> QED
  BY <1>4, <1>5, <1>6 DEF Kept, IInv, TypeOK, SnapshotChain

LEMMA SupersedeKeeps ==
  ASSUME IInv, NEW c \in Clients, NEW r \in Items, CommitSupersede(c, r)
  PROVE  Moves(c, op[c].on \cup {r}, 2) /\ Kept
<1> DEFINE q == op[c]
<1>1. /\ pc[c] = "locked" /\ q.kind = "supersede" /\ Release(c)
      /\ StepRevision(2) /\ Log(q.on \cup {r}) /\ r \notin Born
  BY DEF CommitSupersede, Locked
<1>2. /\ q.on \subseteq Items /\ q.on \subseteq Born
      /\ \A i \in Items : item[i] \in Row
  BY <1>1, AboutToCommit DEF Conflict
<1>3. /\ item' \in [Items -> Row]
      /\ \A i \in Items :
           /\ i = r => item'[i].lock = item[i].lock + 1 /\ item'[i].status = "accepted"
           /\ i \in q.on => item'[i].lock = item[i].lock + 1 /\ item'[i].status = "superseded"
           /\ i \notin q.on \cup {r} => item'[i] = item[i]
  <2>0. \A i \in Items : item[i].version \in Nat
    BY <1>2 DEF Row
  <2>1. "superseded" \in Statuses /\ NewRow("accepted") \in Row
        /\ NewRow("accepted").lock = 1 /\ NewRow("accepted").status = "accepted"
    BY DEF Statuses, NewRow, Row
  <2>2. item' = [i \in Items |-> IF i = r THEN NewRow("accepted")
                                ELSE IF i \in q.on
                                THEN Edited(item[i], "superseded", item[i].version)
                                ELSE item[i]]
    BY DEF CommitSupersede
  <2>3. item[r].lock = 0 /\ r \notin q.on
    BY <1>1, <1>2 DEF IInv, Rows, Absent
  <2> HIDE DEF q
  <2> QED
    BY <1>2, <2>1, <2>2, <2>3, <2>0, EditedRow
<1>4. Moves(c, q.on \cup {r}, 2)
  BY <1>1, <1>2, <1>3 DEF Moves
<1>5. current' = current /\ parents' = parents /\ once' = once \cup q.on
  BY DEF CommitSupersede
<1>6. Superseded'
  <2>1. r \notin once
    BY <1>1 DEF IInv, Superseded, Born
  <2>2. \A i \in once : i \in Items
    BY DEF IInv, TypeOK
  <2> QED
    BY <1>2, <1>3, <1>5, <2>1, <2>2 DEF IInv, Superseded
<1> QED
  BY <1>2, <1>4, <1>5, <1>6 DEF Kept, IInv, TypeOK, SnapshotChain

LEMMA SnapshotKeeps ==
  ASSUME IInv, NEW c \in Clients, CommitSnapshot(c)
  PROVE  Moves(c, {}, 1) /\ Kept
<1>1. pc[c] = "locked" /\ Release(c) /\ StepRevision(1)
  BY DEF CommitSnapshot, Locked
<1>2. mine[c].next = Len(parents) + 1 /\ mine[c].parent = current
  BY <1>1, AboutToCommit
<1>3. UNCHANGED <<item, about, once>>
  BY DEF CommitSnapshot
<1>4. Moves(c, {}, 1)
  BY <1>1, <1>3 DEF Moves, Log, IInv, TypeOK
<1>5. parents \in Seq(Nat) /\ current = Len(parents) /\ current \in Nat
      /\ \A n \in 1..Len(parents) : parents[n] = n - 1
  BY DEF IInv, TypeOK, SnapshotChain
<1>6. parents' = Append(parents, current) /\ current' = Len(parents) + 1
  BY <1>2 DEF CommitSnapshot
<1>7. parents' \in Seq(Nat) /\ current' \in Nat /\ SnapshotChain'
  BY <1>5, <1>6 DEF SnapshotChain
<1>8. Superseded' /\ once' \subseteq Items
  BY <1>3 DEF IInv, TypeOK, Superseded
<1> QED
  BY <1>4, <1>7, <1>8 DEF Kept

(* Handlers that only read leave the tables alone, and what they show is   *)
(* what is there.                                                          *)
LEMMA ShowingKeeps ==
  ASSUME IInv, NEW c \in Clients, pc[c] # "locked",
         NEW p \in [full : BOOLEAN, rev : Nat, cut : SUBSET Items, row : [Items -> Row]],
         NEW s \in {"idle", "reading"},
         page' = [page EXCEPT ![c] = p], pc' = [pc EXCEPT ![c] = s],
         UNCHANGED <<table, holder, op, mine>>,
         p.rev <= revision,
         p.full /\ p.rev = revision =>
           /\ p.cut \subseteq Accepted
           /\ \A i \in Items : IF p.row[i].status = "accepted" THEN item[i] = p.row[i]
                              ELSE i \in Accepted => i \in p.cut,
         \A i \in Items : p.row[i].status # "unborn" =>
           /\ p.row[i].lock > 0
           /\ p.row[i].lock <= item[i].lock
           /\ p.row[i].lock = item[i].lock => p.row[i] = item[i]
  PROVE  IInv'
<1> USE DEF IInv, table
<1>1. \A d \in Clients : page'[d] = IF d = c THEN p ELSE page[d]
  BY DEF TypeOK
<1>2. \A d \in Clients : pc'[d] = "locked" => pc[d] = "locked" /\ d # c
  BY DEF TypeOK
<1>3. /\ item' = item /\ revision' = revision /\ Accepted' = Accepted /\ Born' = Born
      /\ op' = op /\ mine' = mine /\ holder' = holder
      /\ current' = current /\ parents' = parents
  BY DEF Accepted, Born
<1>4. ASSUME NEW d \in Clients, pc'[d] = "locked"
      PROVE  /\ holder' = {d}
             /\ mine'[d] = [row |-> item', parent |-> current', next |-> Len(parents') + 1]
             /\ (op[d] \in Requests(d))' /\ ~ Conflict(d, op[d])'
  <2>1. page'[d] = page[d] /\ pc[d] = "locked"
    BY <1>1, <1>2, <1>4
  <2>2. (op[d] \in Requests(d))' <=> op[d] \in Requests(d)
    BY <2>1, <1>3 DEF Requests, Shown
  <2>3. Conflict(d, op[d])' <=> Conflict(d, op[d])
    BY <2>1, <1>3 DEF Conflict
  <2> QED
    BY <2>1, <2>2, <2>3, <1>3 DEF Serial
<1>5. Serial'
  BY <1>4 DEF Serial
<1>6. TypeOK'
  BY DEF TypeOK
<1>7. RevisionPins'
  <2>1. \A d \in Clients : d # c => (SeenAccepted(d)' <=> SeenAccepted(d))
    BY <1>1, <1>3 DEF SeenAccepted
  <2>2. SeenAccepted(c)' <=>
          \A i \in Items : IF p.row[i].status = "accepted" THEN item[i] = p.row[i]
                            ELSE i \in Accepted => i \in p.cut
    BY <1>1, <1>3 DEF SeenAccepted
  <2> QED
    BY <1>1, <1>3, <2>1, <2>2 DEF RevisionPins
<1>8. LockPins'
  BY <1>1, <1>3 DEF LockPins, Shown
<1>9. Rows' /\ SnapshotChain' /\ TimelineCounts' /\ Superseded'
  BY DEF Rows, Born, SnapshotChain, TimelineCounts, Superseded
<1> QED
  BY <1>5, <1>6, <1>7, <1>8, <1>9

LEMMA ReadRevisionKeeps ==
  ASSUME IInv, NEW c \in Clients, ReadRevision(c)
  PROVE  IInv'
<1> DEFINE p == [full |-> FALSE, rev |-> revision, cut |-> {}, row |-> [i \in Items |-> Absent]]
<1>1. /\ pc[c] # "locked" /\ page' = [page EXCEPT ![c] = p]
      /\ pc' = [pc EXCEPT ![c] = "reading"] /\ UNCHANGED <<table, holder, op, mine>>
  BY DEF ReadRevision
<1>2. p \in [full : BOOLEAN, rev : Nat, cut : SUBSET Items, row : [Items -> Row]]
  BY DEF IInv, TypeOK, Absent, Row, Statuses
<1>3. ~ p.full /\ p.rev = revision /\ \A i \in Items : p.row[i].status = "unborn"
  BY DEF Absent
<1>4. p.rev <= revision
  BY <1>3 DEF IInv, TypeOK
<1> HIDE DEF p
<1> QED
  BY <1>1, <1>2, <1>3, <1>4, ShowingKeeps

LEMMA ReadAcceptedKeeps ==
  ASSUME IInv, NEW c \in Clients, ReadAccepted(c)
  PROVE  IInv'
<1>1. PICK S \in SUBSET Accepted :
        page' = [page EXCEPT ![c] = [full |-> TRUE, rev |-> page[c].rev,
                                     cut |-> Accepted \ S, row |-> Listed(S)]]
  BY DEF ReadAccepted
<1> DEFINE p == [full |-> TRUE, rev |-> page[c].rev, cut |-> Accepted \ S, row |-> Listed(S)]
<1>2. /\ pc[c] # "locked" /\ page' = [page EXCEPT ![c] = p]
      /\ pc' = [pc EXCEPT ![c] = "idle"] /\ UNCHANGED <<table, holder, op, mine>>
  BY <1>1 DEF ReadAccepted
<1>3. S \subseteq Items /\ \A i \in Items : p.row[i] = IF i \in S THEN item[i] ELSE Absent
  BY DEF Listed, Accepted
<1>4. p \in [full : BOOLEAN, rev : Nat, cut : SUBSET Items, row : [Items -> Row]]
  BY DEF IInv, TypeOK, Absent, Row, Statuses, Accepted, Listed
<1>5. p.rev <= revision
  BY DEF IInv, RevisionPins
<1>6. /\ p.cut \subseteq Accepted
      /\ \A i \in Items : IF p.row[i].status = "accepted" THEN item[i] = p.row[i]
                         ELSE i \in Accepted => i \in p.cut
  BY <1>3 DEF Accepted, Absent
<1>7. \A i \in Items : p.row[i].status # "unborn" => p.row[i] = item[i] /\ i \in Born
  BY <1>3 DEF Accepted, Absent, Born
<1>8. \A i \in Born : item[i].lock > 0 /\ item[i].lock \in Nat
  BY DEF IInv, TypeOK, Row, Rows, Born
<1>9. \A i \in Items : p.row[i].status # "unborn" =>
        /\ p.row[i].lock > 0
        /\ p.row[i].lock <= item[i].lock
        /\ p.row[i].lock = item[i].lock => p.row[i] = item[i]
  BY <1>7, <1>8
<1> HIDE DEF p
<1> QED
  BY <1>2, <1>4, <1>5, <1>6, <1>9, ShowingKeeps

LEMMA ReadItemKeeps ==
  ASSUME IInv, NEW c \in Clients, NEW i \in Items, ReadItem(c, i)
  PROVE  IInv'
<1> DEFINE p == [full |-> page[c].full, rev |-> page[c].rev, cut |-> page[c].cut,
                 row |-> [page[c].row EXCEPT ![i] = item[i]]]
<1>1. page[c] \in [full : BOOLEAN, rev : Nat, cut : SUBSET Items, row : [Items -> Row]] /\ item[i] \in Row
  BY DEF IInv, TypeOK
<1>2. /\ pc[c] = "idle" /\ pc' = [pc EXCEPT ![c] = "idle"]
      /\ UNCHANGED <<table, holder, op, mine>> /\ i \in Born
  BY DEF ReadItem, IInv, TypeOK
<1>3. [page[c] EXCEPT !.row[i] = item[i]] = p
  BY <1>1
<1>4. page' = [page EXCEPT ![c] = p]
  BY <1>3 DEF ReadItem
<1>5. p \in [full : BOOLEAN, rev : Nat, cut : SUBSET Items, row : [Items -> Row]]
  BY <1>1
<1>6. p.full = page[c].full /\ p.rev = page[c].rev /\ p.cut = page[c].cut
      /\ \A k \in Items : p.row[k] = IF k = i THEN item[i] ELSE page[c].row[k]
  BY <1>1
<1>7. p.rev <= revision
  BY <1>6 DEF IInv, RevisionPins
<1>8. p.full /\ p.rev = revision =>
        /\ p.cut \subseteq Accepted
        /\ \A k \in Items : IF p.row[k].status = "accepted" THEN item[k] = p.row[k]
                           ELSE k \in Accepted => k \in p.cut
  <2>1. p.full /\ p.rev = revision => SeenAccepted(c) /\ page[c].cut \subseteq Accepted
    BY <1>6 DEF IInv, RevisionPins
  <2> HIDE DEF p
  <2> QED
    BY <1>6, <2>1 DEF SeenAccepted, Accepted
<1>9. \A k \in Items : p.row[k].status # "unborn" =>
        /\ p.row[k].lock > 0
        /\ p.row[k].lock <= item[k].lock
        /\ p.row[k].lock = item[k].lock => p.row[k] = item[k]
  <2>1. item[i].lock > 0 /\ item[i].lock \in Nat
    BY <1>1, <1>2 DEF IInv, Rows, Row
  <2> HIDE DEF p
  <2> QED
    BY <1>6, <2>1 DEF IInv, LockPins, Shown
<1> HIDE DEF p
<1> QED
  BY <1>2, <1>4, <1>5, <1>7, <1>8, <1>9, ShowingKeeps

LEMMA LockKeeps ==
  ASSUME IInv, NEW c \in Clients, NEW q \in Requests(c), LockState(c, q)
  PROVE  IInv'
<1> USE DEF IInv
<1>1. /\ pc[c] = "idle" /\ holder = {} /\ ~ Conflict(c, q) /\ holder' = {c}
      /\ pc' = [pc EXCEPT ![c] = "locked"] /\ op' = [op EXCEPT ![c] = q]
      /\ mine' = [mine EXCEPT ![c] = [row |-> item, parent |-> current,
                                      next |-> Len(parents) + 1]]
  BY DEF LockState
<1>2. /\ revision' = revision /\ current' = current /\ item' = item /\ parents' = parents
      /\ logged' = logged /\ about' = about /\ once' = once /\ page' = page
  BY DEF LockState, table
<1>3. q \in Requested
  BY RequestsSound DEF Sound
<1>4. [row |-> item, parent |-> current, next |-> Len(parents) + 1]
        \in [row : [Items -> Row], parent : Nat, next : Nat]
  BY DEF TypeOK
<1>5. TypeOK'
  BY <1>1, <1>2, <1>3, <1>4 DEF TypeOK
<1>6. \A d \in Clients : pc'[d] = "locked" => d = c
  BY <1>1 DEF Serial, TypeOK
<1>7. /\ op'[c] = q
      /\ mine'[c] = [row |-> item, parent |-> current, next |-> Len(parents) + 1]
  BY <1>1 DEF TypeOK
<1>8. (op[c] \in Requests(c))'
  BY <1>2, <1>7 DEF Requests, Shown
<1>9. ~ Conflict(c, op[c])'
  <2>1. Conflict(c, op[c])' <=> Conflict(c, q)
    BY <1>2, <1>7 DEF Conflict, Born
  <2> QED
    BY <1>1, <2>1
<1>10. Serial'
  BY <1>1, <1>2, <1>6, <1>7, <1>8, <1>9 DEF Serial
<1>11. RevisionPins' /\ LockPins' /\ Rows' /\ SnapshotChain' /\ TimelineCounts' /\ Superseded'
  BY <1>2 DEF RevisionPins, LockPins, Rows, SnapshotChain, TimelineCounts, Superseded,
              SeenAccepted, Accepted, Shown, Born
<1> QED
  BY <1>5, <1>10, <1>11

LEMMA AbortKeeps ==
  ASSUME IInv, NEW c \in Clients, Abort(c)
  PROVE  IInv'
<1>1. pc[c] = "locked" /\ Release(c)
  BY DEF Abort
<1>2. /\ revision' = revision /\ current' = current /\ item' = item /\ parents' = parents
      /\ logged' = logged /\ about' = about /\ once' = once
  BY DEF Abort, table
<1>3. Serial' /\ TypeOK' /\ page' = page
  BY <1>1, <1>2, ReleaseSerial DEF IInv, TypeOK
<1>4. RevisionPins' /\ LockPins' /\ Rows' /\ SnapshotChain' /\ TimelineCounts' /\ Superseded'
  BY <1>2, <1>3 DEF IInv, RevisionPins, LockPins, Rows, SnapshotChain, TimelineCounts,
                    Superseded, SeenAccepted, Accepted, Shown, Born
<1> QED
  BY <1>3, <1>4 DEF IInv

(* Every commit preserves the invariant.                                   *)
LEMMA CommitKeeps ==
  ASSUME IInv, NEW c \in Clients, NEW S, NEW n, Moves(c, S, n), Kept
  PROVE  IInv'
<1>1. pc[c] = "locked" /\ Release(c) /\ item' \in [Items -> Row]
  BY DEF Moves
<1>2. /\ Serial' /\ holder' \subseteq Clients
      /\ pc' \in [Clients -> {"idle", "reading", "locked"}]
      /\ op' \in [Clients -> Requested]
      /\ mine' \in [Clients -> [row : [Items -> Row], parent : Nat, next : Nat]]
      /\ page' = page
  BY <1>1, ReleaseSerial DEF IInv
<1>3. /\ revision' \in 0..MaxRevision /\ logged' \in Nat /\ about' \in [Items -> Nat]
      /\ Rows' /\ RevisionPins' /\ LockPins' /\ TimelineCounts'
  BY MovesKeep
<1>4. TypeOK'
  BY <1>1, <1>2, <1>3 DEF Kept, IInv, TypeOK
<1> QED
  BY <1>2, <1>3, <1>4 DEF Kept, IInv

LEMMA NextIInv == IInv /\ [Next]_vars => IInv'
<1> SUFFICES ASSUME IInv, [Next]_vars PROVE IInv'
  OBVIOUS
<1>1. CASE UNCHANGED vars
  BY <1>1 DEF vars, table, IInv, TypeOK, Serial, Rows, RevisionPins, LockPins, SnapshotChain,
              TimelineCounts, Superseded, SeenAccepted, Accepted, Shown, Born, Conflict, Requests
<1>2. ASSUME NEW c \in Clients, ReadRevision(c) PROVE IInv'
  BY <1>2, ReadRevisionKeeps
<1>3. ASSUME NEW c \in Clients, ReadAccepted(c) PROVE IInv'
  BY <1>3, ReadAcceptedKeeps
<1>4. ASSUME NEW c \in Clients, NEW i \in Items, ReadItem(c, i) PROVE IInv'
  BY <1>4, ReadItemKeeps
<1>5. ASSUME NEW c \in Clients, NEW q \in Requests(c), LockState(c, q) PROVE IInv'
  BY <1>5, LockKeeps
<1>6. ASSUME NEW c \in Clients, Abort(c) PROVE IInv'
  BY <1>6, AbortKeeps
<1>7. ASSUME NEW c \in Clients, CommitCreate(c) PROVE IInv'
  BY <1>7, CreateKeeps, CommitKeeps
<1>8. ASSUME NEW c \in Clients, CommitDecide(c) PROVE IInv'
  BY <1>8, DecideKeeps, CommitKeeps
<1>9. ASSUME NEW c \in Clients, CommitRevise(c) PROVE IInv'
  BY <1>9, ReviseKeeps, CommitKeeps
<1>10. ASSUME NEW c \in Clients, CommitResolve(c) PROVE IInv'
  BY <1>10, ResolveKeeps, CommitKeeps
<1>11. ASSUME NEW c \in Clients, CommitSnapshot(c) PROVE IInv'
  BY <1>11, SnapshotKeeps, CommitKeeps
<1>12. ASSUME NEW c \in Clients, NEW r \in Items, CommitSupersede(c, r) PROVE IInv'
  BY <1>12, SupersedeKeeps, CommitKeeps
<1> QED
  BY <1>1, <1>2, <1>3, <1>4, <1>5, <1>6, <1>7, <1>8, <1>9, <1>10, <1>11, <1>12, Zenon DEF Next

-----------------------------------------------------------------------------
LEMMA Inductive == Spec => []IInv
<1> QED BY InitIInv, NextIInv, PTL DEF Spec

(* Every table, page and transaction keeps its type, the revision its      *)
(* bound.                                                                  *)
THEOREM TypeCorrect == Spec => []TypeOK
<1>1. IInv => TypeOK
  BY DEF IInv
<1> QED BY <1>1, Inductive, PTL

(* expected_revision pins the accepted items a user was shown: the check   *)
(* of batch_decide, create_item and create_snapshot against the revision   *)
(* is enough, though get_current reads in two transactions.                *)
THEOREM DecisionsPinned == Spec => []DecidedAsSeen
<1>1. ASSUME IInv, NEW c \in Clients, pc[c] = "locked", op[c].rev
      PROVE  SeenAccepted(c) /\ page[c].cut \subseteq Accepted
  <2>1. page[c].full
    BY <1>1, AboutToCommit DEF Sound
  <2>2. page[c].rev = revision
    BY <1>1, AboutToCommit DEF Conflict
  <2> QED
    BY <1>1, <2>1, <2>2 DEF IInv, RevisionPins
<1>2. IInv => DecidedAsSeen
  BY <1>1 DEF DecidedAsSeen
<1> QED BY <1>2, Inductive, PTL

(* expected_lock_version pins the item a user was shown: the check of      *)
(* revise_item, transition_item and supersede_item loses no edit.          *)
THEOREM EditsPinned == Spec => []EditedAsSeen
<1>1. ASSUME IInv, NEW c \in Clients, pc[c] = "locked", op[c].lock, NEW i \in op[c].on
      PROVE  item[i] = page[c].row[i]
  <2>1. i \in Shown(c)
    BY <1>1, AboutToCommit DEF Sound
  <2>2. page[c].row[i].lock = item[i].lock
    BY <1>1, AboutToCommit DEF Conflict
  <2> QED
    BY <1>1, <2>1, <2>2 DEF IInv, LockPins
<1>2. IInv => EditedAsSeen
  BY <1>1 DEF EditedAsSeen
<1> QED BY <1>2, Inductive, PTL

(* create_snapshot builds one chain, of which the newest is current.       *)
THEOREM SnapshotsChained == Spec => []SnapshotChain
<1>1. IInv => SnapshotChain
  BY DEF IInv
<1> QED BY <1>1, Inductive, PTL

(* The event log of _append_event accounts for revisions and items.        *)
THEOREM TimelineAccounts == Spec => []TimelineCounts
<1>1. IInv => TimelineCounts
  BY DEF IInv
<1> QED BY <1>1, Inductive, PTL

(* supersede_item is final as far as the current engram goes, whatever     *)
(* transition_item and batch_decide do afterwards.                         *)
THEOREM SupersededStaysOut == Spec => []NeverCurrentAgain
<1>1. IInv => NeverCurrentAgain
  BY DEF IInv, Superseded, NeverCurrentAgain
<1> QED BY <1>1, Inductive, PTL
=============================================================================
