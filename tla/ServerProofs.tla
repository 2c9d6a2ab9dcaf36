------------------------- MODULE ServerProofs -------------------------------
(***************************************************************************)
(* Proofs about the server: that a summary and the pages after it leave    *)
(* nothing out of a conversation, that starts undo nothing, that logins    *)
(* are counted when a user comes back, that MCP sessions are known at      *)
(* every replica and that their calls are counted once.                    *)
(***************************************************************************)
EXTENDS Conversation, MCServer, FiniteSetTheorems, SequenceTheorems, TLAPS

(* What agents know lies below their cursors, summaries below the text.    *)
Places ==
  \A a \in Agents :
    /\ cursor[a] \in committed \cup {0}
    /\ goal[a] \subseteq committed
    /\ \A e \in Known(a) : e <= cursor[a]
    /\ \A t \in told[a], s \in seen[a] : t < s

(* Up to its cursor an agent knows everything, late events excepted ...    *)
Complete ==
  \A a \in Agents : \A e \in UpTo(cursor[a]) : e \in Known(a) \cup late

(* ... and so does every summary, up to its cutoff.                        *)
Summaries ==
  \A n \in 1..Len(compactions) :
    /\ compactions[n].cutoff \in committed
    /\ \A e \in compactions[n].covers : e <= compactions[n].cutoff
    /\ \A e \in UpTo(compactions[n].cutoff) : e \in compactions[n].covers \cup late

(* One transaction has the conversation's row, and keeps its cutoff alive. *)
Locked ==
  /\ \A a, b \in Agents : Holds(a) /\ Holds(b) => a = b
  /\ \A a \in Agents : Shares(a) => cursor[a] \in Live

IInv ==
  /\ TypeOK /\ Places /\ Complete /\ Summaries /\ Locked
  /\ NothingMissed /\ CountedAll /\ VersionFree

-----------------------------------------------------------------------------
(* The events up to a place are finitely many.                             *)
LEMMA UpToFinite ==
  ASSUME TypeOK, NEW c
  PROVE  IsFiniteSet(UpTo(c)) /\ Cardinality(UpTo(c)) \in Nat
<1>1. UpTo(c) \in SUBSET Events
  BY DEF TypeOK, UpTo, Live
<1>2. IsFiniteSet(Events)
  <2>1. 1 \in Int /\ MaxEvents \in Int
    BY SMT, ConversationConstantsAssumption
  <2> QED BY <2>1, FS_Interval DEF Events
<1>3. IsFiniteSet(UpTo(c))
  BY <1>1, <1>2, FS_Subset
<1> QED BY <1>3, FS_CardinalityType

(* A full page is not empty.                                               *)
LEMMA FullPage ==
  ASSUME NEW P, P = {}
  PROVE  Cardinality(P) < PageLimit
<1>1. Cardinality(P) = 0
  BY FS_EmptySet
<1> QED BY <1>1, ConversationConstantsAssumption

(* An appended event is late for everyone who has read past its place.     *)
LEMMA CreateEventKeeps ==
  ASSUME IInv, NEW x \in Events, CreateEvent(x)
  PROVE  IInv'
<1> USE DEF IInv, CreateEvent, events, reader
<1>1. TypeOK'
  BY DEF TypeOK
<1>2. Places'
  BY DEF Places, Known
<1>3. \A c \in committed \cup {0} : \A e \in UpTo(c)' : e \in UpTo(c) \/ e \in late'
  BY DEF UpTo, Live, TypeOK, Events
<1>4. late \subseteq late'
  OBVIOUS
<1>5. Complete'
  BY <1>3, <1>4 DEF Complete, Places, Known
<1>6. Summaries'
  BY <1>3, <1>4 DEF Summaries
<1>7. Locked'
  BY DEF Locked, Holds, Shares, Live
<1>8. NothingMissed'
  BY <1>4 DEF NothingMissed, Places, Live, Known
<1>9. CountedAll' /\ VersionFree'
  BY DEF CountedAll, VersionFree, RowFree, Holds
<1> QED BY <1>1, <1>2, <1>5, <1>6, <1>7, <1>8, <1>9

(* Deleting an event leaves less to know, and less to count.               *)
LEMMA TombstoneEventKeeps ==
  ASSUME IInv, NEW x \in Events, TombstoneEvent(x)
  PROVE  IInv'
<1> USE DEF IInv, TombstoneEvent, reader
<1>1. TypeOK'
  BY DEF TypeOK, Live
<1>2. Live' \subseteq Live /\ \A c : UpTo(c)' \subseteq UpTo(c)
  BY DEF Live, UpTo
<1>3. Places'
  BY DEF Places, Known
<1>4. Complete' /\ Summaries'
  BY <1>2 DEF Complete, Summaries, Known
<1>5. Locked'
  BY DEF Locked, Holds, Shares, Live
<1>6. NothingMissed'
  BY <1>2 DEF NothingMissed, Known
<1>7. CountedAll'
  <2>1. ASSUME NEW a \in Agents, pc[a] = "counted"
        PROVE  count[a] >= Cardinality(UpTo(cursor[a]))'
    <3>1. count[a] >= Cardinality(UpTo(cursor[a]))
      BY <2>1 DEF CountedAll
    <3>2. IsFiniteSet(UpTo(cursor[a])) /\ Cardinality(UpTo(cursor[a])) \in Nat
      BY UpToFinite
    <3>3. UpTo(cursor[a])' \in SUBSET UpTo(cursor[a])
      BY <1>2
    <3>4. Cardinality(UpTo(cursor[a])') <= Cardinality(UpTo(cursor[a]))
      BY <3>2, <3>3, FS_Subset
    <3>5. Cardinality(UpTo(cursor[a])') \in Nat
      BY <3>2, <3>3, FS_Subset, FS_CardinalityType
    <3>6. count[a] \in Nat
      BY DEF TypeOK
    <3> QED BY <3>1, <3>2, <3>4, <3>5, <3>6
  <2> QED BY <2>1 DEF CountedAll
<1>8. VersionFree'
  BY DEF VersionFree
<1> QED BY <1>1, <1>3, <1>4, <1>5, <1>6, <1>7, <1>8

(* A reader starts from a summary that is complete.                        *)
LEMMA ReadBaseKeeps ==
  ASSUME IInv, NEW a \in Agents, ReadBase(a)
  PROVE  IInv'
<1> USE DEF IInv, events
<1> DEFINE n == Len(compactions)
           T == IF n = 0 THEN {} ELSE compactions[n].covers
           c == IF n = 0 THEN 0 ELSE compactions[n].cutoff
<1>1. n = 0 \/ (compactions[n] \in Compaction /\ n \in 1..Len(compactions))
  BY DEF TypeOK
<1>2. T \in SUBSET Events /\ c \in 0..MaxEvents /\ c \in committed \cup {0}
  BY <1>1, ConversationConstantsAssumption DEF Compaction, Summaries, Events
<1>3. (\A e \in T : e <= c) /\ (\A e \in UpTo(c) : e \in T \cup late)
  <2>1. CASE n = 0
    BY <2>1 DEF UpTo, Live, TypeOK, Events
  <2>2. CASE n # 0
    BY <2>2, <1>1 DEF Summaries
  <2> QED BY <2>1, <2>2
<1>4. /\ pc[a] = "idle" /\ pc' = [pc EXCEPT ![a] = "reading"]
      /\ told' = [told EXCEPT ![a] = T] /\ cursor' = [cursor EXCEPT ![a] = c]
      /\ seen' = [seen EXCEPT ![a] = {}] /\ goal' = [goal EXCEPT ![a] = Live]
      /\ UNCHANGED <<committed, deleted, late, compactions, count, version>>
  BY DEF ReadBase
<1> HIDE DEF n, T, c
<1>5. Live' = Live /\ \A d : UpTo(d)' = UpTo(d)
  BY <1>4 DEF Live, UpTo
<1>6. TypeOK'
  BY <1>2, <1>4 DEF TypeOK, States, Live, Events
<1>7. Places'
  BY <1>2, <1>3, <1>4 DEF Places, Known, Live, TypeOK
<1>8. Complete'
  BY <1>3, <1>4, <1>5 DEF Complete, Known, TypeOK
<1>9. Summaries'
  BY <1>4, <1>5 DEF Summaries
<1>10. Locked'
  BY <1>4, <1>5 DEF Locked, Holds, Shares, TypeOK
<1>11. NothingMissed'
  BY <1>4, <1>5 DEF NothingMissed, Known, TypeOK
<1>12. CountedAll' /\ VersionFree'
  BY <1>4, <1>5 DEF CountedAll, VersionFree, TypeOK
<1> QED BY <1>6, <1>7, <1>8, <1>9, <1>10, <1>11, <1>12

(* A page has the live events right after the cursor; when it is not full, *)
(* all of them.                                                            *)
LEMMA ReadPageKeeps ==
  ASSUME IInv, NEW a \in Agents, ReadPage(a)
  PROVE  IInv'
<1> USE DEF IInv, events
<1>1. PICK P \in SUBSET After(cursor[a]) :
        /\ IsPage(P, cursor[a])
        /\ seen' = [seen EXCEPT ![a] = @ \cup P]
        /\ \/ P = {} /\ cursor' = cursor
           \/ \E m \in P : /\ \A e \in P : e <= m
                           /\ cursor' = [cursor EXCEPT ![a] = m]
        /\ pc' = [pc EXCEPT ![a] = IF Cardinality(P) < PageLimit THEN "done" ELSE "reading"]
  BY DEF ReadPage
<1>2. /\ pc[a] = "reading"
      /\ UNCHANGED <<committed, deleted, late, compactions, told, goal, count, version>>
  BY DEF ReadPage
<1>3. Live' = Live /\ \A c : UpTo(c)' = UpTo(c)
  BY <1>2 DEF Live, UpTo
<1>4. P \subseteq Live /\ Live \subseteq Events /\ Live \subseteq committed
  BY DEF After, Live, TypeOK
<1>5. /\ cursor[a] <= cursor'[a] /\ cursor'[a] \in committed \cup {0} /\ cursor'[a] \in 0..MaxEvents
      /\ \A e \in P : cursor[a] < e /\ e <= cursor'[a]
      /\ \A b \in Agents : b # a => cursor'[b] = cursor[b] /\ pc'[b] = pc[b] /\ seen'[b] = seen[b]
      /\ cursor' \in [Agents -> 0..MaxEvents]
  <2>1. \A e \in P : e \in 1..MaxEvents /\ cursor[a] < e
    BY <1>4 DEF After, TypeOK, Events
  <2>2. CASE P = {} /\ cursor' = cursor
    BY <2>2, <1>1 DEF TypeOK, Places
  <2>3. CASE \E m \in P : (\A e \in P : e <= m) /\ cursor' = [cursor EXCEPT ![a] = m]
    <3>1. PICK m \in P : (\A e \in P : e <= m) /\ cursor' = [cursor EXCEPT ![a] = m]
      BY <2>3
    <3>2. m \in 0..MaxEvents /\ cursor[a] <= m /\ m \in committed
      BY <2>1, <1>4, ConversationConstantsAssumption DEF TypeOK
    <3> QED BY <2>1, <3>1, <3>2, <1>1 DEF TypeOK
  <2> QED BY <1>1, <2>2, <2>3
<1>6. /\ seen'[a] = seen[a] \cup P /\ told'[a] = told[a] /\ goal'[a] = goal[a]
      /\ pc'[a] \in {"reading", "done"}
  BY <1>1, <1>2 DEF TypeOK
<1>7. TypeOK'
  BY <1>1, <1>2, <1>4, <1>5 DEF TypeOK, States
<1>8. Places'
  <2>1. ASSUME NEW e \in Known(a)'
        PROVE  e <= cursor'[a]
    <3>1. CASE e \in P
      BY <3>1, <1>5
    <3>2. CASE e \in Known(a)
      <4>1. e <= cursor[a] /\ e \in Nat /\ cursor[a] \in Nat /\ cursor'[a] \in Nat
        BY <3>2, <1>5 DEF Places, Known, TypeOK, Events
      <4> QED BY <4>1, <1>5
    <3> QED BY <2>1, <3>1, <3>2, <1>6 DEF Known
  <2>2. ASSUME NEW t \in told[a], NEW x \in seen'[a]
        PROVE  t < x
    <3>1. CASE x \in P
      <4>1. t <= cursor[a] /\ t \in Nat /\ cursor[a] \in Nat /\ x \in Nat
        BY <3>1, <1>4 DEF Places, Known, TypeOK, Events
      <4> QED BY <4>1, <3>1, <1>5
    <3>2. CASE x \in seen[a]
      BY <3>2 DEF Places
    <3> QED BY <2>2, <3>1, <3>2, <1>6
  <2> QED BY <1>2, <1>5, <1>6, <2>1, <2>2 DEF Places, Known
<1>9. ASSUME NEW e \in Live, e <= cursor'[a]
      PROVE  e \in Known(a)' \cup late
  <2>1. CASE e <= cursor[a]
    BY <2>1, <1>6 DEF Complete, Known, UpTo
  <2>2. CASE ~ (e <= cursor[a])
    <3>1. e \in After(cursor[a])
      BY <2>2, <1>4 DEF After, TypeOK, Events
    <3>2. cursor'[a] # cursor[a]
      BY <2>2, <1>9
    <3>3. cursor'[a] \in P
      BY <3>2, <1>1 DEF TypeOK
    <3>4. e \in P
      <4>1. CASE e = cursor'[a]
        BY <4>1, <3>3
      <4>2. CASE e # cursor'[a]
        <5>1. e < cursor'[a]
          BY <4>2, <1>9, <1>4, <1>5 DEF Events
        <5> QED BY <5>1, <3>1, <3>3, <1>1 DEF IsPage
      <4> QED BY <4>1, <4>2
    <3> QED BY <3>4, <1>6 DEF Known
  <2> QED BY <2>1, <2>2
<1>10. Complete'
  BY <1>2, <1>3, <1>5, <1>9 DEF Complete, Known, UpTo
<1>11. Summaries'
  BY <1>2, <1>3 DEF Summaries
<1>12. Locked'
  BY <1>2, <1>3, <1>5, <1>6 DEF Locked, Holds, Shares
<1>13. NothingMissed'
  <2>1. ASSUME pc'[a] = "done", NEW e \in goal[a] \cap Live
        PROVE  e \in Known(a)' \cup late
    <3>1. Cardinality(P) < PageLimit
      BY <2>1, <1>1 DEF TypeOK
    <3>2. P = After(cursor[a])
      BY <3>1, <1>1, ConversationConstantsAssumption DEF IsPage
    <3>3. CASE e <= cursor[a]
      BY <3>3, <2>1, <1>6 DEF Complete, Known, UpTo
    <3>4. CASE ~ (e <= cursor[a])
      BY <3>4, <3>2, <1>4, <1>6 DEF After, Known, TypeOK, Events
    <3> QED BY <3>3, <3>4
  <2> QED BY <2>1, <1>2, <1>3, <1>5 DEF NothingMissed, Known
<1>14. CountedAll' /\ VersionFree'
  BY <1>2, <1>3, <1>5, <1>6 DEF CountedAll, VersionFree
<1> QED BY <1>7, <1>8, <1>10, <1>11, <1>12, <1>13, <1>14

(* An agent that leaves forgets.                                           *)
Forgets(a) ==
  /\ pc' = [pc EXCEPT ![a] = "idle"]
  /\ told' = [told EXCEPT ![a] = {}]
  /\ cursor' = [cursor EXCEPT ![a] = 0]
  /\ seen' = [seen EXCEPT ![a] = {}]
  /\ goal' = [goal EXCEPT ![a] = {}]
  /\ count' = [count EXCEPT ![a] = 0]
  /\ version' = [version EXCEPT ![a] = 0]
  /\ UNCHANGED events

LEMMA ForgettingKeeps ==
  ASSUME IInv, NEW a \in Agents, Forgets(a)
  PROVE  /\ pc' \in [Agents -> States]
         /\ told' \in [Agents -> SUBSET Events] /\ seen' \in [Agents -> SUBSET Events]
         /\ goal' \in [Agents -> SUBSET Events] /\ cursor' \in [Agents -> 0..MaxEvents]
         /\ count' \in [Agents -> Nat] /\ version' \in [Agents -> Nat]
         /\ Places' /\ Complete' /\ Locked' /\ NothingMissed' /\ CountedAll'
<1> USE DEF IInv, events
<1>1. Live' = Live /\ \A c : UpTo(c)' = UpTo(c)
  BY DEF Forgets, Live, UpTo
<1>2. /\ pc' \in [Agents -> States]
      /\ told' \in [Agents -> SUBSET Events] /\ seen' \in [Agents -> SUBSET Events]
      /\ goal' \in [Agents -> SUBSET Events] /\ cursor' \in [Agents -> 0..MaxEvents]
      /\ count' \in [Agents -> Nat] /\ version' \in [Agents -> Nat]
  BY ConversationConstantsAssumption DEF Forgets, TypeOK, States
<1>3. Places'
  BY DEF Forgets, Places, Known, TypeOK
<1>4. Complete'
  BY <1>1 DEF Forgets, Complete, Known, TypeOK, UpTo, Live, Events
<1>5. Locked'
  BY <1>1 DEF Forgets, Locked, Holds, Shares, TypeOK
<1>6. NothingMissed'
  BY <1>1 DEF Forgets, NothingMissed, Known, TypeOK
<1>7. CountedAll'
  BY <1>1 DEF Forgets, CountedAll, TypeOK
<1> QED BY <1>2, <1>3, <1>4, <1>5, <1>6, <1>7

LEMMA LeaveKeeps ==
  ASSUME IInv, NEW a \in Agents, Leave(a)
  PROVE  IInv'
<1>1. Forgets(a) /\ UNCHANGED <<events, compactions>>
  BY DEF Leave, Forgets
<1>2. TypeOK'
  BY <1>1, ForgettingKeeps DEF IInv, TypeOK, events
<1>3. Summaries'
  BY <1>1 DEF IInv, Summaries, UpTo, Live, events
<1>4. VersionFree'
  BY <1>1 DEF IInv, VersionFree, Forgets, TypeOK
<1> QED BY <1>1, <1>2, <1>3, <1>4, ForgettingKeeps DEF IInv

(* The summary an agent posts stands for all it knows.                     *)
LEMMA CommitCompactionKeeps ==
  ASSUME IInv, NEW a \in Agents, CommitCompaction(a)
  PROVE  IInv' /\ compactions'[Len(compactions) + 1].cutoff \in Live'
<1> DEFINE new == [cutoff |-> cursor[a], count |-> count[a], covers |-> Known(a)]
           n == Len(compactions)
<1>1. Forgets(a) /\ pc[a] = "counted" /\ compactions' = Append(compactions, new)
  BY DEF CommitCompaction, Forgets
<1>2. /\ cursor[a] \in Live /\ cursor[a] \in Events /\ cursor[a] \in committed
      /\ new \in Compaction
  BY <1>1 DEF IInv, Locked, Shares, TypeOK, Live, Compaction, Known
<1>3. /\ n \in Nat /\ Len(compactions') = n + 1
      /\ \A k \in 1..n : compactions'[k] = compactions[k]
      /\ compactions'[n + 1] = new
      /\ compactions' \in Seq(Compaction)
  BY <1>1, <1>2 DEF IInv, TypeOK
<1>4. TypeOK'
  BY <1>1, <1>3, ForgettingKeeps DEF IInv, TypeOK, Forgets, events
<1>5. Live' = Live /\ committed' = committed /\ late' = late /\ \A c : UpTo(c)' = UpTo(c)
  BY <1>1 DEF Forgets, events, Live, UpTo
<1>6. /\ new.cutoff \in committed
      /\ \A e \in new.covers : e <= new.cutoff
      /\ \A e \in UpTo(new.cutoff) : e \in new.covers \cup late
  BY <1>2 DEF IInv, Places, Complete
<1>7. Summaries'
  <2>1. ASSUME NEW k \in 1..Len(compactions')
        PROVE  /\ compactions'[k].cutoff \in committed
               /\ \A e \in compactions'[k].covers : e <= compactions'[k].cutoff
               /\ \A e \in UpTo(compactions'[k].cutoff) : e \in compactions'[k].covers \cup late
    <3>1. CASE k \in 1..n
      BY <3>1, <1>3 DEF IInv, Summaries
    <3>2. CASE k = n + 1
      BY <3>2, <1>3, <1>6
    <3> QED BY <2>1, <1>3, <3>1, <3>2
  <2> QED BY <2>1, <1>5 DEF Summaries
<1>8. VersionFree'
  <2>1. \A b \in Agents : pc'[b] # "counted"
    BY <1>1 DEF Forgets, IInv, Locked, Holds, TypeOK
  <2> QED BY <2>1 DEF VersionFree
<1>9. IInv'
  BY <1>1, <1>4, <1>7, <1>8, ForgettingKeeps DEF IInv
<1> QED BY <1>2, <1>3, <1>5, <1>9

(* The other statements of create_compaction change only where an agent is *)
(* and what it computed.                                                   *)
LEMMA StatementsKeep ==
  ASSUME IInv, NEW a \in Agents,
         LockConversation(a) \/ ShareCutoff(a) \/ CountEvents(a)
  PROVE  IInv'
<1> USE DEF IInv, events, reader
<1>1. UNCHANGED <<committed, deleted, late, compactions, told, cursor, seen, goal>>
  BY DEF LockConversation, ShareCutoff, CountEvents
<1>2. Live' = Live /\ \A c : UpTo(c)' = UpTo(c)
  BY <1>1 DEF Live, UpTo
<1>3. Cardinality(UpTo(cursor[a])) \in Nat /\ Len(compactions) \in Nat
  BY UpToFinite DEF TypeOK
<1>4. TypeOK'
  <2>1. pc' \in [Agents -> States]
    BY DEF TypeOK, States, LockConversation, ShareCutoff, CountEvents
  <2>2. count' \in [Agents -> Nat] /\ version' \in [Agents -> Nat]
    <3>1. CASE CountEvents(a)
      BY <3>1, <1>3 DEF TypeOK, CountEvents
    <3>2. CASE LockConversation(a) \/ ShareCutoff(a)
      BY <3>2 DEF TypeOK, LockConversation, ShareCutoff
    <3> QED BY <3>1, <3>2
  <2> QED BY <1>1, <2>1, <2>2 DEF TypeOK
<1>5. Places' /\ Complete' /\ Summaries'
  BY <1>1, <1>2 DEF Places, Complete, Summaries, Known
<1>6. Locked'
  BY <1>1, <1>2 DEF Locked, Holds, Shares, TypeOK, RowFree, LockConversation, ShareCutoff, CountEvents
<1>7. NothingMissed'
  BY <1>1, <1>2 DEF NothingMissed, Known, TypeOK, LockConversation, ShareCutoff, CountEvents
<1>8. CountedAll'
  BY <1>1, <1>2, <1>3 DEF CountedAll, TypeOK, LockConversation, ShareCutoff, CountEvents
<1>9. VersionFree'
  BY <1>1, <1>3 DEF VersionFree, TypeOK, LockConversation, ShareCutoff, CountEvents
<1> QED BY <1>4, <1>5, <1>6, <1>7, <1>8, <1>9

-----------------------------------------------------------------------------
LEMMA Initially == ASSUME Init PROVE IInv
<1> USE DEF Init
<1>1. TypeOK
  BY ConversationConstantsAssumption DEF TypeOK, States
<1>2. Places /\ Complete /\ Summaries /\ Locked
  BY DEF Places, Complete, Summaries, Locked, Known, UpTo, Live, Holds, Shares
<1>3. NothingMissed /\ CountedAll /\ VersionFree
  BY DEF NothingMissed, CountedAll, VersionFree
<1> QED BY <1>1, <1>2, <1>3 DEF IInv

LEMMA Step == ASSUME IInv, [Next]_vars PROVE IInv'
<1>1. CASE UNCHANGED vars
  BY <1>1 DEF vars, events, reader, IInv, TypeOK, Places, Complete, Summaries, Locked,
     NothingMissed, CountedAll, VersionFree, Known, UpTo, Live, Holds, Shares
<1>2. CASE \E e \in Events : CreateEvent(e) \/ TombstoneEvent(e)
  BY <1>2, CreateEventKeeps, TombstoneEventKeeps
<1>3. CASE \E a \in Agents :
             \/ ReadBase(a) \/ ReadPage(a) \/ Leave(a)
             \/ LockConversation(a) \/ ShareCutoff(a) \/ CountEvents(a) \/ CommitCompaction(a)
  BY <1>3, ReadBaseKeeps, ReadPageKeeps, LeaveKeeps, StatementsKeep, CommitCompactionKeeps
<1> QED BY <1>1, <1>2, <1>3 DEF Next

THEOREM Inductive == Spec => []IInv
BY Initially, Step, PTL DEF Spec

(* Tables and readers keep their types, for any number of agents, events   *)
(* and compactions.                                                        *)
THEOREM TypeCorrect == Spec => []TypeOK
<1>1. IInv => TypeOK
  BY DEF IInv
<1> QED BY Inductive, <1>1, PTL

(* Whatever is appended, deleted and summarised while it reads, an agent   *)
(* that follows summary and pages to the end of the conversation knows     *)
(* every live event that was there, except those that committed late.      *)
THEOREM SummaryAndTail == Spec => []NothingMissed
<1>1. IInv => NothingMissed
  BY DEF IInv
<1> QED BY Inductive, <1>1, PTL

(* No event comes both as text and in the summary.                         *)
THEOREM NoRepetition == Spec => []ToldOnce
<1>1. IInv => ToldOnce
  BY DEF IInv, TypeOK, Places, ToldOnce, Events
<1> QED BY Inductive, <1>1, PTL

(* The count a compaction stores leaves out no event it stands for.        *)
THEOREM CountsAll == Spec => []CountedAll
<1>1. IInv => CountedAll
  BY DEF IInv
<1> QED BY Inductive, <1>1, PTL

(* Compactions never collide on their version.                             *)
THEOREM VersionsNeverCollide == Spec => []VersionFree
<1>1. IInv => VersionFree
  BY DEF IInv
<1> QED BY Inductive, <1>1, PTL

(* A compaction's cutoff is in the transcript when it commits.             *)
THEOREM CutoffsAlive == Spec => CutoffAlive
<1> DEFINE Alive == \A n \in DOMAIN compactions' \ DOMAIN compactions : compactions'[n].cutoff \in Live'
<1>1. ASSUME IInv, [Next]_vars PROVE [Alive]_vars
  <2>1. CASE \E a \in Agents : CommitCompaction(a)
    <3>1. PICK a \in Agents : CommitCompaction(a)
      BY <2>1
    <3>2. compactions'[Len(compactions) + 1].cutoff \in Live'
      BY <1>1, <3>1, CommitCompactionKeeps
    <3>3. DOMAIN compactions' \ DOMAIN compactions = {Len(compactions) + 1}
      <4>1. compactions \in Seq(Compaction)
        BY <1>1 DEF IInv, TypeOK
      <4> QED BY <3>1, <4>1 DEF CommitCompaction
    <3> QED BY <3>2, <3>3
  <2>2. CASE ~ \E a \in Agents : CommitCompaction(a)
    <3>1. compactions' = compactions
      BY <1>1, <2>2 DEF Next, vars, CreateEvent, TombstoneEvent, ReadBase, ReadPage, Leave,
         LockConversation, ShareCutoff, CountEvents
    <3> QED BY <3>1
  <2> QED BY <2>1, <2>2
<1> QED BY Inductive, <1>1, PTL DEF Spec, CutoffAlive

-----------------------------------------------------------------------------
(* Starts of the server: Boot, an instance of Startup.                     *)

(* Sequences of three, and of ten.                                         *)
LEMMA TripleIn ==
  ASSUME NEW S, NEW a \in S, NEW b \in S, NEW c \in S
  PROVE  <<a, b, c>> \in Seq(S)
OBVIOUS

LEMMA TenIn ==
  ASSUME NEW S, NEW a \in S, NEW b \in S, NEW c \in S, NEW d \in S, NEW e \in S,
         NEW f \in S, NEW g \in S, NEW h \in S, NEW i \in S, NEW j \in S
  PROVE  <<a, b, c, d, e, f, g, h, i, j>> \in Seq(S)
OBVIOUS

(* Where the elements of three sequences in a row are.                     *)
LEMMA ThreeParts ==
  ASSUME NEW R, NEW E \in Seq(R), NEW M \in Seq(R), NEW L \in Seq(R)
  PROVE  /\ DOMAIN (E \o M \o L) = 1 .. Len(E) + Len(M) + Len(L)
         /\ \A i \in 1 .. Len(E) : (E \o M \o L)[i] = E[i]
         /\ \A i \in 1 .. Len(M) : (E \o M \o L)[Len(E) + i] = M[i]
<1>1. E \o M \in Seq(R) /\ Len(E \o M) = Len(E) + Len(M)
  OBVIOUS
<1>2. ASSUME NEW i \in 1 .. Len(E) PROVE (E \o M)[i] = E[i]
  OBVIOUS
<1>3. ASSUME NEW i \in 1 .. Len(M) PROVE (E \o M)[Len(E) + i] = M[i]
  OBVIOUS
<1>4. PICK A \in Seq(R) : A = E \o M
  BY <1>1
<1>5. A \o L \in Seq(R) /\ Len(A \o L) = Len(A) + Len(L)
  OBVIOUS
<1>6. ASSUME NEW i \in 1 .. Len(A) PROVE (A \o L)[i] = A[i]
  OBVIOUS
<1>7. DOMAIN (A \o L) = 1 .. Len(A) + Len(L)
  BY <1>5
<1>8. Len(A) = Len(E) + Len(M)
  BY <1>1, <1>4
<1>9. ASSUME NEW i \in 1 .. Len(E) PROVE (A \o L)[i] = E[i]
  <2>1. i \in 1 .. Len(A)
    BY <1>8
  <2> QED
    BY <2>1, <1>2, <1>4, <1>6
<1>10. ASSUME NEW i \in 1 .. Len(M) PROVE (A \o L)[Len(E) + i] = M[i]
  <2>1. Len(E) + i \in 1 .. Len(A)
    BY <1>8
  <2> QED
    BY <2>1, <1>3, <1>4, <1>6
<1> QED
  BY <1>4, <1>7, <1>8, <1>9, <1>10

(* Both migrations that move data are steps of the schema.                 *)
LEMMA SchemaMoves ==
  /\ \E i \in DOMAIN Boot!Schema : Boot!Schema[i].does = "copy logs"
  /\ \E i \in DOMAIN Boot!Schema : Boot!Schema[i].does = "move armed"
<1> DEFINE R == [version : 1 .. 23, does : {"add", "copy logs", "move armed"}]
           E == Boot!Early
           M == Boot!Middle
           L == Boot!Late
<1>r. /\ \A v \in 1 .. 23 : Boot!Plain(v) \in R
      /\ [version |-> 4, does |-> "copy logs"] \in R /\ [version |-> 2, does |-> "move armed"] \in R
  BY DEF Boot!Plain
<1>n. {1, 2, 3, 5, 6, 7, 8, 9, 10, 11, 12, 13, 14, 15, 16, 17, 18, 19, 20, 23} \subseteq 1 .. 23
  OBVIOUS
<1> HIDE DEF R
<1>1. E \in Seq(R)
  <2>1. /\ Boot!Plain(1) \in R /\ Boot!Plain(2) \in R /\ Boot!Plain(3) \in R /\ Boot!Plain(5) \in R
        /\ Boot!Plain(6) \in R /\ Boot!Plain(7) \in R /\ Boot!Plain(8) \in R /\ Boot!Plain(9) \in R
        /\ Boot!Plain(10) \in R
    BY <1>r, <1>n
  <2> QED
    BY <1>r, <2>1, TenIn DEF Boot!Early
<1>2. M \in Seq(R)
  <2>1. Boot!Plain(11) \in R /\ Boot!Plain(8) \in R
    BY <1>r, <1>n
  <2> QED
    BY <1>r, <2>1, TripleIn DEF Boot!Middle
<1>3. L \in Seq(R)
  <2>1. /\ Boot!Plain(12) \in R /\ Boot!Plain(13) \in R /\ Boot!Plain(14) \in R /\ Boot!Plain(15) \in R
        /\ Boot!Plain(16) \in R /\ Boot!Plain(17) \in R /\ Boot!Plain(18) \in R /\ Boot!Plain(19) \in R
        /\ Boot!Plain(20) \in R /\ Boot!Plain(23) \in R
    BY <1>r, <1>n
  <2> QED
    BY <2>1, TenIn DEF Boot!Late
<1>4. Len(E) = 10
  BY DEF Boot!Early
<1>5. Len(M) = 3
  BY DEF Boot!Middle
<1>a. E[4].does = "copy logs"
  BY DEF Boot!Early
<1>b. M[2].does = "move armed"
  BY DEF Boot!Middle
<1>6. Len(L) = 10
  BY DEF Boot!Late
<1>7. PICK f : f = E \o M \o L
  OBVIOUS
<1>8. /\ DOMAIN f = 1 .. Len(E) + Len(M) + Len(L)
      /\ \A i \in 1 .. Len(E) : f[i] = E[i]
      /\ \A i \in 1 .. Len(M) : f[Len(E) + i] = M[i]
  <2> HIDE DEF E, M, L
  <2> QED
    BY <1>1, <1>2, <1>3, <1>7, ThreeParts
<1>9. f[4] = E[4] /\ f[12] = M[2] /\ 4 \in DOMAIN f /\ 12 \in DOMAIN f
  <2> HIDE DEF E, M, L
  <2>1. 4 \in 1 .. Len(E) /\ 2 \in 1 .. Len(M) /\ Len(E) + 2 = 12
    BY <1>4, <1>5
  <2>2. f[4] = E[4] /\ f[Len(E) + 2] = M[2]
    BY <2>1, <1>8
  <2>3. Len(E) + Len(M) + Len(L) = 23
    BY <1>4, <1>5, <1>6
  <2>4. 4 \in 1 .. 23 /\ 12 \in 1 .. 23
    OBVIOUS
  <2> QED
    BY <2>1, <2>2, <2>3, <2>4, <1>8
<1>10. Boot!Schema = f
  BY <1>7 DEF Boot!Schema
<1>11. f[4].does = "copy logs" /\ f[12].does = "move armed"
  <2> HIDE DEF E, M, L
  <2> QED
    BY <1>a, <1>b, <1>9
<1> QED
  <2> HIDE DEF E, M, L
  <2> QED
    BY <1>9, <1>10, <1>11

(* A server that is through with the schema. *)
Through(p) == boot[p] \in {"migrated", "seeding", "serving"}

(* ... finds all of it, and no server undoes that.                         *)
SchemaThere == \A p \in Processes : Through(p) => has = DOMAIN Boot!Schema /\ logs # "old" /\ armed # Boot!Absent

(* A claim is deferred before an administrator makes it, and what was chosen *)
(* for the armed providers stays.                                          *)
Claims ==
  /\ chosen \in {None, "armed", "disarmed"}
  /\ backfills \in {0, 1} /\ (backfills = 1 => 21 \in stamped)
  /\ \A p \in Processes : Through(p) => 21 \in stamped \/ deferred
  /\ creator["later"] = Boot!Absent \/ 21 \in stamped \/ deferred
  /\ creator \in [Boot!Nodes -> {Boot!Absent, "", "admin"}]
  /\ creator["later"] = "admin" => deferred
  /\ chosen # None => armed = chosen

(* A server pauses only while it has attempts left.                        *)
Attempts == \A p \in Processes : boot[p] = "pausing" => attempt[p] < MaxAttempts

(* An account is what its users made it, or what seeding made it since.    *)
AccountsKept ==
  /\ said \in [Boot!People -> Boot!Rows \cup {Boot!Gone, None}]
  /\ reset \subseteq Boot!Defaults
  /\ \A u \in reset : accounts[u] = Boot!Default(u)
  /\ \A u \in Boot!People \ reset : said[u] # None => accounts[u] = said[u]

BootInv == Boot!TypeOK /\ SchemaThere /\ Claims /\ Attempts /\ AccountsKept

(* Before any server starts, the database is new or an old one.            *)
LEMMA BootInit == Boot!Init => BootInv
<1> SUFFICES ASSUME Boot!Init PROVE BootInv
  OBVIOUS
<1>0. None \notin Processes /\ MaxAttempts \in Nat \ {0}
  BY ServerAssumption
<1>1. boot = [p \in Processes |-> "down"] /\ attempt = [p \in Processes |-> 1] /\ lock = None
  BY DEF Boot!Init
<1>2. PICK k \in {0, 2, 7, 11, 23}, newer \in SUBSET Boot!Reused :
        /\ stamped = {v \in Boot!Versions : v <= k}
        /\ has = Boot!Left(k, newer)
        /\ \E early \in {Boot!Absent, ""} :
             creator = [n \in Boot!Nodes |-> IF n = "early" /\ k < 21 THEN early ELSE Boot!Absent]
  BY DEF Boot!Init
<1>3. stamped \subseteq Boot!Versions /\ has \subseteq DOMAIN Boot!Schema
  BY <1>2 DEF Boot!Left
<1>4. creator \in [Boot!Nodes -> {Boot!Absent, "", "admin"}] /\ creator["later"] = Boot!Absent
  BY <1>2 DEF Boot!Nodes, Boot!Absent
<1>5. logs \in {"old", "copied", "both"} /\ armed \in {Boot!Absent, "armed", "disarmed"}
  BY DEF Boot!Init
<1>6. chosen = None /\ backfills = 0 /\ deferred = FALSE
  BY DEF Boot!Init
<1>11. accounts \in [Boot!People -> Boot!Rows \cup {Boot!Gone}]
  <2>1. PICK there \in SUBSET Boot!People :
          accounts = [u \in Boot!People |-> IF u \notin there THEN Boot!Gone
                                           ELSE IF u \in Boot!Defaults THEN Boot!Default(u)
                                           ELSE [role |-> "admin", active |-> TRUE]]
    BY DEF Boot!Init
  <2> QED
    BY <2>1 DEF Boot!Rows, Boot!Default
<1>7. Boot!TypeOK
  BY <1>0, <1>1, <1>3, <1>5, <1>11 DEF Boot!TypeOK
<1>12. AccountsKept
  BY DEF Boot!Init, AccountsKept
<1>8. SchemaThere /\ Attempts
  BY <1>1 DEF SchemaThere, Attempts, Through
<1>9. backfills \in {0, 1} /\ backfills # 1
  BY <1>6
<1>10. Claims
  BY <1>1, <1>4, <1>6, <1>9 DEF Claims, Through, Boot!Absent
<1> QED
  BY <1>7, <1>8, <1>10, <1>12 DEF BootInv

(* Every step of a start keeps it.                                         *)
LEMMA BootStep ==
  ASSUME BootInv, [Boot!Next]_Boot!vars
  PROVE  BootInv'
<1> USE DEF BootInv
<1>0. None \notin Processes /\ MaxAttempts \in Nat \ {0}
  BY ServerAssumption
<1>t. /\ boot \in [Processes -> {"down", "migrating", "migrated", "pausing", "failed", "seeding", "serving"}]
      /\ attempt \in [Processes -> 1 .. MaxAttempts]
  BY DEF Boot!TypeOK
<1>1. ASSUME NEW p \in Processes, Boot!TakeLock(p) PROVE BootInv'
  <2>1. Boot!TypeOK'
    BY <1>0, <1>1 DEF Boot!TakeLock, Boot!TypeOK
  <2>2. (SchemaThere /\ Claims /\ Attempts /\ AccountsKept)'
    BY <1>1, <1>t DEF Boot!TakeLock, Boot!history, SchemaThere, Claims, Attempts, AccountsKept, Through
  <2> QED
    BY <2>1, <2>2
<1>2. ASSUME NEW p \in Processes, Boot!Migrate(p) PROVE BootInv'
  <2>1. /\ boot[p] = "migrating" /\ lock = p
        /\ boot' = [boot EXCEPT ![p] = "migrated"]
        /\ UNCHANGED <<attempt, lock, accounts, chosen, said, reset>>
    BY <1>2 DEF Boot!Migrate
  <2>2. has' = DOMAIN Boot!Schema
    BY <1>2 DEF Boot!Migrate, Boot!TypeOK, Boot!PendingSchema, Boot!Replayed
  <2>3. logs' # "old" /\ logs' \in {"old", "copied", "both"}
    BY <1>2, SchemaMoves DEF Boot!Migrate, Boot!TypeOK, Boot!LogsAfter, Boot!Replayed
  <2>4. armed' # Boot!Absent /\ (armed # Boot!Absent => armed' = armed) /\ armed' \in {Boot!Absent, "armed", "disarmed"}
    BY <1>2, SchemaMoves DEF Boot!Migrate, Boot!TypeOK, Boot!ArmedAfter, Boot!Replayed, Boot!Absent
  <2>5. stamped' \subseteq Boot!Versions /\ 21 \in Boot!Versions
    BY <1>2 DEF Boot!Migrate, Boot!Versions, Boot!Data
  <2>6. 21 \in stamped' \/ (deferred' /\ creator' = creator /\ backfills' = backfills /\ 21 \notin stamped)
    <3>1. CASE Boot!Waits
      <4>1. Boot!Admins = {} /\ 21 \notin stamped
        BY <3>1 DEF Boot!Waits, Boot!BackfillDue
      <4>2. deferred' /\ creator' = creator
        BY <1>2, <3>1, <4>1 DEF Boot!Migrate
      <4>3. backfills' = backfills + 0
        BY <1>2, <4>1 DEF Boot!Migrate
      <4>4. backfills \in {0, 1}
        BY DEF Claims
      <4> QED
        BY <4>1, <4>2, <4>3, <4>4
    <3>2. CASE ~Boot!Waits
      BY <1>2, <3>2, <2>5 DEF Boot!Migrate
    <3> QED
      BY <3>1, <3>2
  <2>7. deferred => deferred'
    BY <1>2 DEF Boot!Migrate
  <2>8. 21 \in stamped => creator' = creator /\ backfills' = backfills /\ 21 \in stamped'
    <3> SUFFICES ASSUME 21 \in stamped PROVE creator' = creator /\ backfills' = backfills /\ 21 \in stamped'
      OBVIOUS
    <3>1. ~Boot!BackfillDue /\ ~Boot!Waits
      BY DEF Boot!BackfillDue, Boot!Waits
    <3>2. backfills' = backfills + 0 /\ creator' = creator
      BY <1>2, <3>1 DEF Boot!Migrate
    <3>3. backfills \in {0, 1}
      BY DEF Claims
    <3> QED
      BY <1>2, <2>5, <3>1, <3>2, <3>3 DEF Boot!Migrate
  <2>9. /\ creator' \in [Boot!Nodes -> {Boot!Absent, "", "admin"}]
        /\ creator["later"] = Boot!Absent => creator'["later"] = Boot!Absent
    <3>1. creator \in [Boot!Nodes -> {Boot!Absent, "", "admin"}] /\ "later" \in Boot!Nodes
      BY DEF Claims, Boot!Nodes
    <3>2. CASE creator' = creator
      BY <3>1, <3>2
    <3>3. CASE creator' = [n \in Boot!Nodes |-> IF n \in Boot!Unclaimed THEN "admin" ELSE creator[n]]
      BY <3>1, <3>3 DEF Boot!Unclaimed, Boot!Absent
    <3> QED
      BY <1>2, <3>2, <3>3 DEF Boot!Migrate
  <2>10. backfills = 0 => backfills' = 0 \/ (backfills' = 1 /\ 21 \in stamped')
    <3>1. backfills' = backfills + (IF Boot!BackfillDue /\ Boot!Admins # {} /\ Boot!Unclaimed # {} THEN 1 ELSE 0)
      BY <1>2 DEF Boot!Migrate
    <3>2. CASE Boot!BackfillDue /\ Boot!Admins # {} /\ Boot!Unclaimed # {}
      <4>1. ~Boot!Waits
        BY <3>2 DEF Boot!Waits
      <4>2. backfills' = backfills + 1 /\ 21 \in stamped'
        BY <1>2, <2>5, <3>1, <3>2, <4>1 DEF Boot!Migrate
      <4> QED
        BY <4>2
    <3>3. CASE ~(Boot!BackfillDue /\ Boot!Admins # {} /\ Boot!Unclaimed # {})
      BY <3>1, <3>3
    <3> QED
      BY <3>2, <3>3
  <2>11. Boot!TypeOK'
    BY <2>1, <2>2, <2>3, <2>4, <2>5 DEF Boot!TypeOK
  <2>12. SchemaThere' /\ Attempts'
    BY <1>t, <2>1, <2>2, <2>3, <2>4 DEF SchemaThere, Attempts
  <2>13. Claims'
    <3>1. chosen' \in {None, "armed", "disarmed"} /\ (chosen' # None => armed' = chosen')
      BY <2>1, <2>4 DEF Claims, Boot!Absent
    <3>2. backfills' \in {0, 1} /\ (backfills' = 1 => 21 \in stamped')
      BY <2>8, <2>10 DEF Claims
    <3>3. 21 \in stamped' \/ deferred'
      BY <2>6
    <3>4. creator'["later"] = "admin" => deferred'
      BY <2>6, <2>7, <2>8, <2>9 DEF Claims, Boot!Absent
    <3> QED
      BY <3>1, <3>2, <3>3, <3>4, <2>9 DEF Claims
  <2>14. AccountsKept'
    BY <2>1 DEF AccountsKept
  <2> QED
    BY <2>11, <2>12, <2>13, <2>14
<1>3. ASSUME NEW p \in Processes, Boot!Deadlock(p) PROVE BootInv'
  <2>1. Boot!TypeOK'
    BY <1>3 DEF Boot!Deadlock, Boot!TypeOK
  <2>2. (SchemaThere /\ Claims /\ AccountsKept)'
    BY <1>3, <1>t DEF Boot!Deadlock, Boot!history, SchemaThere, Claims, AccountsKept, Through
  <2>3. Attempts'
    <3>1. attempt[p] = MaxAttempts \/ attempt[p] < MaxAttempts
      BY <1>0, <1>t
    <3> QED
      BY <1>3, <1>t, <3>1 DEF Boot!Deadlock, Attempts
  <2> QED
    BY <2>1, <2>2, <2>3
<1>4. ASSUME NEW p \in Processes, Boot!Release(p) PROVE BootInv'
  <2>1. /\ boot[p] \in {"migrated", "pausing", "failed"} /\ lock = p /\ lock' = None
        /\ UNCHANGED <<has, stamped, logs, armed, creator, accounts, chosen, said, reset, backfills, deferred>>
    BY <1>4 DEF Boot!Release, Boot!history
  <2>2. boot'[p] \in {"seeding", "down"} /\ (boot'[p] = "seeding" => boot[p] = "migrated")
        /\ boot' \in [Processes -> {"down", "migrating", "migrated", "pausing", "failed", "seeding", "serving"}]
        /\ \A q \in Processes \ {p} : boot'[q] = boot[q]
    BY <1>4, <1>t DEF Boot!Release
  <2>3. attempt'[p] \in 1 .. MaxAttempts
    <3>1. boot[p] = "pausing" => attempt[p] + 1 \in 1 .. MaxAttempts
      BY <1>0, <1>t DEF Attempts
    <3> QED
      BY <1>0, <1>4, <1>t, <3>1 DEF Boot!Release
  <2>4. attempt' \in [Processes -> 1 .. MaxAttempts] /\ \A q \in Processes \ {p} : attempt'[q] = attempt[q]
    BY <1>4, <1>t, <2>3 DEF Boot!Release
  <2>5. Boot!TypeOK'
    BY <1>0, <2>1, <2>2, <2>4 DEF Boot!TypeOK
  <2>6. (SchemaThere /\ Claims /\ AccountsKept)'
    BY <2>1, <2>2 DEF SchemaThere, Claims, AccountsKept, Through
  <2>7. Attempts'
    BY <2>2, <2>4 DEF Attempts
  <2> QED
    BY <2>5, <2>6, <2>7
<1>5. ASSUME NEW p \in Processes, Boot!Seed(p) PROVE BootInv'
  <2>1. /\ boot[p] = "seeding" /\ boot' = [boot EXCEPT ![p] = "serving"]
        /\ UNCHANGED <<attempt, lock, has, stamped, logs, armed, creator, chosen, said, backfills, deferred>>
    BY <1>5 DEF Boot!Seed
  <2>2. accounts' \in [Boot!People -> Boot!Rows \cup {Boot!Gone}] /\ AccountsKept'
    <3>1. CASE /\ accounts' = [u \in Boot!People |-> IF u \in Boot!Defaults THEN Boot!Default(u) ELSE accounts[u]]
               /\ reset' = reset \cup Boot!Defaults
      <4>1. \A u \in Boot!People : Boot!Default(u) \in Boot!Rows
        BY DEF Boot!Default, Boot!Rows
      <4>2. Boot!Defaults \subseteq Boot!People
        BY DEF Boot!People
      <4> QED
        BY <2>1, <3>1, <4>1, <4>2 DEF Boot!TypeOK, AccountsKept
    <3>2. CASE UNCHANGED <<accounts, reset>>
      BY <2>1, <3>2 DEF Boot!TypeOK, AccountsKept
    <3> QED
      BY <1>5, <3>1, <3>2 DEF Boot!Seed
  <2>3. Boot!TypeOK'
    BY <2>1, <2>2 DEF Boot!TypeOK
  <2>4. (SchemaThere /\ Claims /\ Attempts)'
    BY <2>1, <1>t DEF SchemaThere, Claims, Attempts, Through
  <2> QED
    BY <2>2, <2>3, <2>4
<1>6. ASSUME NEW p \in Processes, Boot!Crash(p) PROVE BootInv'
  <2>1. Boot!TypeOK'
    BY <1>0, <1>6 DEF Boot!Crash, Boot!TypeOK
  <2>2. (SchemaThere /\ Claims /\ Attempts /\ AccountsKept)'
    BY <1>6, <1>t DEF Boot!Crash, Boot!history, AccountsKept, SchemaThere, Claims, Attempts, Through
  <2> QED
    BY <2>1, <2>2
<1>7. ASSUME NEW p \in Processes, Boot!Use(p) PROVE BootInv'
  <2>1. boot[p] = "serving" /\ UNCHANGED <<boot, attempt, lock, has, stamped, accounts, said, reset, backfills, deferred>>
    BY <1>7 DEF Boot!Use
  <2>2. 21 \in stamped \/ deferred
    BY <2>1 DEF Claims, Through
  <2>3. CASE \E ready \in {"armed", "disarmed"} : armed' = ready /\ chosen' = ready /\ UNCHANGED <<logs, creator>>
    BY <2>1, <2>3 DEF Boot!TypeOK, SchemaThere, AccountsKept, Claims, Attempts, Through, Boot!Absent
  <2>4. CASE logs' = "both" /\ UNCHANGED <<armed, chosen, creator>>
    BY <2>1, <2>4 DEF Boot!TypeOK, SchemaThere, AccountsKept, Claims, Attempts, Through
  <2>5. CASE creator' = [creator EXCEPT !["later"] = ""] /\ UNCHANGED <<logs, armed, chosen>>
    <3>1. creator' \in [Boot!Nodes -> {Boot!Absent, "", "admin"}] /\ creator'["later"] = ""
      BY <2>5 DEF Claims, Boot!Nodes
    <3>2. Claims'
      BY <2>1, <2>2, <2>5, <3>1 DEF Claims, Through
    <3> QED
      BY <2>1, <2>5, <3>2 DEF Boot!TypeOK, SchemaThere, AccountsKept, Attempts, Through
  <2> QED
    BY <1>7, <2>3, <2>4, <2>5 DEF Boot!Use
<1>9. ASSUME NEW p \in Processes, NEW u \in Boot!People, NEW to \in Boot!Rows \cup {Boot!Gone},
             Boot!ChangeAccount(p, u, to)
      PROVE  BootInv'
  <2>1. /\ UNCHANGED <<boot, attempt, lock, has, stamped, logs, armed, creator, chosen, backfills, deferred>>
        /\ accounts' = [accounts EXCEPT ![u] = to] /\ said' = [said EXCEPT ![u] = to] /\ reset' = reset \ {u}
    BY <1>9 DEF Boot!ChangeAccount
  <2>2. Boot!TypeOK'
    BY <2>1 DEF Boot!TypeOK
  <2>3. (SchemaThere /\ Claims /\ Attempts)'
    BY <2>1 DEF SchemaThere, Claims, Attempts, Through
  <2>4. AccountsKept'
    BY <2>1 DEF AccountsKept, Boot!TypeOK, Boot!People
  <2> QED
    BY <2>2, <2>3, <2>4
<1>8. CASE UNCHANGED Boot!vars
  BY <1>8 DEF Boot!vars, Boot!history, Boot!TypeOK, AccountsKept, SchemaThere, Claims, Attempts, Through
<1> QED
  BY <1>1, <1>2, <1>3, <1>4, <1>5, <1>6, <1>7, <1>8, <1>9 DEF Boot!Next

(* However many servers start, deadlock, crash and start again on one      *)
(* database: a server that serves finds the whole schema, and a start      *)
(* undoes nothing users did since but to the default users, whom seeding   *)
(* sets back (src/postgres_client.py:1422 and 1513, src/db/users.py:219).  *)
THEOREM StartsUndoNothing == Boot!Spec => []StartsAreSafe
<1>1. BootInv => StartsAreSafe
  <2> SUFFICES ASSUME BootInv PROVE StartsAreSafe
    OBVIOUS
  <2>1. Boot!TypeOK /\ Boot!ServesCurrentSchema
    BY DEF BootInv, SchemaThere, Through, Boot!ServesCurrentSchema
  <2>2. backfills \in {0, 1}
    BY DEF BootInv, Claims
  <2>3. backfills <= 1
    BY <2>2
  <2>4. Boot!StartsChangeNothing
    BY <2>3 DEF BootInv, Claims, AccountsKept, Boot!StartsChangeNothing
  <2> QED
    BY <2>1, <2>4 DEF StartsAreSafe
<1>2. BootInv /\ [Boot!Next]_Boot!vars => BootInv'
  BY BootStep
<1> QED
  BY BootInit, <1>1, <1>2, PTL DEF Boot!Spec

-----------------------------------------------------------------------------
(* Logins: Login, an instance of Accounts.                                 *)

(* A statement at work on the account as it is.                            *)
Current(p) == touch[p].at = "read" /\ touch[p].life = account.life

(* A statement between its read and its write.                             *)
Statement == [at : {"read"}, now : Nat, prev : Nat \cup {-1}, life : Nat]

(* The types of the account, its history and the statements.               *)
LoginTypes ==
  /\ hour \in 0 .. MaxHour /\ edits \in Nat
  /\ account \in [life : Nat, active : BOOLEAN, last : Nat \cup {-1}]
  /\ touched \in [Processes -> Nat \cup {-1}]
  /\ touch \in [Processes -> {Login!Still} \cup Statement]
  /\ seenAt \in Nat \cup {-1} /\ resumed \subseteq Nat /\ back \subseteq Nat
  /\ counted \in SUBSET [at : Nat, late : BOOLEAN] /\ IsFiniteSet(counted)
  /\ older \subseteq Processes /\ missed \in BOOLEAN

(* Nothing lies in the future, and a statement is at most a tick old.      *)
Past ==
  /\ account.last <= seenAt /\ seenAt <= hour
  /\ \A t \in resumed \cup back : t <= hour
  /\ \A p \in Processes :
       /\ touched[p] <= hour
       /\ p \notin older => touched[p] <= seenAt
       /\ touch[p].at = "read" => touch[p].now <= hour /\ hour - 1 <= touch[p].now /\ touch[p].prev <= hour

(* Lives are numbered: an account that is gone has no statement at work.   *)
Lives ==
  /\ account.life <= edits + 1 /\ (account.life = 0 <=> account = Login!Gone)
  /\ \A p \in Processes : touch[p].at = "read" => touch[p].life \in 1 .. edits + 1
  /\ account = Login!Gone => seenAt = -1 /\ resumed = {} /\ counted = {}

(* What a statement read stands, or another has moved the row since.       *)
Read ==
  \A p \in Processes : Current(p) =>
    /\ touch[p].now <= seenAt
    /\ touch[p].prev = account.last \/ (account.last # -1 /\ touch[p].now - 1 <= account.last)

(* Counted logins are more than a gap apart.                               *)
Apart ==
  /\ \A c \in counted : c.at <= account.last
  /\ \A c, d \in counted : c = d \/ c.at - d.at > Gap \/ d.at - c.at > Gap
  /\ logins = Cardinality(counted)

(* A statement of that time is one of a new session.                       *)
Early(t) == account.last = -1 \/ account.last < t - Gap

(* A return is counted, or will be by the first statement to end.          *)
Returned(t) ==
  \/ \E c \in counted : c.at \in t .. t + 1
  \/ /\ \E p \in Processes : Current(p) /\ touch[p].now = t
     /\ Early(t)
     /\ \A p \in Processes : Current(p) => t <= touch[p].now

(* The row is more than so much behind that time.                          *)
Behind(t, n) == account.last = -1 \/ account.last < t - n

(* When nothing was missed the row lags behind a server's own record by a  *)
(* throttle, and behind the user by two, or a statement is about to tell.  *)
Told ==
  \A p \in Processes \ older :
    \/ touched[p] = -1 \/ ~Behind(touched[p], Throttle)
    \/ Current(p) /\ touched[p] <= touch[p].now

Followed ==
  \/ seenAt = -1 \/ ~Behind(seenAt, 2 * Throttle - 1)
  \/ \E p \in Processes : Current(p) /\ seenAt - Throttle + 1 <= touch[p].now

(* The first to end will count nobody who had been there within a gap.     *)
Sure ==
  \A p \in Processes :
    Current(p) /\ (\A q \in Processes : Current(q) => touch[p].now <= touch[q].now)
               /\ Behind(touch[p].now, Gap - 1) => touch[p].now \in back

(* When a gap is short every request is one after most of a gap.           *)
Short == Gap <= 2 * Throttle =>
  /\ seenAt # -1 => seenAt \in back
  /\ \A p \in Processes : Current(p) => touch[p].now \in back

(* Whoever was counted came back, or something was missed.                 *)
Explained == \A c \in counted : c.late \/ \E t \in back : c.at \in t .. t + 1

(* What every step keeps.                                                  *)
LoginInv ==
  /\ LoginTypes /\ Past /\ Lives /\ Read /\ Apart
  /\ \A t \in resumed : Returned(t)
  /\ missed \/ (Told /\ Followed)
  /\ missed \/ Gap <= 2 * Throttle \/ Sure
  /\ Short /\ Explained

(* What a request does: it begins a statement, or it does not.             *)
Reading(p) == [at |-> "read", now |-> hour, prev |-> account.last, life |-> account.life]

(* The server notes the time, or leaves its record alone.                  *)
Noted(p) ==
  \/ touched' = touched /\ older' = older
  \/ touched' = [touched EXCEPT ![p] = hour] /\ older' = older \ {p}

(* The user is seen.                                                       *)
Asked(p) ==
  /\ touch[p] = Login!Still /\ account # Login!Gone
  /\ seenAt' = hour
  /\ back' = IF Login!Idle > Gap - 2 * Throttle THEN back \cup {hour} ELSE back
  /\ UNCHANGED <<account, logins, hour, edits, counted>>

(* A statement begins.                                                     *)
Begun(p) ==
  /\ Asked(p) /\ Noted(p)
  /\ touch' = [touch EXCEPT ![p] = Reading(p)]
  /\ resumed' = IF Login!Idle > Gap THEN resumed \cup {hour} ELSE resumed
  /\ missed' = missed

(* None begins: it failed, the server keeps it, or has told the row lately. *)
Quiet(p) ==
  /\ Asked(p) /\ Noted(p)
  /\ UNCHANGED <<touch, resumed>>
  /\ missed' \in BOOLEAN
  /\ \/ missed'
     \/ /\ missed' = missed /\ touched' = touched /\ older' = older
        /\ p \notin older /\ touched[p] # -1 /\ hour - touched[p] < Throttle

(* What is assumed of the constants.                                       *)
LEMMA LoginConstants ==
  /\ Throttle \in Nat /\ Gap \in Nat /\ MaxHour \in Nat /\ MaxEdits \in Nat /\ 0 < Throttle /\ Throttle <= Gap
BY ServerAssumption

(* A request and a counted call do one or the other.                       *)
LEMMA RequestEffect ==
  ASSUME LoginInv, NEW p \in Processes, NEW hit \in BOOLEAN, Login!Request(p, hit) \/ Login!CountCall(p, hit)
  PROVE  Begun(p) \/ Quiet(p)
<1> USE DEF LoginInv
<1>0. missed \in BOOLEAN /\ touched[p] \in Nat \cup {-1} /\ hour \in Nat /\ seenAt \in Nat \cup {-1}
  BY LoginConstants DEF LoginTypes
<1>1. CASE Login!CountCall(p, hit)
  <2>1. Asked(p)
    BY <1>1 DEF Login!CountCall, Asked, Login!Returns, Login!Exists
  <2>2. touched' = touched /\ older' = older /\ missed' = (missed \/ hit)
    BY <1>1 DEF Login!CountCall, Login!Begin
  <2>3. CASE hit
    BY <1>1, <2>1, <2>2, <2>3 DEF Login!CountCall, Login!Begin, Login!Returns, Quiet, Noted
  <2>4. CASE ~hit
    <3>1. touch' = [touch EXCEPT ![p] = Reading(p)]
      BY <1>1, <2>4 DEF Login!CountCall, Login!Begin, Reading
    <3>2. resumed' = IF Login!Idle > Gap THEN resumed \cup {hour} ELSE resumed
      BY <1>1, <2>4 DEF Login!CountCall, Login!Returns
    <3> QED
      BY <1>0, <2>1, <2>2, <2>4, <3>1, <3>2 DEF Begun, Noted
  <2> QED
    BY <2>3, <2>4
<1>2. CASE Login!Request(p, hit)
  <2>1. Asked(p)
    BY <1>2 DEF Login!Request, Asked, Login!Returns, Login!Exists
  <2>2. Noted(p)
    BY <1>2 DEF Login!Request, Noted
  <2>3. CASE hit
    <3>1. Login!Due(p)
      BY <1>2, <2>3 DEF Login!Request
    <3> QED
      BY <1>2, <2>1, <2>2, <2>3, <3>1 DEF Login!Request, Login!Begin, Login!Returns, Quiet
  <2>4. CASE ~hit /\ Login!Due(p)
    <3>1. touch' = [touch EXCEPT ![p] = Reading(p)] /\ missed' = (missed \/ hit)
      BY <1>2, <2>4 DEF Login!Request, Login!Begin, Reading
    <3>2. resumed' = IF Login!Idle > Gap THEN resumed \cup {hour} ELSE resumed
      BY <1>2, <2>4 DEF Login!Request, Login!Returns, Login!Withheld
    <3> QED
      BY <1>0, <2>1, <2>2, <2>4, <3>1, <3>2 DEF Begun
  <2>5. CASE ~hit /\ ~Login!Due(p) /\ p \in older
    BY <1>2, <2>1, <2>2, <2>5 DEF Login!Request, Login!Withheld, Login!Returns, Quiet
  <2>6. CASE ~hit /\ ~Login!Due(p) /\ p \notin older
    <3>1. touched' = touched /\ older' = older /\ touch' = touch /\ missed' = (missed \/ FALSE)
      BY <1>2, <2>6 DEF Login!Request, Login!Withheld
    <3>2. touched[p] # -1 /\ hour - touched[p] < Throttle
      BY <1>0, <2>6, LoginConstants DEF Login!Due, Login!Never
    <3>3. touched[p] <= seenAt /\ seenAt # -1
      BY <1>0, <2>6, <3>2 DEF Past
    <3>4. ~(Login!Idle > Gap)
      BY <1>0, <3>2, <3>3, LoginConstants DEF Login!Idle, Login!Never
    <3>5. resumed' = resumed
      BY <1>2, <2>6, <3>4 DEF Login!Request, Login!Withheld, Login!Returns
    <3> QED
      BY <1>0, <2>1, <2>2, <2>6, <3>1, <3>2, <3>5 DEF Quiet
  <2> QED
    BY <2>3, <2>4, <2>5, <2>6
<1> QED
  BY <1>1, <1>2

(* How a statement ends: refused, taken, or taken for a login.             *)
Ended(p) ==
  /\ touch[p] \in Statement /\ touch' = [touch EXCEPT ![p] = Login!Still]
  /\ UNCHANGED <<touched, hour, edits, seenAt, resumed, back, older>>

(* The row takes the statement's time,                                     *)
Moved(p) ==
  /\ Current(p) /\ Behind(touch[p].now, Throttle)
  /\ account' = [account EXCEPT !.last = touch[p].now]

(* or not: another has been there,                                         *)
Refused(p) ==
  /\ Current(p) => ~Behind(touch[p].now, Throttle)
  /\ UNCHANGED <<account, logins, counted, missed>>

(* and without a login when the session goes on                            *)
Taken(p) == Moved(p) /\ ~Early(touch[p].now) /\ UNCHANGED <<logins, counted, missed>>

(* or with one.                                                            *)
Counts(p) ==
  /\ Moved(p) /\ Early(touch[p].now)
  /\ logins' = logins + 1
  /\ counted' = counted \cup {[at |-> touch[p].now, late |-> missed]}
  /\ missed' = FALSE

(* A statement ends in one of these ways.                                  *)
LEMMA FinishEffect ==
  ASSUME LoginInv, NEW p \in Processes, Login!Finish(p)
  PROVE  Ended(p) /\ (Refused(p) \/ Taken(p) \/ Counts(p))
<1> USE DEF LoginInv
<1>1. PICK e : e = touch[p]
  OBVIOUS
<1>2. e.at = "read" /\ e \in Statement
  BY <1>1 DEF Login!Finish, LoginTypes, Login!Still
<1>3. Ended(p)
  BY <1>1, <1>2 DEF Login!Finish, Ended
<1>4. /\ account' = IF Login!Takes(e) THEN [account EXCEPT !.last = e.now] ELSE account
      /\ logins' = logins + (IF Login!NewSession(e) THEN 1 ELSE 0)
      /\ counted' = IF Login!NewSession(e) THEN counted \cup {[at |-> e.now, late |-> missed]} ELSE counted
      /\ missed' = (missed /\ ~Login!NewSession(e))
  BY <1>1 DEF Login!Finish
<1>5. e.now \in Nat /\ e.prev \in Nat \cup {-1} /\ account.last \in Nat \cup {-1} /\ missed \in BOOLEAN
  BY <1>2 DEF Statement, LoginTypes
<1>6. logins \in Nat
  BY FS_CardinalityType DEF Apart, LoginTypes
<1>7. Login!Takes(e) <=> Current(p) /\ Behind(e.now, Throttle)
  <2>1. Current(p) <=> account.life = e.life
    BY <1>1, <1>2 DEF Current
  <2> QED
    BY <2>1, <1>5, LoginConstants DEF Login!Takes, Behind, Login!Never
<1>8. CASE ~Login!Takes(e)
  <2>1. ~Login!NewSession(e)
    BY <1>8 DEF Login!NewSession
  <2>2. logins' = logins
    BY <1>4, <1>6, <2>1
  <2> QED
    BY <1>1, <1>3, <1>4, <1>5, <1>7, <1>8, <2>1, <2>2 DEF Refused
<1>9. CASE Login!Takes(e)
  <2>1. Current(p) /\ Behind(e.now, Throttle)
    BY <1>7, <1>9
  <2>2. Moved(p)
    BY <1>1, <1>4, <1>9, <2>1 DEF Moved
  <2>3. e.prev = account.last
    <3>1. e.prev = account.last \/ (account.last # -1 /\ e.now - 1 <= account.last)
      BY <1>1, <2>1 DEF Read
    <3>2. ~(account.last # -1 /\ e.now - 1 <= account.last)
      BY <1>5, <2>1, LoginConstants DEF Behind
    <3> QED
      BY <3>1, <3>2
  <2>4. Login!NewSession(e) <=> Early(e.now)
    BY <1>5, <1>9, <2>3, LoginConstants DEF Login!NewSession, Login!Never, Early
  <2>5. CASE Login!NewSession(e)
    BY <1>1, <1>3, <1>4, <2>2, <2>4, <2>5 DEF Counts
  <2>6. CASE ~Login!NewSession(e)
    <3>1. logins' = logins /\ missed' = missed /\ counted' = counted
      BY <1>4, <1>5, <1>6, <2>6
    <3> QED
      BY <1>1, <1>3, <2>2, <2>4, <2>6, <3>1 DEF Taken
  <2> QED
    BY <2>5, <2>6
<1> QED
  BY <1>8, <1>9

(* What an administrator and a start of a server do to the account.        *)
Forgotten ==
  /\ resumed' = {} /\ counted' = {} /\ back' = {} /\ logins' = 0 /\ seenAt' = -1 /\ missed' = FALSE
  /\ older' = {p \in Processes : touched[p] # -1}
  /\ edits' = edits + 1 /\ edits' \in Nat
  /\ account' = Login!Gone \/ account' = Login!Fresh(edits + 2)
  /\ UNCHANGED <<touched, touch, hour>>

(* Switching the account on and off changes nothing else.                  *)
Kept ==
  /\ edits' = edits + 1 /\ edits' \in Nat
  /\ \/ account # Login!Gone /\ account' \in [life : {account.life}, active : BOOLEAN, last : {account.last}]
     \/ account = Login!Gone /\ account' = Login!Gone
  /\ UNCHANGED <<touched, touch, logins, hour, seenAt, resumed, counted, back, older, missed>>

(* A start of a server loses its record and the statement it was running.  *)
Restarted(p) ==
  /\ edits' = edits + 1 /\ edits' \in Nat
  /\ \/ account # Login!Gone /\ account' \in [life : {account.life}, active : BOOLEAN, last : {account.last}]
     \/ account = Login!Gone /\ (account' = Login!Gone \/ account' = Login!Fresh(edits + 2))
  /\ touched' = [touched EXCEPT ![p] = -1]
  /\ touch' = [touch EXCEPT ![p] = Login!Still]
  /\ \/ touch[p] = Login!Still /\ UNCHANGED <<resumed, missed>>
     \/ touch[p] # Login!Still /\ resumed' = {} /\ missed' = TRUE
  /\ older' = older \ {p}
  /\ UNCHANGED <<logins, hour, seenAt, counted, back>>

(* What an administrator does.                                             *)
LEMMA EditEffect ==
  ASSUME LoginInv, Login!CreateUser \/ Login!DeleteUser \/ Login!UpdateUser
  PROVE  Forgotten \/ Kept
<1> USE DEF LoginInv
<1>1. edits \in Nat /\ edits + 1 \in Nat
  BY DEF LoginTypes
<1>2. CASE Login!CreateUser \/ Login!DeleteUser
  BY <1>1, <1>2 DEF Login!CreateUser, Login!DeleteUser, Login!Forget, Login!Never, Forgotten
<1>3. CASE Login!UpdateUser
  <2>1. account # Login!Gone /\ account' = [account EXCEPT !.active = ~@]
    BY <1>3 DEF Login!UpdateUser, Login!Exists
  <2>2. account' \in [life : {account.life}, active : BOOLEAN, last : {account.last}]
    BY <2>1 DEF LoginTypes
  <2> QED
    BY <1>1, <1>3, <2>1, <2>2 DEF Login!UpdateUser, Kept
<1> QED
  BY <1>2, <1>3

(* What a start does, seeding the default users.                           *)
LEMMA StartEffect ==
  ASSUME LoginInv, NEW p \in Processes, Login!Start(p)
  PROVE  Restarted(p)
<1> USE DEF LoginInv
<1>1. edits \in Nat /\ edits + 1 \in Nat /\ missed \in BOOLEAN
  BY DEF LoginTypes
<1>2. /\ account' = Login!Seeded
      /\ touched' = [touched EXCEPT ![p] = -1] /\ touch' = [touch EXCEPT ![p] = Login!Still]
      /\ edits' = edits + 1 /\ older' = older \ {p}
      /\ resumed' = IF touch[p] = Login!Still THEN resumed ELSE {}
      /\ missed' = (missed \/ touch[p] # Login!Still)
      /\ UNCHANGED <<logins, hour, seenAt, counted, back>>
  BY DEF Login!Start, Login!Never
<1>3. \/ account # Login!Gone /\ account' \in [life : {account.life}, active : BOOLEAN, last : {account.last}]
      \/ account = Login!Gone /\ (account' = Login!Gone \/ account' = Login!Fresh(edits + 2))
  <2>1. CASE account = Login!Gone
    BY <1>2, <2>1 DEF Login!Seeded, Login!Exists
  <2>2. CASE account # Login!Gone
    BY <1>2, <2>2 DEF Login!Seeded, Login!Exists, LoginTypes
  <2> QED
    BY <2>1, <2>2
<1> QED
  BY <1>1, <1>2, <1>3 DEF Restarted

(* Time passes only when no statement is old.                              *)
LEMMA TickKeeps == LoginInv /\ Login!Tick => LoginInv'
<1> SUFFICES ASSUME LoginInv, Login!Tick PROVE LoginInv'
  OBVIOUS
<1> USE DEF LoginInv
<1>1. /\ hour < MaxHour /\ hour' = hour + 1 /\ hour \in Nat
      /\ \A p \in Processes : touch[p].at = "read" => touch[p].now = hour
      /\ UNCHANGED <<seeded, account, touched, touch, logins, edits, seenAt, resumed, counted, back, older, missed>>
  BY LoginConstants DEF Login!Tick, LoginTypes
<1>2. LoginTypes'
  BY <1>1, LoginConstants DEF LoginTypes, Statement
<1>3. Past'
  <2>1. \A x \in Nat \cup {-1} : x <= hour => x <= hour + 1
    BY <1>1
  <2>2. \A p \in Processes : touch[p].at = "read" => touch[p].now \in Nat \cup {-1} /\ touch[p].prev \in Nat \cup {-1}
    BY DEF LoginTypes, Statement, Login!Still
  <2>3. seenAt <= hour + 1 /\ \A t \in resumed \cup back : t <= hour + 1
    BY <2>1 DEF Past, LoginTypes
  <2>4. ASSUME NEW p \in Processes
        PROVE  /\ touched[p] <= hour + 1
               /\ touch[p].at = "read" => touch[p].now <= hour + 1 /\ hour <= touch[p].now /\ touch[p].prev <= hour + 1
    BY <1>1, <2>1, <2>2 DEF Past, LoginTypes
  <2>5. (hour + 1) - 1 = hour
    BY <1>1
  <2> QED
    BY <1>1, <2>3, <2>4, <2>5 DEF Past
<1>4. (Lives /\ Read /\ Apart)'
  BY <1>1 DEF Lives, Read, Apart, Current
<1>5. \A t \in resumed' : Returned(t)'
  BY <1>1 DEF Returned, Current, Early
<1>6. missed' \/ (Told' /\ Followed')
  BY <1>1 DEF Told, Followed, Current, Behind
<1>7. missed' \/ Gap <= 2 * Throttle \/ Sure'
  BY <1>1 DEF Sure, Current, Behind
<1>8. Short' /\ Explained'
  BY <1>1 DEF Short, Explained, Current
<1> QED
  BY <1>2, <1>3, <1>4, <1>5, <1>6, <1>7, <1>8

(* Users that are switched on or off keep their history.                   *)
LEMMA KeptKeeps == LoginInv /\ Kept => LoginInv'
<1> SUFFICES ASSUME LoginInv, Kept PROVE LoginInv'
  OBVIOUS
<1> USE DEF LoginInv
<1>1. /\ edits' = edits + 1 /\ edits \in Nat /\ edits' \in Nat
      /\ UNCHANGED <<touched, touch, logins, hour, seenAt, resumed, counted, back, older, missed>>
  BY DEF Kept, LoginTypes
<1>2. /\ account'.life = account.life /\ account'.last = account.last
      /\ account' \in [life : Nat, active : BOOLEAN, last : Nat \cup {-1}]
      /\ account' = Login!Gone <=> account = Login!Gone
  <2>1. CASE account # Login!Gone /\ account' \in [life : {account.life}, active : BOOLEAN, last : {account.last}]
    <3>1. account.life # 0 /\ account.life \in Nat /\ account.last \in Nat \cup {-1}
      BY <2>1 DEF Lives, LoginTypes
    <3>2. account'.life # Login!Gone.life
      BY <2>1, <3>1 DEF Login!Gone
    <3>3. account' # Login!Gone
      BY <3>2
    <3> QED
      BY <2>1, <3>1, <3>3
  <2>2. CASE account = Login!Gone /\ account' = Login!Gone
    BY <2>2 DEF Login!Gone, Login!Never
  <2> QED
    BY <2>1, <2>2 DEF Kept
<1>3. LoginTypes'
  BY <1>1, <1>2 DEF LoginTypes
<1>4. Past' /\ Read' /\ Apart'
  BY <1>1, <1>2 DEF Past, Read, Apart, Current
<1>5. Lives'
  <2>1. \A n \in Nat : n <= edits + 1 => n <= (edits + 1) + 1
    BY <1>1
  <2>2. \A n \in 1 .. edits + 1 : n \in 1 .. (edits + 1) + 1
    BY <1>1
  <2>3. account.life \in Nat
    BY DEF LoginTypes
  <2> QED
    BY <1>1, <1>2, <2>1, <2>2, <2>3 DEF Lives
<1>6. \A t \in resumed' : Returned(t)'
  BY <1>1, <1>2 DEF Returned, Current, Early
<1>7. missed' \/ (Told' /\ Followed')
  BY <1>1, <1>2 DEF Told, Followed, Current, Behind
<1>8. missed' \/ Gap <= 2 * Throttle \/ Sure'
  BY <1>1, <1>2 DEF Sure, Current, Behind
<1>9. Short' /\ Explained'
  BY <1>1, <1>2 DEF Short, Explained, Current
<1> QED
  BY <1>3, <1>4, <1>5, <1>6, <1>7, <1>8, <1>9

(* A new life has no statement, no request and no login yet.               *)
LEMMA ForgottenKeeps == LoginInv /\ Forgotten => LoginInv'
<1> SUFFICES ASSUME LoginInv, Forgotten PROVE LoginInv'
  OBVIOUS
<1> USE DEF LoginInv
<1>1. /\ edits' = edits + 1 /\ edits \in Nat /\ edits' \in Nat
      /\ resumed' = {} /\ counted' = {} /\ back' = {} /\ logins' = 0 /\ seenAt' = -1 /\ missed' = FALSE
      /\ older' = {p \in Processes : touched[p] # -1}
      /\ UNCHANGED <<touched, touch, hour>>
  BY DEF Forgotten, LoginTypes
<1>2. /\ account' \in [life : Nat, active : BOOLEAN, last : Nat \cup {-1}] /\ account'.last = -1
      /\ (account' = Login!Gone /\ account'.life = 0) \/ (account' # Login!Gone /\ account'.life = edits + 2)
  <2>1. edits + 2 \in Nat /\ edits + 2 # 0
    BY <1>1
  <2> QED
    <3>1. CASE account' = Login!Gone
      BY <3>1 DEF Login!Gone, Login!Never
    <3>2. CASE account' = Login!Fresh(edits + 2)
      <4>1. account'.life = edits + 2 /\ account'.life # Login!Gone.life
        BY <2>1, <3>2 DEF Login!Gone, Login!Fresh
      <4>2. account' # Login!Gone
        BY <4>1
      <4> QED
        BY <2>1, <3>2, <4>1, <4>2 DEF Login!Fresh, Login!Never
    <3> QED
      BY <3>1, <3>2 DEF Forgotten
<1>3. \A p \in Processes : ~Current(p)'
  <2> SUFFICES ASSUME NEW p \in Processes, Current(p)' PROVE FALSE
    OBVIOUS
  <2>1. touch[p].at = "read" /\ touch[p].life = account'.life
    BY <1>1 DEF Current
  <2>2. touch[p].life \in 1 .. edits + 1
    BY <2>1 DEF Lives
  <2> QED
    BY <1>1, <1>2, <2>1, <2>2
<1>4. LoginTypes'
  BY <1>1, <1>2, FS_EmptySet DEF LoginTypes
<1>5. Past'
  <2>1. hour \in Nat /\ -1 <= hour
    BY LoginConstants DEF LoginTypes
  <2> QED
    BY <1>1, <1>2, <2>1 DEF Past
<1>6. Lives'
  <2>1. \A n \in 1 .. edits + 1 : n \in 1 .. (edits + 1) + 1
    BY <1>1
  <2>2. account'.life <= (edits + 1) + 1
    BY <1>1, <1>2
  <2>3. edits + 2 # 0
    BY <1>1
  <2> QED
    BY <1>1, <1>2, <2>1, <2>2, <2>3 DEF Lives
<1>7. Read' /\ Apart'
  BY <1>1, <1>3, FS_EmptySet DEF Read, Apart
<1>8. (Told /\ Followed /\ Sure /\ Short /\ Explained)'
  BY <1>1, <1>3 DEF Told, Followed, Sure, Short, Explained
<1> QED
  BY <1>1, <1>4, <1>5, <1>6, <1>7, <1>8

(* A restart loses a record and a statement, which is then missed.         *)
LEMMA RestartedKeeps ==
  ASSUME LoginInv, NEW p \in Processes, Restarted(p)
  PROVE  LoginInv'
<1> USE DEF LoginInv
<1>1. /\ edits' = edits + 1 /\ edits \in Nat /\ edits' \in Nat
      /\ touched' = [touched EXCEPT ![p] = -1] /\ touch' = [touch EXCEPT ![p] = Login!Still]
      /\ older' = older \ {p}
      /\ UNCHANGED <<logins, hour, seenAt, counted, back>>
  BY DEF Restarted, LoginTypes
<1>2. touched'[p] = -1 /\ touch'[p].at = "none" /\ \A q \in Processes \ {p} : touched'[q] = touched[q] /\ touch'[q] = touch[q]
  BY <1>1 DEF LoginTypes, Login!Still
<1>3. /\ account' \in [life : Nat, active : BOOLEAN, last : Nat \cup {-1}] /\ account'.last = account.last
      /\ account' = Login!Gone <=> account'.life = 0
      /\ account'.life <= (edits + 1) + 1
      /\ account' = Login!Gone => account = Login!Gone
      /\ account'.life = account.life \/ (account = Login!Gone /\ account'.life = edits + 2)
  <2>1. CASE account # Login!Gone /\ account' \in [life : {account.life}, active : BOOLEAN, last : {account.last}]
    <3>1. account.life # 0 /\ account.life \in Nat /\ account.life <= edits + 1 /\ account.last \in Nat \cup {-1}
      BY <2>1 DEF Lives, LoginTypes
    <3>2. account.life <= (edits + 1) + 1
      BY <1>1, <3>1
    <3> QED
      BY <2>1, <3>1, <3>2 DEF Login!Gone, Login!Never
  <2>2. CASE account = Login!Gone /\ account' = Login!Gone
    BY <1>1, <2>2 DEF Login!Gone, Login!Never
  <2>3. CASE account = Login!Gone /\ account' = Login!Fresh(edits + 2)
    <3>1. edits + 2 \in Nat /\ edits + 2 # 0 /\ edits + 2 <= (edits + 1) + 1
      BY <1>1
    <3> QED
      BY <2>3, <3>1 DEF Login!Gone, Login!Never, Login!Fresh
  <2> QED
    BY <2>1, <2>2, <2>3 DEF Restarted
<1>4. \A q \in Processes : Current(q)' => Current(q) /\ q # p
  <2> SUFFICES ASSUME NEW q \in Processes, Current(q)' PROVE Current(q) /\ q # p
    OBVIOUS
  <2>1. q # p /\ touch[q].at = "read" /\ touch[q].life = account'.life
    BY <1>2 DEF Current
  <2>2. touch[q].life \in 1 .. edits + 1
    BY <2>1 DEF Lives
  <2>3. account'.life # edits + 2
    BY <1>1, <2>1, <2>2
  <2> QED
    BY <1>3, <2>1, <2>3 DEF Current
<1>5. /\ resumed' \subseteq resumed /\ missed' \in BOOLEAN /\ (missed => missed')
      /\ ~missed' => touch[p] = Login!Still
      /\ resumed' # {} => touch[p] = Login!Still
  <2>1. missed \in BOOLEAN
    BY DEF LoginTypes
  <2>2. CASE touch[p] = Login!Still /\ UNCHANGED <<resumed, missed>>
    BY <2>1, <2>2
  <2>3. CASE touch[p] # Login!Still /\ resumed' = {} /\ missed' = TRUE
    BY <2>1, <2>3
  <2> QED
    BY <2>2, <2>3 DEF Restarted
<1>6. account # Login!Gone => \A q \in Processes \ {p} : Current(q)' <=> Current(q)
  <2> SUFFICES ASSUME account # Login!Gone PROVE account'.life = account.life
    BY <1>2 DEF Current
  <2> QED
    BY <1>3
<1>7. ~Current(p) \/ touch[p] # Login!Still
  BY DEF Current, Login!Still
<1>8. LoginTypes'
  BY <1>1, <1>3, <1>5 DEF LoginTypes
<1>9. Past'
  <2>1. hour \in Nat /\ -1 <= hour /\ seenAt \in Nat \cup {-1} /\ -1 <= seenAt
    BY LoginConstants DEF LoginTypes
  <2> QED
    BY <1>1, <1>2, <1>3, <1>5, <2>1 DEF Past
<1>10. Lives'
  <2>1. \A n \in 1 .. edits + 1 : n \in 1 .. (edits + 1) + 1
    BY <1>1
  <2>2. \A q \in Processes : touch'[q].at = "read" => touch'[q].life \in 1 .. (edits + 1) + 1
    BY <1>2, <2>1 DEF Lives
  <2> QED
    BY <1>1, <1>3, <1>5, <2>2 DEF Lives
<1>11. Read' /\ Apart'
  BY <1>1, <1>2, <1>3, <1>4 DEF Read, Apart
<1>12. \A t \in resumed' : Returned(t)'
  <2> SUFFICES ASSUME NEW t \in resumed' PROVE Returned(t)'
    OBVIOUS
  <2>1. Returned(t) /\ account # Login!Gone /\ ~Current(p)
    BY <1>5, <1>7 DEF Lives
  <2> QED
    BY <1>1, <1>2, <1>3, <1>6, <2>1, <1>4 DEF Returned, Early
<1>13. missed' \/ (Told' /\ Followed')
  <2> SUFFICES ASSUME ~missed' PROVE Told' /\ Followed'
    OBVIOUS
  <2>1. ~missed /\ ~Current(p)
    BY <1>5, <1>7
  <2>2. CASE account # Login!Gone
    <3>1. Told'
      BY <1>1, <1>2, <1>3, <1>6, <2>1, <2>2 DEF Told, Behind
    <3>2. Followed'
      BY <1>1, <1>2, <1>3, <1>6, <2>1, <2>2 DEF Followed, Behind
    <3> QED
      BY <3>1, <3>2
  <2>3. CASE account = Login!Gone
    <3>1. seenAt = -1 /\ \A q \in Processes : q \notin older => touched[q] = -1
      BY <2>3 DEF Lives, Past, LoginTypes
    <3> QED
      BY <1>1, <1>2, <3>1 DEF Told, Followed
  <2> QED
    BY <2>2, <2>3
<1>14. missed' \/ Gap <= 2 * Throttle \/ Sure'
  <2> SUFFICES ASSUME ~missed', ~(Gap <= 2 * Throttle) PROVE Sure'
    OBVIOUS
  <2>1. ~missed /\ ~Current(p) /\ Sure
    BY <1>5, <1>7
  <2>2. CASE account # Login!Gone
    BY <1>1, <1>2, <1>3, <1>4, <1>6, <2>1, <2>2 DEF Sure, Behind
  <2>3. CASE account = Login!Gone
    <3>1. account.life = 0 /\ \A q \in Processes : ~Current(q)
      BY <2>3 DEF Lives, Current
    <3> QED
      BY <1>4, <3>1 DEF Sure
  <2> QED
    BY <2>2, <2>3
<1>15. Short' /\ Explained'
  BY <1>1, <1>2, <1>4 DEF Short, Explained
<1> QED
  BY <1>8, <1>9, <1>10, <1>11, <1>12, <1>13, <1>14, <1>15

(* How long the user had been away.                                        *)
LEMMA IdleFacts ==
  ASSUME LoginInv
  PROVE  /\ Login!Idle \in Int
         /\ seenAt = -1 => account.last = -1 /\ Login!Idle > Gap - 2 * Throttle
         /\ seenAt # -1 => seenAt \in Nat /\ Login!Idle = hour - seenAt
<1>1. hour \in Nat /\ seenAt \in Nat \cup {-1} /\ account.last \in Nat \cup {-1} /\ account.last <= seenAt
  BY LoginConstants DEF LoginInv, LoginTypes, Past
<1> QED
  BY <1>1, LoginConstants DEF Login!Idle, Login!Never, Login!Longest

(* What every request keeps: the row stands, and the user was there now.   *)
LEMMA AskedKeeps ==
  ASSUME LoginInv, NEW p \in Processes, Asked(p), Noted(p)
  PROVE  /\ hour \in Nat /\ hour' = hour /\ seenAt' = hour /\ seenAt \in Nat \cup {-1} /\ seenAt <= hour
         /\ account' = account /\ account.last \in Nat \cup {-1} /\ account.last <= seenAt
         /\ counted' = counted /\ logins' = logins /\ edits' = edits
         /\ back \subseteq back' /\ back' \subseteq back \cup {hour}
         /\ touched' \in [Processes -> Nat \cup {-1}] /\ older' \subseteq older /\ touched'[p] <= hour
         /\ \A q \in Processes : touched'[q] <= hour /\ (q # p => touched'[q] = touched[q] /\ (q \in older' <=> q \in older))
         /\ Gap <= 2 * Throttle => hour \in back'
         /\ \A q \in Processes : Current(q) => touch[q].now \in Nat /\ touch[q].now <= seenAt /\ hour - 1 <= touch[q].now
         /\ ~Current(p) /\ account # Login!Gone
<1> USE DEF LoginInv
<1>1. hour \in Nat /\ seenAt \in Nat \cup {-1} /\ account.last \in Nat \cup {-1}
  BY LoginConstants DEF LoginTypes
<1>2. account.last <= seenAt /\ seenAt <= hour
  BY DEF Past
<1>3. back \subseteq back' /\ back' \subseteq back \cup {hour}
  BY DEF Asked
<1>4. touched' \in [Processes -> Nat \cup {-1}] /\ older' \subseteq older
  BY <1>1 DEF Noted, LoginTypes
<1>5. \A q \in Processes : touched'[q] <= hour /\ (q # p => touched'[q] = touched[q] /\ (q \in older' <=> q \in older))
  <2>1. hour <= hour
    BY <1>1
  <2> QED
    BY <2>1 DEF Noted, LoginTypes, Past
<1>6. Gap <= 2 * Throttle => hour \in back'
  <2> SUFFICES ASSUME Gap <= 2 * Throttle PROVE hour \in back'
    OBVIOUS
  <2>1. CASE seenAt = hour
    BY <1>1, <1>3, <2>1 DEF Short
  <2>2. CASE seenAt # hour
    <3>1. Login!Idle > Gap - 2 * Throttle
      BY <1>1, <1>2, <2>2, IdleFacts, LoginConstants
    <3> QED
      BY <3>1 DEF Asked
  <2> QED
    BY <2>1, <2>2
<1>7. \A q \in Processes : Current(q) => touch[q].now \in Nat /\ touch[q].now <= seenAt /\ hour - 1 <= touch[q].now
  <2> SUFFICES ASSUME NEW q \in Processes, Current(q)
               PROVE  touch[q].now \in Nat /\ touch[q].now <= seenAt /\ hour - 1 <= touch[q].now
    OBVIOUS
  <2>1. touch[q].at = "read" /\ touch[q] \in {Login!Still} \cup Statement
    BY DEF Current, LoginTypes
  <2>2. touch[q].now \in Nat
    BY <2>1 DEF Statement, Login!Still
  <2> QED
    BY <2>1, <2>2 DEF Read, Past
<1>8. ~Current(p)
  BY DEF Asked, Current, Login!Still
<1> QED
  BY <1>1, <1>2, <1>3, <1>4, <1>5, <1>6, <1>7, <1>8 DEF Asked

(* A statement begins, the latest of all.                                  *)
LEMMA BegunKeeps ==
  ASSUME LoginInv, NEW p \in Processes, Begun(p)
  PROVE  LoginInv'
<1> USE DEF LoginInv
<1>0. Asked(p) /\ Noted(p)
  BY DEF Begun
<1>1. /\ hour \in Nat /\ hour' = hour /\ seenAt' = hour /\ seenAt \in Nat \cup {-1} /\ seenAt <= hour
      /\ account' = account /\ account.last \in Nat \cup {-1} /\ account.last <= seenAt
      /\ counted' = counted /\ logins' = logins /\ edits' = edits
      /\ back \subseteq back' /\ back' \subseteq back \cup {hour}
      /\ touched' \in [Processes -> Nat \cup {-1}] /\ older' \subseteq older /\ touched'[p] <= hour
      /\ \A q \in Processes : touched'[q] <= hour /\ (q # p => touched'[q] = touched[q] /\ (q \in older' <=> q \in older))
      /\ Gap <= 2 * Throttle => hour \in back'
      /\ \A q \in Processes : Current(q) => touch[q].now \in Nat /\ touch[q].now <= seenAt /\ hour - 1 <= touch[q].now
      /\ ~Current(p) /\ account # Login!Gone
  BY <1>0, AskedKeeps
<1>2. PICK f : f = Reading(p)
  OBVIOUS
<1>3. f.at = "read" /\ f.now = hour /\ f.prev = account.last /\ f.life = account.life
  BY <1>2 DEF Reading
<1>4. account.life \in Nat /\ account.life # 0 /\ account.life <= edits + 1 /\ edits \in Nat
  BY <1>1 DEF LoginTypes, Lives
<1>5. f \in Statement
  BY <1>1, <1>2, <1>4 DEF Reading, Statement
<1>6. touch' = [touch EXCEPT ![p] = f] /\ touch'[p] = f /\ \A q \in Processes \ {p} : touch'[q] = touch[q]
  BY <1>2 DEF Begun, LoginTypes
<1>7. Current(p)' /\ \A q \in Processes \ {p} : Current(q)' <=> Current(q)
  BY <1>1, <1>3, <1>6 DEF Current
<1>8. missed' = missed /\ resumed' = IF Login!Idle > Gap THEN resumed \cup {hour} ELSE resumed
  BY DEF Begun
<1>9. LoginTypes'
  BY <1>1, <1>5, <1>6, <1>8 DEF LoginTypes
<1>10. Past'
  <2>1. \A t \in resumed' \cup back' : t <= hour
    <3>1. \A t \in resumed \cup back : t <= hour
      BY DEF Past
    <3>2. hour <= hour
      BY <1>1
    <3> QED
      BY <1>1, <1>8, <3>1, <3>2
  <2>2. hour <= hour /\ hour - 1 <= hour /\ account.last <= hour
    BY <1>1
  <2>3. \A q \in Processes : touch'[q].at = "read" => touch'[q].now <= hour /\ hour - 1 <= touch'[q].now /\ touch'[q].prev <= hour
    BY <1>3, <1>6, <2>2 DEF Past
  <2> QED
    BY <1>1, <2>1, <2>2, <2>3 DEF Past
<1>11. Lives'
  <2>1. account.life \in 1 .. edits + 1
    BY <1>4
  <2> QED
    BY <1>1, <1>3, <1>6, <2>1 DEF Lives
<1>12. Read'
  <2>1. \A n \in Nat : n <= seenAt => n <= hour
    BY <1>1
  <2>2. hour <= hour
    BY <1>1
  <2> QED
    BY <1>1, <1>3, <1>6, <1>7, <2>1, <2>2 DEF Read
<1>13. Apart'
  BY <1>1 DEF Apart
<1>14. \A t \in resumed' : Returned(t)'
  <2> SUFFICES ASSUME NEW t \in resumed' PROVE Returned(t)'
    OBVIOUS
  <2>1. CASE t \in resumed
    <3>1. Returned(t) /\ t <= hour
      BY <2>1 DEF Past
    <3> QED
      BY <1>1, <1>3, <1>6, <1>7, <3>1 DEF Returned, Early
  <2>2. CASE t \notin resumed
    <3>1. t = hour /\ Login!Idle > Gap
      BY <1>8, <2>2
    <3>2. seenAt = -1 \/ seenAt < hour - Gap
      BY <1>1, <3>1, IdleFacts, LoginConstants
    <3>3. Early(hour)
      BY <1>1, <3>2, LoginConstants DEF Early
    <3>4. \A q \in Processes : ~Current(q)
      <4> SUFFICES ASSUME NEW q \in Processes, Current(q) PROVE FALSE
        OBVIOUS
      <4>1. touch[q].now \in Nat /\ touch[q].now <= seenAt /\ hour - 1 <= touch[q].now
        BY <1>1
      <4> QED
        BY <1>1, <3>2, <4>1, LoginConstants
    <3>5. hour <= hour
      BY <1>1
    <3> QED
      BY <1>1, <1>3, <1>6, <1>7, <3>1, <3>3, <3>4, <3>5 DEF Returned, Early
  <2> QED
    BY <2>1, <2>2
<1>15. missed' \/ (Told' /\ Followed')
  <2> SUFFICES ASSUME ~missed PROVE Told' /\ Followed'
    BY <1>8
  <2>1. Told'
    BY <1>1, <1>3, <1>6, <1>7 DEF Told, Behind
  <2>2. hour - Throttle + 1 <= hour
    BY <1>1, LoginConstants
  <2>3. Followed'
    BY <1>1, <1>3, <1>6, <1>7, <2>2 DEF Followed
  <2> QED
    BY <2>1, <2>3
<1>16. missed' \/ Gap <= 2 * Throttle \/ Sure'
  <2> SUFFICES ASSUME ~missed, ~(Gap <= 2 * Throttle), NEW q \in Processes, Current(q)',
                      \A r \in Processes : Current(r)' => touch'[q].now <= touch'[r].now,
                      account.last = -1 \/ account.last < touch'[q].now - (Gap - 1)
               PROVE  touch'[q].now \in back'
    BY <1>1, <1>8 DEF Sure, Behind
  <2>1. CASE \E r \in Processes : Current(r)
    <3>1. PICK r \in Processes : Current(r) /\ \A s \in Processes : Current(s) => touch[r].now <= touch[s].now
      <4>1. PICK r \in Processes : Current(r)
        BY <2>1
      <4>2. \A s \in Processes : Current(s) => touch[s].now \in {hour - 1, hour}
        <5> SUFFICES ASSUME NEW s \in Processes, Current(s) PROVE touch[s].now \in {hour - 1, hour}
          OBVIOUS
        <5>1. touch[s].now \in Nat /\ touch[s].now <= seenAt /\ hour - 1 <= touch[s].now
          BY <1>1
        <5> QED
          BY <1>1, <5>1
      <4>3. hour - 1 <= hour /\ hour <= hour /\ hour - 1 <= hour - 1
        BY <1>1
      <4>4. CASE \E s \in Processes : Current(s) /\ touch[s].now = hour - 1
        BY <4>2, <4>3, <4>4
      <4>5. CASE ~\E s \in Processes : Current(s) /\ touch[s].now = hour - 1
        BY <4>1, <4>2, <4>3, <4>5
      <4> QED
        BY <4>4, <4>5
    <3>2. r # p /\ touch'[r] = touch[r] /\ Current(r)' /\ touch'[q].now <= touch[r].now
      BY <1>1, <1>6, <1>7, <3>1
    <3>3. CASE q # p
      <4>1. Current(q) /\ touch'[q] = touch[q] /\ \A s \in Processes : Current(s) => touch[q].now <= touch[s].now
        BY <1>1, <1>6, <1>7, <3>3
      <4> QED
        BY <1>1, <4>1 DEF Sure, Behind
    <3>4. CASE q = p
      <4>1. touch'[q].now = hour
        BY <1>3, <1>6, <3>4
      <4>2. touch[r].now \in Nat /\ touch[r].now <= seenAt
        BY <1>1, <3>1
      <4>3. touch[r].now = hour
        BY <1>1, <3>2, <4>1, <4>2
      <4> QED
        BY <1>1, <3>1, <4>1, <4>3 DEF Sure, Behind
    <3> QED
      BY <3>3, <3>4
  <2>2. CASE ~\E r \in Processes : Current(r)
    <3>1. q = p /\ touch'[q].now = hour
      BY <1>3, <1>6, <1>7, <2>2
    <3>2. seenAt = -1 \/ ~Behind(seenAt, 2 * Throttle - 1)
      BY <2>2 DEF Followed
    <3>3. Login!Idle > Gap - 2 * Throttle
      <4>1. CASE seenAt = -1
        BY <4>1, IdleFacts
      <4>2. CASE seenAt # -1
        <5>1. account.last # -1 /\ ~(account.last < seenAt - (2 * Throttle - 1))
          BY <3>2, <4>2 DEF Behind
        <5>2. account.last < hour - (Gap - 1)
          BY <3>1, <5>1
        <5>3. Login!Idle = hour - seenAt
          BY <4>2, IdleFacts
        <5> QED
          BY <1>1, <5>1, <5>2, <5>3, LoginConstants
      <4> QED
        BY <4>1, <4>2
    <3> QED
      BY <1>0, <3>1, <3>3 DEF Asked
  <2> QED
    BY <2>1, <2>2
<1>17. Short'
  BY <1>1, <1>3, <1>6, <1>7 DEF Short
<1>18. Explained'
  BY <1>1 DEF Explained
<1> QED
  BY <1>9, <1>10, <1>11, <1>12, <1>13, <1>14, <1>15, <1>16, <1>17, <1>18

(* A request that begins none leaves the row within the throttle.          *)
LEMMA QuietKeeps ==
  ASSUME LoginInv, NEW p \in Processes, Quiet(p)
  PROVE  LoginInv'
<1> USE DEF LoginInv
<1>0. Asked(p) /\ Noted(p) /\ touch' = touch /\ resumed' = resumed /\ missed' \in BOOLEAN
  BY DEF Quiet
<1>1. /\ hour \in Nat /\ hour' = hour /\ seenAt' = hour /\ seenAt \in Nat \cup {-1} /\ seenAt <= hour
      /\ account' = account /\ account.last \in Nat \cup {-1} /\ account.last <= seenAt
      /\ counted' = counted /\ logins' = logins /\ edits' = edits
      /\ back \subseteq back' /\ back' \subseteq back \cup {hour}
      /\ touched' \in [Processes -> Nat \cup {-1}] /\ older' \subseteq older /\ touched'[p] <= hour
      /\ \A q \in Processes : touched'[q] <= hour /\ (q # p => touched'[q] = touched[q] /\ (q \in older' <=> q \in older))
      /\ Gap <= 2 * Throttle => hour \in back'
      /\ \A q \in Processes : Current(q) => touch[q].now \in Nat /\ touch[q].now <= seenAt /\ hour - 1 <= touch[q].now
      /\ ~Current(p) /\ account # Login!Gone
  BY <1>0, AskedKeeps
<1>2. \A q \in Processes : Current(q)' <=> Current(q)
  BY <1>0, <1>1 DEF Current
<1>3. \/ missed'
      \/ /\ missed' = missed /\ touched' = touched /\ older' = older
         /\ p \notin older /\ touched[p] # -1 /\ hour - touched[p] < Throttle
  BY DEF Quiet
<1>4. LoginTypes'
  BY <1>0, <1>1 DEF LoginTypes
<1>5. Past'
  <2>1. \A t \in resumed' \cup back' : t <= hour
    <3>1. \A t \in resumed \cup back : t <= hour
      BY DEF Past
    <3>2. hour <= hour
      BY <1>1
    <3> QED
      BY <1>0, <1>1, <3>1, <3>2
  <2>2. hour <= hour /\ account.last <= hour
    BY <1>1
  <2> QED
    BY <1>0, <1>1, <2>1, <2>2 DEF Past
<1>6. Lives'
  BY <1>0, <1>1 DEF Lives
<1>7. Read'
  <2>1. \A n \in Nat : n <= seenAt => n <= hour
    BY <1>1
  <2> QED
    BY <1>0, <1>1, <1>2, <2>1 DEF Read
<1>8. Apart'
  BY <1>1 DEF Apart
<1>9. \A t \in resumed' : Returned(t)'
  BY <1>0, <1>1, <1>2 DEF Returned, Early
<1>10. missed' \/ (Told' /\ Followed')
  <2> SUFFICES ASSUME ~missed' PROVE Told' /\ Followed'
    OBVIOUS
  <2>1. /\ ~missed /\ touched' = touched /\ older' = older
        /\ p \notin older /\ touched[p] # -1 /\ hour - touched[p] < Throttle
    BY <1>3
  <2>2. Told'
    BY <1>0, <1>1, <1>2, <2>1 DEF Told, Behind
  <2>3. ~Behind(touched[p], Throttle)
    BY <1>1, <2>1 DEF Told
  <2>4. touched[p] \in Nat
    BY <2>1 DEF LoginTypes
  <2>5. ~Behind(hour, 2 * Throttle - 1)
    BY <1>1, <2>1, <2>3, <2>4, LoginConstants DEF Behind
  <2>6. Followed'
    BY <1>1, <2>5 DEF Followed, Behind
  <2> QED
    BY <2>2, <2>6
<1>11. missed' \/ Gap <= 2 * Throttle \/ Sure'
  <2>1. Sure => Sure'
    BY <1>0, <1>1, <1>2 DEF Sure, Behind
  <2> QED
    BY <1>3, <2>1
<1>12. Short'
  BY <1>0, <1>1, <1>2 DEF Short
<1>13. Explained'
  BY <1>1 DEF Explained
<1> QED
  BY <1>4, <1>5, <1>6, <1>7, <1>8, <1>9, <1>10, <1>11, <1>12, <1>13

(* What every end of a statement keeps: the others go on as they were.     *)
LEMMA EndedFacts ==
  ASSUME LoginInv, NEW p \in Processes, Ended(p), account'.life = account.life
  PROVE  /\ hour \in Nat /\ seenAt \in Nat \cup {-1} /\ account.last \in Nat \cup {-1}
         /\ account.last <= seenAt /\ seenAt <= hour
         /\ touch' \in [Processes -> {Login!Still} \cup Statement]
         /\ ~Current(p)'
         /\ \A q \in Processes : q # p => touch'[q] = touch[q] /\ (Current(q)' <=> Current(q))
         /\ touch'[p].at = "none"
         /\ touch[p].now \in Nat /\ touch[p].now <= hour /\ hour - 1 <= touch[p].now
         /\ \A q \in Processes : Current(q) => touch[q].now \in {hour - 1, hour} /\ touch[q].now \in Nat /\ touch[q].now <= seenAt
<1> USE DEF LoginInv
<1>1. hour \in Nat /\ seenAt \in Nat \cup {-1} /\ account.last \in Nat \cup {-1}
  BY LoginConstants DEF LoginTypes
<1>2. account.last <= seenAt /\ seenAt <= hour
  BY DEF Past
<1>3. touch' \in [Processes -> {Login!Still} \cup Statement] /\ touch'[p] = Login!Still /\ \A q \in Processes : q # p => touch'[q] = touch[q]
  BY DEF Ended, LoginTypes
<1>4. ~Current(p)' /\ touch'[p].at = "none"
  BY <1>3 DEF Current, Login!Still
<1>5. \A q \in Processes : q # p => (Current(q)' <=> Current(q))
  BY <1>3 DEF Current
<1>6. touch[p].at = "read" /\ touch[p].now \in Nat
  BY DEF Ended, Statement
<1>7. touch[p].now <= hour /\ hour - 1 <= touch[p].now
  BY <1>6 DEF Past
<1>8. ASSUME NEW q \in Processes, Current(q)
      PROVE  touch[q].now \in {hour - 1, hour} /\ touch[q].now \in Nat /\ touch[q].now <= seenAt
  <2>1. touch[q].at = "read" /\ touch[q] \in {Login!Still} \cup Statement
    BY <1>8 DEF Current, LoginTypes
  <2>2. touch[q].now \in Nat
    BY <2>1 DEF Statement, Login!Still
  <2>3. touch[q].now <= hour /\ hour - 1 <= touch[q].now
    BY <2>1 DEF Past
  <2>4. touch[q].now \in {hour - 1, hour}
    BY <1>1, <2>2, <2>3
  <2> QED
    BY <1>8, <2>2, <2>4 DEF Read
<1> QED
  BY <1>1, <1>2, <1>3, <1>4, <1>5, <1>6, <1>7, <1>8

(* A statement finds the row moved on and leaves it.                       *)
LEMMA RefusedKeeps ==
  ASSUME LoginInv, NEW p \in Processes, Ended(p), Refused(p)
  PROVE  LoginInv'
<1> USE DEF LoginInv
<1>0. /\ account' = account /\ logins' = logins /\ counted' = counted /\ missed' = missed
      /\ UNCHANGED <<touched, hour, edits, seenAt, resumed, back, older>>
  BY DEF Refused, Ended
<1>1. /\ hour \in Nat /\ seenAt \in Nat \cup {-1} /\ account.last \in Nat \cup {-1}
      /\ account.last <= seenAt /\ seenAt <= hour
      /\ touch' \in [Processes -> {Login!Still} \cup Statement]
      /\ ~Current(p)'
      /\ \A q \in Processes : q # p => touch'[q] = touch[q] /\ (Current(q)' <=> Current(q))
      /\ touch'[p].at = "none"
      /\ touch[p].now \in Nat /\ touch[p].now <= hour /\ hour - 1 <= touch[p].now
      /\ \A q \in Processes : Current(q) => touch[q].now \in {hour - 1, hour} /\ touch[q].now \in Nat /\ touch[q].now <= seenAt
  BY <1>0, EndedFacts
<1>2. Current(p) => account.last \in Nat /\ touch[p].now - Throttle <= account.last
  BY <1>1, LoginConstants DEF Refused, Behind
<1>3. LoginTypes'
  BY <1>0, <1>1 DEF LoginTypes
<1>4. Past' /\ Lives' /\ Read' /\ Apart'
  <2>1. Past'
    BY <1>0, <1>1 DEF Past
  <2>2. Lives'
    BY <1>0, <1>1 DEF Lives
  <2>3. Read'
    BY <1>0, <1>1 DEF Read
  <2> QED
    BY <1>0, <2>1, <2>2, <2>3 DEF Apart
<1>5. \A t \in resumed' : Returned(t)'
  <2> SUFFICES ASSUME NEW t \in resumed PROVE Returned(t)'
    BY <1>0
  <2>1. CASE \E c \in counted : c.at \in t .. t + 1
    BY <1>0, <2>1 DEF Returned
  <2>2. CASE ~\E c \in counted : c.at \in t .. t + 1
    <3>1. PICK q \in Processes : Current(q) /\ touch[q].now = t
      BY <2>2 DEF Returned
    <3>2. Early(t) /\ \A r \in Processes : Current(r) => t <= touch[r].now
      BY <2>2 DEF Returned
    <3>3. ~Current(p)
      <4> SUFFICES ASSUME Current(p) PROVE FALSE
        OBVIOUS
      <4>1. t \in Nat /\ t <= touch[p].now
        BY <1>1, <3>1, <3>2
      <4> QED
        BY <1>1, <1>2, <3>2, <4>1, LoginConstants DEF Early
    <3> QED
      BY <1>0, <1>1, <3>1, <3>2, <3>3 DEF Returned, Early
  <2> QED
    BY <2>1, <2>2
<1>6. missed' \/ (Told' /\ Followed')
  <2> SUFFICES ASSUME ~missed PROVE Told' /\ Followed'
    BY <1>0
  <2>1. Told'
    <3> SUFFICES ASSUME NEW q \in Processes \ older
                 PROVE  \/ touched[q] = -1 \/ ~Behind(touched[q], Throttle)
                        \/ (Current(q)' /\ touched[q] <= touch'[q].now)
      BY <1>0 DEF Told, Behind
    <3>1. touched[q] \in Nat \cup {-1}
      BY DEF LoginTypes
    <3>2. CASE q # p
      BY <1>1, <3>2 DEF Told
    <3>3. CASE q = p
      <4>1. \/ touched[q] = -1 \/ ~Behind(touched[q], Throttle)
            \/ (Current(p) /\ touched[p] <= touch[p].now)
        BY <3>3 DEF Told
      <4>2. Current(p) /\ touched[p] <= touch[p].now => touched[q] = -1 \/ ~Behind(touched[q], Throttle)
        BY <1>1, <1>2, <3>1, <3>3, LoginConstants DEF Behind
      <4> QED
        BY <4>1, <4>2
    <3> QED
      BY <3>2, <3>3
  <2>2. Followed'
    <3>1. CASE seenAt = -1 \/ ~Behind(seenAt, 2 * Throttle - 1)
      BY <1>0, <3>1 DEF Followed, Behind
    <3>2. CASE ~(seenAt = -1 \/ ~Behind(seenAt, 2 * Throttle - 1))
      <4>1. PICK q \in Processes : Current(q) /\ seenAt - Throttle + 1 <= touch[q].now
        BY <3>2 DEF Followed
      <4>2. q # p
        <5> SUFFICES ASSUME q = p PROVE FALSE
          OBVIOUS
        <5>1. account.last \in Nat /\ touch[p].now - Throttle <= account.last /\ seenAt - Throttle + 1 <= touch[p].now
          BY <1>2, <4>1
        <5> QED
          BY <1>1, <3>2, <5>1, LoginConstants DEF Behind
      <4> QED
        BY <1>0, <1>1, <4>1, <4>2 DEF Followed
    <3> QED
      BY <3>1, <3>2
  <2> QED
    BY <2>1, <2>2
<1>7. missed' \/ Gap <= 2 * Throttle \/ Sure'
  <2> SUFFICES ASSUME ~missed, ~(Gap <= 2 * Throttle), NEW q \in Processes, Current(q)',
                      \A r \in Processes : Current(r)' => touch'[q].now <= touch'[r].now,
                      Behind(touch'[q].now, Gap - 1)
               PROVE  touch'[q].now \in back
    BY <1>0 DEF Sure, Behind
  <2>1. q # p /\ Current(q) /\ touch'[q] = touch[q]
    BY <1>1
  <2>2. Current(p) => touch[q].now <= touch[p].now
    <3> SUFFICES ASSUME Current(p) PROVE touch[q].now <= touch[p].now
      OBVIOUS
    <3>1. touch[q].now \in Nat /\ touch[q].now <= hour
      BY <1>1, <2>1
    <3>2. account.last < touch[q].now - (Gap - 1)
      BY <1>1, <1>2, <2>1 DEF Behind
    <3> QED
      BY <1>1, <1>2, <3>1, <3>2, LoginConstants
  <2>3. \A r \in Processes : Current(r) => touch[q].now <= touch[r].now
    BY <1>1, <2>1, <2>2
  <2> QED
    BY <2>1, <2>3 DEF Sure
<1>8. Short' /\ Explained'
  BY <1>0, <1>1 DEF Short, Explained
<1> QED
  BY <1>3, <1>4, <1>5, <1>6, <1>7, <1>8

(* The row moves on, to a time at most a tick past.                        *)
LEMMA MovedKeeps ==
  ASSUME LoginInv, NEW p \in Processes, Ended(p), Moved(p)
  PROVE  /\ touch[p].now \in Nat /\ touch[p].now <= hour /\ hour - 1 <= touch[p].now
         /\ account'.last = touch[p].now
         /\ account' \in [life : Nat, active : BOOLEAN, last : Nat \cup {-1}]
         /\ Past' /\ Lives' /\ Read' /\ Told' /\ Followed' /\ Short'
         /\ Gap <= 2 * Throttle \/ Sure'
         /\ account' # Login!Gone
<1> USE DEF LoginInv
<1>0. /\ UNCHANGED <<touched, hour, edits, seenAt, resumed, back, older>>
      /\ Current(p) /\ Behind(touch[p].now, Throttle) /\ touch[p] \in Statement
  BY DEF Moved, Ended
<1>a. touch[p].now \in Nat
  BY <1>0 DEF Statement
<1>b. account'.last = touch[p].now /\ account'.life = account.life
      /\ account' \in [life : Nat, active : BOOLEAN, last : Nat \cup {-1}]
  BY <1>a DEF Moved, LoginTypes
<1>1. /\ hour \in Nat /\ seenAt \in Nat \cup {-1} /\ account.last \in Nat \cup {-1}
      /\ account.last <= seenAt /\ seenAt <= hour
      /\ touch' \in [Processes -> {Login!Still} \cup Statement]
      /\ ~Current(p)'
      /\ \A q \in Processes : q # p => touch'[q] = touch[q] /\ (Current(q)' <=> Current(q))
      /\ touch'[p].at = "none"
      /\ touch[p].now \in Nat /\ touch[p].now <= hour /\ hour - 1 <= touch[p].now
      /\ \A q \in Processes : Current(q) => touch[q].now \in {hour - 1, hour} /\ touch[q].now \in Nat /\ touch[q].now <= seenAt
  BY <1>b, EndedFacts
<1>2. account.life # 0 /\ account.life \in Nat /\ account # Login!Gone /\ account' # Login!Gone
  <2>1. touch[p].life \in 1 .. edits + 1 /\ edits \in Nat
    BY <1>0 DEF Lives, Current, LoginTypes
  <2>2. account.life # 0 /\ account.life \in Nat
    BY <1>0, <2>1 DEF Current
  <2>3. Login!Gone.life = 0
    BY DEF Login!Gone
  <2> QED
    BY <1>b, <2>2, <2>3
<1>3. Past'
  BY <1>0, <1>1, <1>b DEF Past
<1>4. Lives'
  BY <1>0, <1>1, <1>b, <1>2 DEF Lives
<1>5. Read'
  <2> SUFFICES ASSUME NEW q \in Processes, Current(q)'
               PROVE  /\ touch'[q].now <= seenAt
                      /\ account'.last # -1 /\ touch'[q].now - 1 <= account'.last
    BY <1>0 DEF Read
  <2>1. q # p /\ Current(q) /\ touch'[q] = touch[q]
    BY <1>1
  <2>2. touch[q].now \in Nat /\ touch[q].now <= seenAt
    BY <1>1, <2>1
  <2> QED
    BY <1>1, <1>b, <2>1, <2>2
<1>6. Told'
  <2> SUFFICES ASSUME NEW q \in Processes \ older
               PROVE  touched[q] = -1 \/ ~Behind(touched[q], Throttle)'
    BY <1>0 DEF Told, Behind
  <2>1. touched[q] \in Nat \cup {-1} /\ touched[q] <= hour
    BY DEF LoginTypes, Past
  <2> QED
    BY <1>0, <1>1, <1>b, <2>1, LoginConstants DEF Behind
<1>7. Followed'
  <2>1. ~Behind(seenAt, 2 * Throttle - 1)'
    BY <1>0, <1>1, <1>b, LoginConstants DEF Behind
  <2> QED
    BY <1>0, <2>1 DEF Followed
<1>8. Short'
  BY <1>0, <1>1 DEF Short
<1>9. Gap <= 2 * Throttle \/ Sure'
  <2> SUFFICES ASSUME ~(Gap <= 2 * Throttle), NEW q \in Processes, Current(q)', Behind(touch[q].now, Gap - 1)'
               PROVE  FALSE
    BY <1>0, <1>1 DEF Sure, Behind
  <2>1. touch[q].now \in Nat /\ touch[q].now <= hour
    BY <1>1
  <2>2. touch'[q].now = touch[q].now
    BY <1>1
  <2>3. account'.last = -1 \/ account'.last < touch[q].now - (Gap - 1)
    BY <2>2 DEF Behind
  <2> QED
    BY <1>1, <1>b, <2>1, <2>3, LoginConstants
<1> QED
  BY <1>1, <1>b, <1>2, <1>3, <1>4, <1>5, <1>6, <1>7, <1>8, <1>9

(* It moves without a login: the user was here within a gap.               *)
LEMMA TakenKeeps ==
  ASSUME LoginInv, NEW p \in Processes, Ended(p), Taken(p)
  PROVE  LoginInv'
<1> USE DEF LoginInv
<1>0. /\ Moved(p) /\ ~Early(touch[p].now) /\ logins' = logins /\ counted' = counted /\ missed' = missed
      /\ UNCHANGED <<touched, hour, edits, seenAt, resumed, back, older>>
  BY DEF Taken, Ended
<1>1. /\ touch[p].now \in Nat /\ touch[p].now <= hour /\ hour - 1 <= touch[p].now
      /\ account'.last = touch[p].now
      /\ account' \in [life : Nat, active : BOOLEAN, last : Nat \cup {-1}]
      /\ Past' /\ Lives' /\ Read' /\ Told' /\ Followed' /\ Short'
      /\ Gap <= 2 * Throttle \/ Sure'
  BY <1>0, MovedKeeps
<1>2. account.last \in Nat /\ account.last < touch[p].now - Throttle /\ touch[p].now - Gap <= account.last
  BY <1>0, <1>1, LoginConstants DEF LoginTypes, Moved, Behind, Early
<1>3. LoginTypes'
  <2>1. touch' \in [Processes -> {Login!Still} \cup Statement]
    BY DEF Ended, LoginTypes
  <2> QED
    BY <1>0, <1>1, <2>1 DEF LoginTypes
<1>4. Apart'
  <2>1. ASSUME NEW c \in counted PROVE c.at <= touch[p].now
    <3>1. c.at \in Nat /\ c.at <= account.last
      BY DEF LoginTypes, Apart
    <3> QED
      BY <1>1, <1>2, <3>1, LoginConstants
  <2> QED
    BY <1>0, <1>1, <2>1 DEF Apart
<1>5. \A t \in resumed' : Returned(t)'
  <2> SUFFICES ASSUME NEW t \in resumed, ~\E c \in counted : c.at \in t .. t + 1 PROVE FALSE
    BY <1>0 DEF Returned
  <2>1. Early(t) /\ t \in Nat /\ t <= touch[p].now
    BY <1>0 DEF Returned, Moved, LoginTypes
  <2> QED
    BY <1>1, <1>2, <2>1, LoginConstants DEF Early
<1>6. Explained'
  BY <1>0 DEF Explained
<1> QED
  BY <1>0, <1>1, <1>3, <1>4, <1>5, <1>6

(* It moves with a login: nobody had been here for a gap.                  *)
LEMMA CountsKeeps ==
  ASSUME LoginInv, NEW p \in Processes, Ended(p), Counts(p)
  PROVE  LoginInv'
<1> USE DEF LoginInv
<1>0. /\ Moved(p) /\ Early(touch[p].now) /\ logins' = logins + 1 /\ missed' = FALSE
      /\ counted' = counted \cup {[at |-> touch[p].now, late |-> missed]}
      /\ UNCHANGED <<touched, hour, edits, seenAt, resumed, back, older>>
  BY DEF Counts, Ended
<1>1. /\ touch[p].now \in Nat /\ touch[p].now <= hour /\ hour - 1 <= touch[p].now
      /\ account'.last = touch[p].now
      /\ account' \in [life : Nat, active : BOOLEAN, last : Nat \cup {-1}]
      /\ Past' /\ Lives' /\ Read' /\ Told' /\ Followed' /\ Short'
      /\ Gap <= 2 * Throttle \/ Sure'
      /\ account' # Login!Gone
  BY <1>0, MovedKeeps
<1>a. account.last \in Nat \cup {-1} /\ hour \in Nat /\ Current(p)
  BY <1>0, LoginConstants DEF LoginTypes, Moved
<1>b. PICK n : n = touch[p].now
  OBVIOUS
<1>c. n \in Nat /\ n <= hour /\ hour - 1 <= n /\ account'.last = n
  BY <1>1, <1>b
<1>d. PICK d : d = [at |-> touch[p].now, late |-> missed]
  OBVIOUS
<1>e. d \in [at : Nat, late : BOOLEAN] /\ d.at = n /\ d.late = missed
  BY <1>1, <1>b, <1>d DEF LoginTypes
<1>2. counted' = counted \cup {d}
  BY <1>0, <1>d
<1>3. ASSUME NEW c \in counted PROVE c.at \in Nat /\ c.at <= n /\ n - c.at > Gap /\ c # d
  <2>1. c.at \in Nat /\ c.at <= account.last
    BY DEF LoginTypes, Apart
  <2>2. n - c.at > Gap /\ c.at <= n
    BY <1>0, <1>a, <1>b, <1>c, <2>1, LoginConstants DEF Early
  <2>3. c.at # n
    BY <1>c, <2>1, <2>2, LoginConstants
  <2> QED
    BY <1>e, <2>1, <2>2, <2>3
<1>4. IsFiniteSet(counted') /\ Cardinality(counted') = Cardinality(counted) + 1
  BY <1>2, <1>3, FS_AddElement DEF LoginTypes
<1>5. LoginTypes'
  <2>1. touch' \in [Processes -> {Login!Still} \cup Statement]
    BY DEF Ended, LoginTypes
  <2>2. counted' \in SUBSET [at : Nat, late : BOOLEAN]
    BY <1>2, <1>e DEF LoginTypes
  <2> QED
    BY <1>0, <1>1, <1>4, <2>1, <2>2 DEF LoginTypes
<1>6. Apart'
  <2>1. \A c \in counted' : c.at <= n
    <3>1. n <= n
      BY <1>c
    <3> QED
      BY <1>2, <1>3, <1>e, <3>1
  <2>2. ASSUME NEW b \in counted', NEW c \in counted'
        PROVE  b = c \/ b.at - c.at > Gap \/ c.at - b.at > Gap
    <3>1. CASE b \in counted /\ c \in counted
      BY <3>1 DEF Apart
    <3>2. CASE b = d /\ c \in counted
      BY <1>3, <1>e, <3>2
    <3>3. CASE b \in counted /\ c = d
      BY <1>3, <1>e, <3>3
    <3> QED
      BY <1>2, <3>1, <3>2, <3>3
  <2>3. logins' = Cardinality(counted')
    BY <1>0, <1>4 DEF Apart
  <2> QED
    BY <1>c, <2>1, <2>2, <2>3 DEF Apart
<1>7. \A t \in resumed' : Returned(t)'
  <2> SUFFICES ASSUME NEW t \in resumed PROVE \E c \in counted' : c.at \in t .. t + 1
    BY <1>0 DEF Returned
  <2>1. CASE \E c \in counted : c.at \in t .. t + 1
    BY <1>2, <2>1
  <2>2. CASE ~\E c \in counted : c.at \in t .. t + 1
    <3>1. t \in Nat /\ t <= n
      BY <1>a, <1>b, <2>2 DEF Returned, LoginTypes
    <3>2. hour - 1 <= t
      <4>1. PICK q \in Processes : Current(q) /\ touch[q].now = t
        BY <2>2 DEF Returned
      <4> QED
        BY <4>1 DEF Past, Current
    <3>3. n \in t .. t + 1
      BY <1>a, <1>c, <3>1, <3>2
    <3> QED
      BY <1>2, <1>e, <3>3
  <2> QED
    BY <2>1, <2>2
<1>8. Explained'
  <2> SUFFICES ASSUME ~missed PROVE \E t \in back : n \in t .. t + 1
    BY <1>0, <1>2, <1>e DEF Explained
  <2>1. CASE Gap <= 2 * Throttle
    <3>1. n \in back
      BY <1>a, <1>b, <2>1 DEF Short
    <3>2. n \in n .. n + 1
      BY <1>c
    <3> QED
      BY <3>1, <3>2
  <2>2. CASE ~(Gap <= 2 * Throttle)
    <3>1. ASSUME NEW q \in Processes, Current(q)
          PROVE  touch[q].now \in {hour - 1, hour} /\ touch[q].now \in Nat
      <4>1. touch[q].at = "read" /\ touch[q] \in {Login!Still} \cup Statement
        BY <3>1 DEF Current, LoginTypes
      <4>2. touch[q].now \in Nat
        BY <4>1 DEF Statement, Login!Still
      <4>3. touch[q].now <= hour /\ hour - 1 <= touch[q].now
        BY <4>1 DEF Past
      <4> QED
        BY <1>a, <4>2, <4>3
    <3>2. PICK g \in Processes : Current(g) /\ \A q \in Processes : Current(q) => touch[g].now <= touch[q].now
      <4>1. hour - 1 <= hour /\ hour <= hour /\ hour - 1 <= hour - 1
        BY <1>a
      <4>2. CASE \E s \in Processes : Current(s) /\ touch[s].now = hour - 1
        BY <3>1, <4>1, <4>2
      <4>3. CASE ~\E s \in Processes : Current(s) /\ touch[s].now = hour - 1
        BY <1>a, <3>1, <4>1, <4>3
      <4> QED
        BY <4>2, <4>3
    <3>3. touch[g].now \in {hour - 1, hour} /\ touch[g].now \in Nat /\ touch[g].now <= n
      BY <1>a, <1>b, <3>1, <3>2
    <3>4. Behind(touch[g].now, Gap - 1)
      BY <1>0, <1>a, <1>b, <1>c, <3>3, LoginConstants DEF Early, Behind
    <3>5. touch[g].now \in back
      BY <2>2, <3>2, <3>4 DEF Sure
    <3>6. n \in touch[g].now .. touch[g].now + 1
      BY <1>a, <1>c, <3>3
    <3> QED
      BY <3>5, <3>6
  <2> QED
    BY <2>1, <2>2
<1> QED
  BY <1>0, <1>1, <1>5, <1>6, <1>7, <1>8

(* The invariant holds before any request ...                              *)
LEMMA LoginInit == Login!Init => LoginInv
<1> SUFFICES ASSUME Login!Init PROVE LoginInv
  OBVIOUS
<1>1. /\ account = Login!Fresh(1) \/ account = Login!Gone
      /\ touched = [p \in Processes |-> -1] /\ touch = [p \in Processes |-> Login!Still]
      /\ logins = 0 /\ hour = 0 /\ edits = 0 /\ seenAt = -1
      /\ resumed = {} /\ counted = {} /\ back = {} /\ older = {} /\ missed = FALSE
  BY DEF Login!Init, Login!Never
<1>2. /\ account \in [life : Nat, active : BOOLEAN, last : Nat \cup {-1}] /\ account.last = -1
      /\ (account = Login!Gone /\ account.life = 0) \/ (account # Login!Gone /\ account.life = 1)
  <2>1. CASE account = Login!Gone
    BY <2>1 DEF Login!Gone, Login!Never
  <2>2. CASE account = Login!Fresh(1)
    <3>1. account.life # Login!Gone.life
      BY <2>2 DEF Login!Gone, Login!Fresh
    <3>2. account # Login!Gone
      BY <3>1
    <3> QED
      BY <2>2, <3>2 DEF Login!Fresh, Login!Never
  <2> QED
    BY <1>1, <2>1, <2>2
<1>3. LoginTypes
  <2>1. hour \in 0 .. MaxHour
    BY <1>1, LoginConstants
  <2>2. touched \in [Processes -> Nat \cup {-1}] /\ touch \in [Processes -> {Login!Still} \cup Statement]
    BY <1>1
  <2>3. counted \in SUBSET [at : Nat, late : BOOLEAN] /\ IsFiniteSet(counted)
    BY <1>1, FS_EmptySet
  <2>4. edits \in Nat /\ seenAt \in Nat \cup {-1} /\ missed \in BOOLEAN
    BY <1>1
  <2>5. resumed \subseteq Nat /\ back \subseteq Nat /\ older \subseteq Processes
    BY <1>1
  <2> QED
    BY <1>2, <2>1, <2>2, <2>3, <2>4, <2>5 DEF LoginTypes
<1>4. \A p \in Processes : touch[p].at = "none"
  BY <1>1 DEF Login!Still
<1>5. Past
  BY <1>1, <1>2, <1>4 DEF Past
<1>6. Lives
  BY <1>1, <1>2, <1>4 DEF Lives
<1>7. Apart
  BY <1>1, FS_EmptySet DEF Apart
<1>8. Read /\ Told /\ Followed /\ Sure /\ Short /\ Explained
  BY <1>1, <1>4 DEF Current, Read, Told, Followed, Sure, Short, Explained
<1> QED
  BY <1>1, <1>3, <1>5, <1>6, <1>7, <1>8 DEF LoginInv

(* ... is strong enough ...                                                *)
LEMMA LoginHolds == LoginInv => LoginsAreResumptions
<1> SUFFICES ASSUME LoginInv PROVE LoginsAreResumptions
  OBVIOUS
<1> USE DEF LoginInv
<1>1. hour \in Nat /\ seenAt \in Nat \cup {-1} /\ account.last \in Nat \cup {-1} /\ account.last <= seenAt /\ seenAt <= hour
  BY LoginConstants DEF LoginTypes, Past
<1>2. account.last \in -1 .. hour /\ seenAt \in -1 .. hour
  BY <1>1
<1>3. touched \in [Processes -> -1 .. hour]
  <2>1. ASSUME NEW p \in Processes PROVE touched[p] \in -1 .. hour
    <3>1. touched[p] \in Nat \cup {-1} /\ touched[p] <= hour
      BY DEF LoginTypes, Past
    <3> QED
      BY <1>1, <3>1
  <2> QED
    BY <2>1 DEF LoginTypes
<1>4. resumed \subseteq 0 .. hour
  BY <1>1 DEF LoginTypes, Past
<1>5. \A c \in counted : c.at \in 0 .. hour
  <2> SUFFICES ASSUME NEW c \in counted PROVE c.at \in 0 .. hour
    OBVIOUS
  <2>1. c.at \in Nat /\ c.at <= account.last
    BY DEF LoginTypes, Apart
  <2> QED
    BY <1>1, <2>1
<1>6. Login!TypeOK
  BY <1>2, <1>3, <1>4, <1>5 DEF Login!TypeOK, Login!Never, LoginTypes
<1>7. (\A p \in Processes : touch[p] = Login!Still) => \A t \in resumed : \E c \in counted : c.at \in t .. t + 1
  BY DEF Returned, Current, Login!Still
<1>8. logins = Cardinality(counted) /\ \A c, d \in counted : c = d \/ c.at - d.at > Gap \/ d.at - c.at > Gap
  BY DEF Apart
<1>a. \A c \in counted : c.late \/ \E t \in back : c.at \in t .. t + 1
  BY DEF Explained
<1>9. Login!LoginsAreResumptions
  BY <1>7, <1>8, <1>a, Zenon DEF Login!LoginsAreResumptions, Cardinality, Login!Cardinality
<1> QED
  BY <1>6, <1>9 DEF LoginsAreResumptions

(* ... and is kept by every step.                                          *)
LEMMA LoginKeeps == LoginInv /\ [Login!Next]_(Login!vars) => LoginInv'
<1> SUFFICES ASSUME LoginInv, [Login!Next]_(Login!vars) PROVE LoginInv'
  OBVIOUS
<1>1. ASSUME NEW p \in Processes, NEW hit \in BOOLEAN, Login!Request(p, hit) \/ Login!CountCall(p, hit)
      PROVE  LoginInv'
  BY <1>1, RequestEffect, BegunKeeps, QuietKeeps
<1>2. ASSUME NEW p \in Processes, Login!Finish(p) PROVE LoginInv'
  BY <1>2, FinishEffect, RefusedKeeps, TakenKeeps, CountsKeeps
<1>3. ASSUME NEW p \in Processes, Login!Start(p) PROVE LoginInv'
  BY <1>3, StartEffect, RestartedKeeps
<1>4. CASE Login!CreateUser \/ Login!DeleteUser \/ Login!UpdateUser
  BY <1>4, EditEffect, ForgottenKeeps, KeptKeeps
<1>5. CASE Login!Tick
  BY <1>5, TickKeeps
<1>6. CASE UNCHANGED Login!vars
  BY <1>6 DEF Login!vars, LoginInv, LoginTypes, Past, Lives, Read, Apart, Returned, Told, Followed, Sure,
              Short, Explained, Current, Early, Behind
<1> QED
  BY <1>1, <1>2, <1>3, <1>4, <1>5, <1>6 DEF Login!Next

(* The logins counted are the times the user came back, however many servers *)
(* see the requests, statements fail or overtake one another and accounts are *)
(* deleted and created anew (src/db/users.py:81).                          *)
THEOREM LoginsAreReturns == Login!Spec => []LoginsAreResumptions
<1>1. LoginInv /\ [Login!Next]_(Login!vars) => LoginInv'
  BY LoginKeeps
<1>2. Login!Init => LoginInv
  BY LoginInit
<1>3. LoginInv => LoginsAreResumptions
  BY LoginHolds
<1> QED
  BY <1>1, <1>2, <1>3, PTL DEF Login!Spec

-----------------------------------------------------------------------------
(* Sessions: Mcp, an instance of McpSessions.                              *)

(* What a request is, at each stage of its way.                            *)
Key == Keys \cup {None}
Session == McpIds \cup {None}
Asking == [at : {"asked"}, r : Processes, s : Session, sent : Key, key : Key, named : BOOLEAN,
           known : BOOLEAN, hit : BOOLEAN, crossed : BOOLEAN]
Acting == [at : {"bound"}, r : Processes, s : Session, sent : Key, key : Key, named : BOOLEAN,
           known : BOOLEAN, hit : BOOLEAN, crossed : BOOLEAN, half : BOOLEAN]
Calling == [at : {"called"}, r : Processes, s : Session, key : Key, named : BOOLEAN,
            known : BOOLEAN, hit : BOOLEAN, crossed : BOOLEAN, half : BOOLEAN, usage : Key]

Memory == [Processes -> [McpIds \cup {Mcp!Last} -> Key]]
Names == [Processes -> [McpIds \cup {Mcp!Last} -> BOOLEAN]]
Rows == [McpIds -> [key : Key, named : BOOLEAN]]

(* The types of what replicas, the table and the requests hold.            *)
SessionTypes ==
  /\ keyOf \in Memory /\ nameOf \in Names /\ row \in Rows
  /\ req \in [Requests -> {Mcp!New, Mcp!Lost} \cup Asking \cup Acting \cup Calling]
  /\ strained \subseteq McpIds /\ faults \in 0 .. MaxFaults /\ restarts \in 0 .. MaxRestarts
  /\ presented \in [McpIds -> SUBSET Keys] /\ latest \in [McpIds -> Key]
  /\ halfway \in [Processes -> SUBSET McpIds]

(* What replicas and the table know of a session, its clients have sent.   *)
Learned ==
  /\ \A r \in Processes, s \in McpIds : keyOf[r][s] # None =>
       keyOf[r][s] \in presented[s] /\ (nameOf[r][s] \/ s \in halfway[r])
  /\ \A s \in McpIds : row[s].key # None => row[s].key \in presented[s] /\ row[s].named

(* A request whose headers are being captured: its own key, or the row's   *)
(* while its replica knows none.                                           *)
Captured(e) ==
  e.at = "asked" =>
    /\ e.sent # None => e.key = e.sent
    /\ e.key # None => e.named
    /\ e.s # None /\ e.sent = None /\ e.key # None =>
         /\ e.key \in presented[e.s] /\ row[e.s].key # None /\ keyOf[e.r][e.s] = None
         /\ e.key = latest[e.s] \/ e.s \in strained
    /\ e.s # None /\ e.key = None /\ ~e.hit =>
         /\ e.known => keyOf[e.r][e.s] # None
         /\ e.crossed \/ keyOf[e.r][e.s] # None \/ row[e.s].key = None

(* A request that acts for a client: its replica still knows the same.     *)
Bound(e) ==
  e.at = "bound" =>
    /\ e.sent # None => e.key = e.sent
    /\ e.s # None /\ e.sent = None /\ ~e.hit /\ ~e.crossed =>
         keyOf[e.r][e.s] = e.key /\ (e.key = None => row[e.s].key = None)

(* A request acts for a client its session has presented, or for nobody.   *)
Served(e) ==
  e.at \in {"bound", "called"} /\ e.s # None =>
    /\ e.key # None => e.key \in presented[e.s]
    /\ e.key = None => ~e.known \/ e.hit
    /\ e.key # None /\ ~e.named => e.half

(* Its calls are counted for the client it acts for.                       *)
Attributed(e) == e.at = "called" => e.usage = e.key \/ e.hit \/ e.crossed

Good(e) == Captured(e) /\ Bound(e) /\ Served(e) /\ Attributed(e)

(* A replica captures the headers of one request at a time.                *)
Alone == \A p, q \in Requests : Mcp!At(p, "asked") /\ Mcp!At(q, "asked") /\ req[p].r = req[q].r => p = q

McpInv ==
  /\ SessionTypes /\ Learned /\ Alone /\ Mcp!RowIsLatest
  /\ \A q \in Requests : Good(req[q])

(* The invariant is strong enough ...                                      *)
LEMMA McpHolds == McpInv => SessionsHold
<1> SUFFICES ASSUME McpInv PROVE SessionsHold
  OBVIOUS
<1> USE DEF McpInv
<1>1. Mcp!TypeOK
  <2>1. \A q \in Requests : req[q].at \in {"new", "asked", "bound", "called", "lost"}
    BY DEF SessionTypes, Asking, Acting, Calling, Mcp!New, Mcp!Lost
  <2> QED
    BY <2>1 DEF SessionTypes, Memory, Names, Rows, Key, Mcp!TypeOK
<1>2. Mcp!KnownEverywhere
  BY DEF Good, Served, Mcp!KnownEverywhere
<1>3. Mcp!AttributedAsBound
  BY DEF Good, Attributed, Mcp!AttributedAsBound, Mcp!At
<1> QED
  BY <1>1, <1>2, <1>3 DEF SessionsHold

(* ... holds before any request ...                                        *)
LEMMA McpInit == Mcp!Init => McpInv
<1> SUFFICES ASSUME Mcp!Init PROVE McpInv
  OBVIOUS
<1> USE DEF Mcp!Init
<1>1. SessionTypes
  <2>1. keyOf \in Memory /\ nameOf \in Names /\ row \in Rows
    BY DEF Memory, Names, Rows, Key, Mcp!Unknown, Mcp!Named
  <2>2. faults \in 0 .. MaxFaults /\ restarts \in 0 .. MaxRestarts
    BY ServerAssumption
  <2>3. latest \in [McpIds -> Key] /\ presented \in [McpIds -> SUBSET Keys] /\ halfway \in [Processes -> SUBSET McpIds]
    BY DEF Key
  <2> QED
    BY <2>1, <2>2, <2>3 DEF SessionTypes
<1>2. Learned /\ Mcp!RowIsLatest
  BY DEF Learned, Mcp!RowIsLatest, Mcp!Unknown
<1>3. \A q \in Requests : req[q].at = "new"
  BY DEF Mcp!New
<1> QED
  BY <1>1, <1>2, <1>3 DEF McpInv, Alone, Good, Captured, Bound, Served, Attributed, Mcp!At

(* ... and is kept when headers are read and looked up,                    *)
LEMMA LookKeeps ==
  ASSUME McpInv, NEW q \in Requests, NEW r \in Processes, NEW s \in Session, NEW k \in Key, NEW hit \in BOOLEAN,
         Mcp!CaptureLook(q, r, s, k, hit)
  PROVE  McpInv'
<1> USE DEF McpInv
<1> DEFINE got == IF Mcp!AsksRow(r, s, k) THEN Mcp!Stored(s, hit) ELSE [key |-> k, named |-> k # None]
           new == [at |-> "asked", r |-> r, s |-> s, sent |-> k, key |-> got.key, named |-> got.named,
                   known |-> s # None /\ (row[s].key # None \/ keyOf[r][s] # None),
                   hit |-> hit, crossed |-> FALSE]
<1>0. None \notin Keys \cup McpIds /\ MaxFaults \in Nat
  BY ServerAssumption
<1>1. /\ Mcp!At(q, "new") /\ Mcp!Free(r) /\ (hit => Mcp!AsksRow(r, s, k)) /\ Mcp!Down(hit)
      /\ req' = [req EXCEPT ![q] = new]
      /\ UNCHANGED <<keyOf, nameOf, row, restarts, presented, latest, strained, halfway>>
  BY DEF Mcp!CaptureLook
<1>2. got.key \in Key /\ got.named \in BOOLEAN
  BY DEF SessionTypes, Rows, Key, Session, Mcp!Stored, Mcp!AsksRow
<1>3. new \in Asking
  <2>1. (s # None /\ (row[s].key # None \/ keyOf[r][s] # None)) \in BOOLEAN
    OBVIOUS
  <2> HIDE DEF got
  <2> QED
    BY <1>2, <2>1 DEF Asking
<1>4. faults' \in 0 .. MaxFaults
  BY <1>0, <1>1 DEF SessionTypes, Mcp!Down
<1>5. SessionTypes'
  <2> HIDE DEF new
  <2> QED
    BY <1>1, <1>3, <1>4 DEF SessionTypes
<1>6. Learned' /\ Mcp!RowIsLatest'
  BY <1>1 DEF Learned, Mcp!RowIsLatest
<1>7. req'[q] = new /\ \A p \in Requests \ {q} : req'[p] = req[p]
  <2> HIDE DEF new
  <2> QED
    BY <1>1 DEF SessionTypes
<1>8. Alone'
  <2>1. \A p \in Requests \ {q} : req[p].at = "asked" => req[p].r # r
    BY <1>1 DEF Mcp!Free, Mcp!At
  <2>2. new.r = r
    OBVIOUS
  <2> HIDE DEF new
  <2> QED
    BY <1>7, <2>1, <2>2 DEF Alone, Mcp!At
<1>a. PICK g : g = got
  OBVIOUS
<1>b. PICK e : e = new
  OBVIOUS
<1>c. /\ e.at = "asked" /\ e.r = r /\ e.s = s /\ e.sent = k /\ e.key = g.key /\ e.named = g.named
      /\ e.hit = hit
      /\ e.known => row[s].key # None \/ keyOf[r][s] # None
  BY <1>a, <1>b
<1> HIDE DEF got, new
<1>9. Captured(e)'
  <2>1. k # None => g.key = k /\ g.named = TRUE
    BY <1>a DEF Mcp!AsksRow, got
  <2>2. CASE Mcp!AsksRow(r, s, k) /\ ~hit
    <3>1. g = row[s] /\ k = None /\ s \in McpIds /\ keyOf[r][s] = None
      BY <1>a, <2>2 DEF Mcp!AsksRow, Mcp!Stored, Session, got
    <3>2. g.key # None => g.key \in presented[s] /\ g.named /\ (g.key = latest[s] \/ s \in strained)
      BY <3>1 DEF Learned, Mcp!RowIsLatest
    <3> QED
      BY <1>1, <1>c, <3>1, <3>2 DEF Captured
  <2>3. CASE Mcp!AsksRow(r, s, k) /\ hit
    <3>1. g.key = None /\ k = None
      BY <1>a, <2>3 DEF Mcp!AsksRow, Mcp!Stored, got
    <3> QED
      BY <1>c, <2>3, <3>1 DEF Captured
  <2>4. CASE ~Mcp!AsksRow(r, s, k)
    <3>1. g.key = k /\ (s # None /\ k = None => keyOf[r][s] # None)
      BY <1>a, <2>4 DEF Mcp!AsksRow, got
    <3> QED
      BY <1>1, <1>c, <2>1, <3>1 DEF Captured
  <2> QED
    BY <2>2, <2>3, <2>4
<1>10. Good(e)'
  BY <1>9, <1>c DEF Good, Bound, Served, Attributed
<1>11. ASSUME NEW p \in Requests PROVE Good(req[p])'
  <2>1. CASE p = q
    BY <1>7, <1>10, <1>b, <2>1 DEF Good, Captured, Bound, Served, Attributed
  <2>2. CASE p # q
    BY <1>1, <1>7, <2>2 DEF Good, Captured, Bound, Served, Attributed
  <2> QED
    BY <2>1, <2>2
<1> QED
  BY <1>5, <1>6, <1>8, <1>11

(* when a replica restarts and forgets,                                    *)
LEMMA RestartKeeps ==
  ASSUME McpInv, NEW r \in Processes, Mcp!Restart(r)
  PROVE  McpInv'
<1> USE DEF McpInv
<1>1. /\ keyOf' = [keyOf EXCEPT ![r] = Mcp!Unknown] /\ nameOf' = [nameOf EXCEPT ![r] = Mcp!Named]
      /\ halfway' = [halfway EXCEPT ![r] = {}]
      /\ UNCHANGED <<row, faults, presented, latest, strained>>
      /\ restarts' = restarts + 1 /\ restarts < MaxRestarts
  BY DEF Mcp!Restart
<1>2. \A q \in Requests : req'[q] = IF req[q].at \in {"asked", "bound"} /\ req[q].r = r THEN Mcp!Lost ELSE req[q]
  BY DEF Mcp!Restart
<1>3. Mcp!Unknown \in [McpIds \cup {Mcp!Last} -> Key] /\ Mcp!Named \in [McpIds \cup {Mcp!Last} -> BOOLEAN]
  BY DEF Mcp!Unknown, Mcp!Named, Key
<1>4. SessionTypes'
  <2>1. keyOf' \in Memory /\ nameOf' \in Names /\ halfway' \in [Processes -> SUBSET McpIds]
    BY <1>1, <1>3 DEF SessionTypes, Memory, Names
  <2>2. restarts' \in 0 .. MaxRestarts
    BY <1>1, ServerAssumption DEF SessionTypes
  <2>3. req' \in [Requests -> {Mcp!New, Mcp!Lost} \cup Asking \cup Acting \cup Calling]
    BY DEF SessionTypes, Mcp!Restart
  <2> QED
    BY <1>1, <2>1, <2>2, <2>3 DEF SessionTypes
<1>5. \A p \in Processes \ {r} : keyOf'[p] = keyOf[p] /\ nameOf'[p] = nameOf[p] /\ halfway'[p] = halfway[p]
  BY <1>1 DEF SessionTypes, Memory, Names
<1>6. \A s \in McpIds : keyOf'[r][s] = None
  BY <1>1 DEF SessionTypes, Memory, Mcp!Unknown
<1>7. Learned' /\ Mcp!RowIsLatest'
  BY <1>1, <1>5, <1>6 DEF Learned, Mcp!RowIsLatest
<1>8. Alone'
  BY <1>2 DEF Alone, Mcp!At, Mcp!Lost
<1>9. ASSUME NEW q \in Requests PROVE Good(req[q])'
  <2>1. CASE req[q].at \in {"asked", "bound"} /\ req[q].r = r
    <3>1. req'[q].at = "lost"
      BY <1>2, <2>1 DEF Mcp!Lost
    <3> QED
      BY <3>1 DEF Good, Captured, Bound, Served, Attributed
  <2>2. CASE ~(req[q].at \in {"asked", "bound"} /\ req[q].r = r)
    <3>1. req'[q] = req[q]
      BY <1>2, <2>2
    <3>2. req[q].at \in {"asked", "bound"} => keyOf'[req[q].r] = keyOf[req[q].r]
      BY <1>5, <2>2 DEF SessionTypes, Asking, Acting, Calling, Mcp!New, Mcp!Lost
    <3> QED
      BY <1>1, <3>1, <3>2 DEF Good, Captured, Bound, Served, Attributed
  <2> QED
    BY <2>1, <2>2
<1> QED
  BY <1>4, <1>7, <1>8, <1>9

(* when a tool is called and its use counted, or a request is lost.        *)
LEMMA CallKeeps ==
  ASSUME McpInv, NEW q \in Requests, NEW hit \in BOOLEAN, Mcp!CallTool(q, hit)
  PROVE  McpInv'
<1> USE DEF McpInv
<1>0. None \notin Keys \cup McpIds /\ MaxFaults \in Nat /\ "_last" \notin McpIds
  BY ServerAssumption
<1>1. PICK e : e = req[q]
  OBVIOUS
<1>2. PICK asks \in BOOLEAN : asks = (e.sent = None /\ e.s # None /\ keyOf[e.r][e.s] = None)
  OBVIOUS
<1>3. PICK u : u = Mcp!UsageKey(e, hit)
  OBVIOUS
<1>4. PICK new : new = [at |-> "called", r |-> e.r, s |-> e.s, key |-> e.key, named |-> e.named,
                         known |-> e.known, hit |-> e.hit \/ hit, crossed |-> e.crossed, half |-> e.half,
                         usage |-> u]
  OBVIOUS
<1>5. /\ Mcp!At(q, "bound") /\ Mcp!Free(e.r) /\ (hit => asks) /\ Mcp!Down(hit)
      /\ keyOf' = IF asks THEN [keyOf EXCEPT ![e.r][e.s] = Mcp!Stored(e.s, hit).key] ELSE keyOf
      /\ req' = [req EXCEPT ![q] = new]
      /\ halfway' = IF asks THEN [halfway EXCEPT ![e.r] = @ \cup {e.s}] ELSE halfway
      /\ UNCHANGED <<nameOf, row, restarts, presented, latest, strained>>
  BY <1>1, <1>2, <1>3, <1>4 DEF Mcp!CallTool
<1>6. e \in Acting
  BY <1>1, <1>5 DEF SessionTypes, Mcp!At, Asking, Calling, Mcp!New, Mcp!Lost
<1>7. asks => e.s \in McpIds /\ Mcp!Stored(e.s, hit).key \in Key
  BY <1>2, <1>6 DEF Acting, Session, SessionTypes, Rows, Key, Mcp!Stored
<1>8. u \in Key
  <2>1. CASE e.sent # None \/ e.s = None
    BY <1>3, <1>6, <2>1 DEF Mcp!UsageKey, Acting
  <2>2. CASE e.sent = None /\ e.s # None
    <3>1. e.s \in McpIds /\ e.r \in Processes
      BY <1>6, <2>2 DEF Acting, Session
    <3>2. keyOf[e.r][e.s] \in Key
      BY <3>1 DEF SessionTypes, Memory
    <3>3. Mcp!Stored(e.s, hit).key \in Key
      BY <3>1 DEF Mcp!Stored, SessionTypes, Rows, Key
    <3> QED
      BY <1>3, <1>6, <2>2, <3>2, <3>3 DEF Mcp!UsageKey, Acting
  <2> QED
    BY <2>1, <2>2
<1>9. new \in Calling
  BY <1>4, <1>6, <1>8 DEF Acting, Calling
<1>10. SessionTypes'
  <2>1. keyOf' \in Memory
    BY <1>5, <1>6, <1>7 DEF SessionTypes, Memory, Acting
  <2>2. halfway' \in [Processes -> SUBSET McpIds]
    BY <1>5, <1>6, <1>7 DEF SessionTypes, Acting
  <2>3. faults' \in 0 .. MaxFaults
    BY <1>0, <1>5 DEF SessionTypes, Mcp!Down
  <2> QED
    BY <1>5, <1>9, <2>1, <2>2, <2>3 DEF SessionTypes
<1>11. /\ \A r \in Processes, s \in McpIds :
            \/ keyOf'[r][s] = keyOf[r][s]
            \/ asks /\ r = e.r /\ s = e.s /\ keyOf[r][s] = None /\ keyOf'[r][s] = Mcp!Stored(s, hit).key
       /\ \A r \in Processes : halfway[r] \subseteq halfway'[r]
       /\ asks => e.s \in halfway'[e.r]
  <2>1. CASE asks
    <3>1. keyOf'[e.r][e.s] = Mcp!Stored(e.s, hit).key /\ keyOf[e.r][e.s] = None
      BY <1>2, <1>5, <1>6, <1>7, <2>1 DEF SessionTypes, Memory, Acting
    <3>2. \A r \in Processes, s \in McpIds : ~(r = e.r /\ s = e.s) => keyOf'[r][s] = keyOf[r][s]
      BY <1>5, <1>6, <1>7, <2>1 DEF SessionTypes, Memory, Acting
    <3>3. \A r \in Processes : halfway[r] \subseteq halfway'[r]
      BY <1>5, <2>1 DEF SessionTypes
    <3>4. e.s \in halfway'[e.r]
      BY <1>5, <1>6, <2>1 DEF SessionTypes, Acting
    <3> QED
      BY <2>1, <3>1, <3>2, <3>3, <3>4
  <2>2. CASE ~asks
    BY <1>5, <2>2
  <2> QED
    BY <2>1, <2>2
<1>12. Learned' /\ Mcp!RowIsLatest'
  <2>1. ASSUME NEW r \in Processes, NEW s \in McpIds, keyOf'[r][s] # None
        PROVE  keyOf'[r][s] \in presented'[s] /\ (nameOf'[r][s] \/ s \in halfway'[r])
    <3>1. CASE keyOf'[r][s] = keyOf[r][s]
      BY <1>5, <1>11, <2>1, <3>1 DEF Learned
    <3>2. CASE asks /\ r = e.r /\ s = e.s /\ keyOf'[r][s] = Mcp!Stored(s, hit).key
      <4>1. keyOf'[r][s] = row[s].key
        BY <2>1, <3>2 DEF Mcp!Stored
      <4> QED
        BY <1>5, <1>11, <2>1, <3>2, <4>1 DEF Learned
    <3> QED
      BY <1>11, <3>1, <3>2
  <2> QED
    BY <1>5, <2>1 DEF Learned, Mcp!RowIsLatest
<1>13. req'[q] = new /\ \A p \in Requests \ {q} : req'[p] = req[p]
  BY <1>5 DEF SessionTypes
<1>14. new.at = "called"
  BY <1>4
<1>15. Alone'
  BY <1>13, <1>14 DEF Alone, Mcp!At
<1>16. Good(new)'
  <2>1. /\ new.s = e.s /\ new.key = e.key /\ new.named = e.named /\ new.known = e.known /\ new.half = e.half
        /\ new.crossed = e.crossed /\ new.usage = u
        /\ e.hit => new.hit
        /\ hit => new.hit
    BY <1>4
  <2>2. Good(e)
    BY <1>1
  <2>3. e.at = "bound"
    BY <1>6 DEF Acting
  <2>4. Served(new)'
    BY <1>5, <2>1, <2>2, <2>3 DEF Good, Served
  <2>5. Attributed(new)'
    <3> SUFFICES ASSUME ~new.hit, ~new.crossed PROVE u = new.key
      BY <2>1 DEF Attributed
    <3>1. CASE e.sent # None \/ e.s = None
      BY <1>3, <2>1, <2>2, <2>3, <3>1 DEF Mcp!UsageKey, Good, Bound
    <3>2. CASE e.sent = None /\ e.s # None
      <4>1. keyOf[e.r][e.s] = e.key /\ (e.key = None => row[e.s].key = None) /\ ~hit
        BY <2>1, <2>2, <2>3, <3>2 DEF Good, Bound
      <4> QED
        BY <1>3, <2>1, <3>2, <4>1 DEF Mcp!UsageKey, Mcp!Stored
    <3> QED
      BY <3>1, <3>2
  <2> QED
    BY <1>14, <2>4, <2>5 DEF Good, Captured, Bound
<1>17. ASSUME NEW p \in Requests PROVE Good(req[p])'
  <2>1. CASE p = q
    BY <1>13, <1>16, <2>1 DEF Good, Captured, Bound, Served, Attributed
  <2>2. CASE p # q
    <3>1. PICK d : d = req[p]
      OBVIOUS
    <3>2. d = req'[p] /\ Good(d)
      BY <1>13, <2>2, <3>1
    <3>3. d.at = "asked" => d.r # e.r /\ d \in Asking
      BY <1>5, <3>1 DEF Mcp!Free, Mcp!At, SessionTypes, Acting, Calling, Mcp!New, Mcp!Lost
    <3>4. d.at = "bound" => d \in Acting
      BY <3>1 DEF SessionTypes, Asking, Calling, Mcp!New, Mcp!Lost
    <3>5. d.at = "asked" /\ d.s # None => keyOf'[d.r][d.s] = keyOf[d.r][d.s]
      BY <1>11, <3>3 DEF Asking, Session
    <3>6. Captured(d)'
      BY <1>5, <3>2, <3>5 DEF Good, Captured
    <3>7. Bound(d)'
      <4> SUFFICES ASSUME d.at = "bound", d.s # None, d.sent = None, ~d.hit, ~d.crossed
                   PROVE  keyOf'[d.r][d.s] = d.key
        BY <1>5, <3>2 DEF Good, Bound
      <4>1. d.r \in Processes /\ d.s \in McpIds
        BY <3>4 DEF Acting, Session
      <4>2. keyOf[d.r][d.s] = d.key /\ (d.key = None => row[d.s].key = None)
        BY <3>2 DEF Good, Bound
      <4>3. keyOf[d.r][d.s] = None => Mcp!Stored(d.s, hit).key = None
        BY <4>2 DEF Mcp!Stored
      <4> QED
        BY <1>11, <4>1, <4>2, <4>3
    <3>8. Served(d)' /\ Attributed(d)'
      BY <1>5, <3>2 DEF Good, Served, Attributed
    <3> QED
      BY <3>2, <3>6, <3>7, <3>8 DEF Good, Captured, Bound, Served, Attributed
  <2> QED
    BY <2>1, <2>2
<1> QED
  BY <1>10, <1>12, <1>15, <1>17

(* The capture's second half, one request at a time at a replica.          *)
LEMMA BindKeeps ==
  ASSUME McpInv, NEW q \in Requests, NEW hit \in BOOLEAN, Mcp!CaptureBind(q, hit)
  PROVE  McpInv'
<1> USE DEF McpInv
<1>0. None \notin Keys \cup McpIds /\ MaxFaults \in Nat /\ "_last" \notin McpIds
  BY ServerAssumption
<1>1. PICK e : e = req[q]
  OBVIOUS
<1>2. PICK keeps \in BOOLEAN : keeps = (e.s # None /\ e.key # None)
  OBVIOUS
<1>3. PICK fresh \in BOOLEAN : fresh = (e.s # None /\ e.sent # None)
  OBVIOUS
<1>4. PICK own : own = {p \in Requests : req[p] \notin {Mcp!New, Mcp!Lost} /\ req[p].s = e.s}
  OBVIOUS
<1>5. PICK key : key = Mcp!Bound(e.key, e.s, None, keyOf[e.r])
  OBVIOUS
<1>6. PICK named : named = Mcp!Bound(e.named, e.s, FALSE, nameOf[e.r])
  OBVIOUS
<1>7. PICK new : new = [at |-> "bound", r |-> e.r, s |-> e.s, sent |-> e.sent, key |-> key, named |-> named,
                         known |-> e.known, hit |-> e.hit \/ hit, crossed |-> e.crossed,
                         half |-> e.s \in halfway[e.r]]
  OBVIOUS
<1>8. /\ Mcp!At(q, "asked") /\ (hit => keeps) /\ Mcp!Down(hit)
      /\ row' = IF keeps /\ ~hit THEN Mcp!Persisted(e.s, e.key, e.named) ELSE row
      /\ keyOf' = [keyOf EXCEPT ![e.r] = Mcp!Remembered(e.key, e.s, None, @)]
      /\ nameOf' = [nameOf EXCEPT ![e.r] = Mcp!Remembered(e.named, e.s, FALSE, @)]
      /\ req' = [p \in Requests |-> IF p = q THEN new
                                    ELSE IF p \in own /\ fresh THEN [req[p] EXCEPT !.crossed = TRUE]
                                    ELSE req[p]]
      /\ presented' = IF fresh THEN [presented EXCEPT ![e.s] = @ \cup {e.sent}] ELSE presented
      /\ latest' = IF fresh THEN [latest EXCEPT ![e.s] = e.sent] ELSE latest
      /\ strained' = IF ~fresh THEN strained
                     ELSE IF hit \/ Mcp!WritingBack(e.s) # {} THEN strained \cup {e.s}
                     ELSE strained \ {e.s}
      /\ UNCHANGED <<restarts, halfway>>
  BY <1>1, <1>2, <1>3, <1>4, <1>5, <1>6, <1>7 DEF Mcp!CaptureBind
<1>9. e \in Asking /\ e.at = "asked"
  BY <1>1, <1>8 DEF SessionTypes, Mcp!At, Acting, Calling, Mcp!New, Mcp!Lost
<1>10. /\ e.r \in Processes /\ e.s \in Session /\ e.sent \in Key /\ e.key \in Key /\ e.named \in BOOLEAN
       /\ (keeps => e.s \in McpIds) /\ (fresh => e.s \in McpIds /\ e.sent \in Keys)
  BY <1>2, <1>3, <1>9 DEF Asking, Session, Key
<1>11. Good(e)
  BY <1>1
<1>12. keyOf[e.r] \in [McpIds \cup {Mcp!Last} -> Key] /\ nameOf[e.r] \in [McpIds \cup {Mcp!Last} -> BOOLEAN]
  BY <1>10 DEF SessionTypes, Memory, Names
<1>13. key \in Key /\ named \in BOOLEAN
  BY <1>5, <1>6, <1>10, <1>12 DEF Mcp!Bound, Session
<1>14. new \in Acting
  BY <1>7, <1>9, <1>13 DEF Acting, Asking
<1>15. req'[q] = new
  BY <1>8
<1>16. ASSUME NEW p \in Requests \ {q}
       PROVE  \/ req'[p] = req[p] /\ (fresh /\ req[p].at \in {"asked", "bound", "called"} => req[p].s # e.s)
              \/ req'[p] = [req[p] EXCEPT !.crossed = TRUE] /\ fresh /\ req[p] \in Asking \cup Acting \cup Calling
  <2>1. p \in own => req[p] \in Asking \cup Acting \cup Calling
    BY <1>4 DEF SessionTypes
  <2>2. p \notin own /\ req[p].at \in {"asked", "bound", "called"} => req[p].s # e.s
    BY <1>4 DEF Mcp!New, Mcp!Lost
  <2> QED
    BY <1>8, <2>1, <2>2
<1>17. SessionTypes'
  <2>1. keyOf' \in Memory /\ nameOf' \in Names
    <3>1. Mcp!Remembered(e.key, e.s, None, keyOf[e.r]) \in [McpIds \cup {Mcp!Last} -> Key]
      BY <1>10, <1>12 DEF Mcp!Remembered
    <3>2. Mcp!Remembered(e.named, e.s, FALSE, nameOf[e.r]) \in [McpIds \cup {Mcp!Last} -> BOOLEAN]
      BY <1>10, <1>12 DEF Mcp!Remembered
    <3> QED
      BY <1>8, <3>1, <3>2 DEF SessionTypes, Memory, Names
  <2>2. row' \in Rows
    BY <1>8, <1>10 DEF SessionTypes, Rows, Mcp!Persisted
  <2>3. req' \in [Requests -> {Mcp!New, Mcp!Lost} \cup Asking \cup Acting \cup Calling]
    <3>1. ASSUME NEW p \in Requests PROVE req'[p] \in {Mcp!New, Mcp!Lost} \cup Asking \cup Acting \cup Calling
      <4>1. CASE p = q
        BY <1>14, <1>15, <4>1
      <4>2. CASE p # q /\ req'[p] = req[p]
        BY <4>2 DEF SessionTypes
      <4>3. CASE req'[p] = [req[p] EXCEPT !.crossed = TRUE] /\ req[p] \in Asking \cup Acting \cup Calling
        <5>1. [req[p] EXCEPT !.crossed = TRUE] \in Asking \cup Acting \cup Calling
          BY <4>3 DEF Asking, Acting, Calling
        <5> QED
          BY <4>3, <5>1
      <4> QED
        BY <1>16, <4>1, <4>2, <4>3
    <3>2. DOMAIN req' = Requests /\ req' = [p \in Requests |-> req'[p]]
      BY <1>8
    <3> QED
      BY <3>1, <3>2
  <2>4. presented' \in [McpIds -> SUBSET Keys] /\ latest' \in [McpIds -> Key] /\ strained' \subseteq McpIds
    BY <1>8, <1>10 DEF SessionTypes
  <2>5. faults' \in 0 .. MaxFaults
    BY <1>0, <1>8 DEF SessionTypes, Mcp!Down
  <2> QED
    BY <1>8, <2>1, <2>2, <2>3, <2>4, <2>5 DEF SessionTypes
(* What is remembered, of the session alone and at the replica alone.      *)
<1>18. /\ \A r \in Processes \ {e.r} : keyOf'[r] = keyOf[r] /\ nameOf'[r] = nameOf[r]
       /\ \A t \in McpIds : keyOf'[e.r][t] = IF e.key # None /\ t = e.s THEN e.key ELSE keyOf[e.r][t]
       /\ \A t \in McpIds : nameOf'[e.r][t] = IF e.named # FALSE /\ t = e.s THEN e.named ELSE nameOf[e.r][t]
  <2>1. \A r \in Processes \ {e.r} : keyOf'[r] = keyOf[r] /\ nameOf'[r] = nameOf[r]
    BY <1>8 DEF SessionTypes, Memory, Names
  <2>2. \A t \in McpIds : t # Mcp!Last
    BY <1>0 DEF Mcp!Last
  <2>3. keyOf'[e.r] = Mcp!Remembered(e.key, e.s, None, keyOf[e.r]) /\ nameOf'[e.r] = Mcp!Remembered(e.named, e.s, FALSE, nameOf[e.r])
    BY <1>8, <1>10 DEF SessionTypes, Memory, Names
  <2> QED
    BY <1>12, <2>1, <2>2, <2>3 DEF Mcp!Remembered
<1>19. /\ \A t \in McpIds : row'[t] = row[t] \/ (t = e.s /\ keeps /\ ~hit)
       /\ keeps /\ ~hit => row'[e.s].key = e.key /\ row'[e.s].named = e.named
       /\ \A t \in McpIds : row[t].key # None => row'[t].key # None
  <2>1. CASE keeps /\ ~hit
    <3>1. row' = [row EXCEPT ![e.s] = [key |-> e.key, named |-> e.named]] /\ e.key # None
      BY <1>2, <1>8, <2>1 DEF Mcp!Persisted
    <3> QED
      BY <1>10, <2>1, <3>1 DEF SessionTypes, Rows
  <2>2. CASE ~(keeps /\ ~hit)
    BY <1>8, <2>2
  <2> QED
    BY <2>1, <2>2
<1>20. /\ \A t \in McpIds : presented[t] \subseteq presented'[t] /\ (fresh => e.sent \in presented'[e.s])
       /\ ~fresh => latest' = latest /\ strained' = strained
       /\ \A t \in McpIds \ {e.s} : latest'[t] = latest[t] /\ (t \in strained' <=> t \in strained)
       /\ fresh => latest'[e.s] = e.sent
  BY <1>8, <1>10 DEF SessionTypes
<1>21. /\ e.s # None /\ e.key # None => e.key \in presented'[e.s] /\ e.named = TRUE
       /\ e.sent # None => e.key = e.sent
  <2>1. /\ e.sent # None => e.key = e.sent
        /\ e.key # None => e.named
        /\ e.s # None /\ e.sent = None /\ e.key # None => e.key \in presented[e.s]
    BY <1>9, <1>11 DEF Good, Captured
  <2> QED
    BY <1>3, <1>10, <1>20, <2>1 DEF Session
<1>22. Learned'
  <2>1. ASSUME NEW r \in Processes, NEW t \in McpIds, keyOf'[r][t] # None
        PROVE  keyOf'[r][t] \in presented'[t] /\ (nameOf'[r][t] \/ t \in halfway'[r])
    <3>1. CASE r = e.r /\ t = e.s /\ e.key # None
      BY <1>0, <1>18, <1>21, <3>1
    <3>2. CASE ~(r = e.r /\ t = e.s /\ e.key # None)
      <4>1. keyOf'[r][t] = keyOf[r][t]
        BY <1>18, <3>2
      <4>2. nameOf[r][t] => nameOf'[r][t]
        BY <1>10, <1>18
      <4> QED
        BY <1>8, <1>20, <2>1, <4>1, <4>2 DEF Learned
    <3> QED
      BY <3>1, <3>2
  <2>2. ASSUME NEW t \in McpIds, row'[t].key # None
        PROVE  row'[t].key \in presented'[t] /\ row'[t].named
    BY <1>0, <1>2, <1>19, <1>20, <1>21, <2>2 DEF Learned
  <2> QED
    BY <2>1, <2>2 DEF Learned
(* A request that will write the row back leaves its session strained.     *)
<1>23. Mcp!RowIsLatest'
  <2> SUFFICES ASSUME NEW t \in McpIds, row'[t].key # latest'[t] PROVE t \in strained'
    BY DEF Mcp!RowIsLatest
  <2>1. CASE t # e.s
    BY <1>19, <1>20, <2>1 DEF Mcp!RowIsLatest
  <2>2. CASE t = e.s /\ fresh
    <3>1. keeps
      BY <1>2, <1>3, <1>21, <2>2
    <3>2. hit
      BY <1>19, <1>20, <1>21, <1>3, <2>2, <3>1
    <3> QED
      BY <1>8, <2>2, <3>2
  <2>3. CASE t = e.s /\ ~fresh
    <3>1. latest'[t] = latest[t] /\ strained' = strained
      BY <1>20, <2>3
    <3>2. CASE keeps /\ ~hit
      <4>1. e.sent = None /\ e.s # None /\ e.key # None
        BY <1>2, <1>3, <2>3, <3>2
      <4>2. e.key = latest[e.s] \/ e.s \in strained
        BY <1>9, <1>11, <4>1 DEF Good, Captured
      <4> QED
        BY <1>19, <2>3, <3>1, <3>2, <4>2
    <3>3. CASE ~(keeps /\ ~hit)
      BY <1>19, <2>3, <3>1, <3>3 DEF Mcp!RowIsLatest
    <3> QED
      BY <3>2, <3>3
  <2> QED
    BY <2>1, <2>2, <2>3
<1>24. Alone'
  <2>1. \A p \in Requests \ {q} : req'[p].at = "asked" => req[p].at = "asked" /\ req'[p].r = req[p].r
    <3> SUFFICES ASSUME NEW p \in Requests \ {q}, req'[p].at = "asked"
                 PROVE  req[p].at = "asked" /\ req'[p].r = req[p].r
      OBVIOUS
    <3> QED
      BY <1>16 DEF Asking, Acting, Calling
  <2>2. req'[q].at # "asked"
    BY <1>7, <1>15
  <2> QED
    BY <2>1, <2>2 DEF Alone, Mcp!At
<1>25. Good(new)'
  <2>1. /\ new.at = "bound" /\ new.r = e.r /\ new.s = e.s /\ new.sent = e.sent /\ new.key = key /\ new.named = named
        /\ new.known = e.known /\ (e.hit => new.hit) /\ new.crossed = e.crossed
        /\ new.half = (e.s \in halfway[e.r])
    BY <1>7
  <2>2. e.key # None => key = e.key
    BY <1>5 DEF Mcp!Bound
  <2>3. e.key = None /\ e.s # None => key = keyOf[e.r][e.s] /\ keyOf'[e.r][e.s] = keyOf[e.r][e.s] /\ e.s \in McpIds
    BY <1>5, <1>10, <1>18 DEF Mcp!Bound, Session
  <2>4. e.s # None => (named <=> e.named \/ nameOf[e.r][e.s])
    BY <1>6, <1>10, <1>12 DEF Mcp!Bound, Session
  <2>5. Bound(new)'
    <3>1. e.sent # None => key = e.sent
      BY <1>21, <2>2
    <3>2. ASSUME e.s # None, e.sent = None, ~new.hit, ~new.crossed
          PROVE  keyOf'[e.r][e.s] = key /\ (key = None => row'[e.s].key = None)
      <4>1. CASE e.key # None
        BY <1>10, <1>18, <2>2, <3>2, <4>1 DEF Session
      <4>2. CASE e.key = None
        <5>1. ~keeps
          BY <1>2, <4>2
        <5>2. row' = row
          BY <1>8, <5>1
        <5>3. keyOf[e.r][e.s] # None \/ row[e.s].key = None
          BY <1>9, <1>11, <2>1, <3>2, <4>2 DEF Good, Captured
        <5> QED
          BY <2>3, <3>2, <4>2, <5>2, <5>3
      <4> QED
        BY <4>1, <4>2
    <3> QED
      BY <2>1, <3>1, <3>2 DEF Bound
  <2>6. Served(new)'
    <3> SUFFICES ASSUME e.s # None
                 PROVE  /\ key # None => key \in presented'[e.s]
                        /\ key = None => ~e.known \/ new.hit
                        /\ key # None /\ ~named => e.s \in halfway[e.r]
      BY <2>1 DEF Served
    <3>1. CASE e.key # None
      BY <1>21, <2>2, <2>4, <3>1
    <3>2. CASE e.key = None
      <4>1. e.s \in McpIds /\ key = keyOf[e.r][e.s]
        BY <2>3, <3>2
      <4>2. key # None => key \in presented[e.s] /\ (nameOf[e.r][e.s] \/ e.s \in halfway[e.r])
        BY <1>10, <4>1 DEF Learned
      <4>3. key = None => ~e.known \/ e.hit
        BY <1>9, <1>11, <3>2, <4>1 DEF Good, Captured
      <4> QED
        BY <1>20, <2>1, <2>4, <4>1, <4>2, <4>3
    <3> QED
      BY <3>1, <3>2
  <2> QED
    BY <2>1, <2>5, <2>6 DEF Good, Captured, Attributed
(* The other requests of the session learn that a key was sent, or that    *)
(* what is written back is what they know.                                 *)
<1>26. ASSUME NEW p \in Requests \ {q} PROVE Good(req[p])'
  <2>1. PICK d : d = req[p]
    OBVIOUS
  <2>2. PICK n : n = req'[p]
    OBVIOUS
  <2>3. /\ n.at = d.at
        /\ d.at \in {"asked", "bound", "called"} =>
             /\ n.s = d.s /\ n.key = d.key /\ n.named = d.named /\ n.known = d.known /\ n.hit = d.hit
             /\ n.r = d.r /\ (d.crossed => n.crossed)
             /\ fresh /\ d.s = e.s => n.crossed
        /\ d.at \in {"asked", "bound"} => n.sent = d.sent
        /\ d.at \in {"bound", "called"} => n.half = d.half
        /\ d.at = "called" => n.usage = d.usage
    <3>1. CASE n = d /\ (fresh /\ d.at \in {"asked", "bound", "called"} => d.s # e.s)
      BY <3>1
    <3>2. CASE n = [d EXCEPT !.crossed = TRUE] /\ d \in Asking
      BY <3>2 DEF Asking
    <3>3. CASE n = [d EXCEPT !.crossed = TRUE] /\ d \in Acting
      BY <3>3 DEF Acting
    <3>4. CASE n = [d EXCEPT !.crossed = TRUE] /\ d \in Calling
      BY <3>4 DEF Calling
    <3> QED
      BY <1>16, <2>1, <2>2, <3>1, <3>2, <3>3, <3>4
  <2>4. Good(d)
    BY <2>1
  <2>5. d.at = "asked" => d \in Asking /\ d.r # e.r
    <3>1. d.at = "asked" => d \in Asking
      BY <2>1 DEF SessionTypes, Acting, Calling, Mcp!New, Mcp!Lost
    <3>2. d.at = "asked" => d.r # e.r
      BY <1>1, <1>8, <2>1 DEF Alone, Mcp!At
    <3> QED
      BY <3>1, <3>2
  <2>6. d.at = "bound" => d \in Acting
    BY <2>1 DEF SessionTypes, Asking, Calling, Mcp!New, Mcp!Lost
  <2>7. d.at = "called" => d \in Calling
    BY <2>1 DEF SessionTypes, Asking, Acting, Mcp!New, Mcp!Lost
  <2>8. Captured(n)'
    <3> SUFFICES ASSUME d.at = "asked" PROVE Captured(n)'
      BY <2>3 DEF Captured
    <3>1. d.r \in Processes \ {e.r} /\ d.s \in Session /\ keyOf'[d.r] = keyOf[d.r] /\ d.key \in Key
      BY <1>18, <2>5 DEF Asking
    <3>2. /\ d.sent # None => d.key = d.sent
          /\ d.key # None => d.named
      BY <2>4 DEF Good, Captured
    <3>3. ASSUME d.s # None, d.sent = None, d.key # None
          PROVE  /\ d.key \in presented'[d.s] /\ row'[d.s].key # None /\ keyOf'[d.r][d.s] = None
                 /\ d.key = latest'[d.s] \/ d.s \in strained'
      <4>1. /\ d.key \in presented[d.s] /\ row[d.s].key # None /\ keyOf[d.r][d.s] = None
            /\ d.key = latest[d.s] \/ d.s \in strained
        BY <2>4, <3>3 DEF Good, Captured
      <4>2. d.s \in McpIds
        BY <3>1, <3>3 DEF Session
      <4>3. d.key = latest'[d.s] \/ d.s \in strained'
        <5>1. CASE fresh /\ d.s = e.s
          <6>1. p \in Mcp!WritingBack(e.s)
            BY <2>1, <3>3, <5>1 DEF Mcp!WritingBack, Mcp!At
          <6> QED
            BY <1>8, <5>1, <6>1
        <5>2. CASE ~(fresh /\ d.s = e.s)
          BY <1>20, <4>1, <4>2, <5>2
        <5> QED
          BY <5>1, <5>2
      <4> QED
        BY <1>19, <1>20, <3>1, <4>1, <4>2, <4>3
    <3>4. ASSUME d.s # None, d.key = None, ~d.hit
          PROVE  /\ d.known => keyOf'[d.r][d.s] # None
                 /\ n.crossed \/ keyOf'[d.r][d.s] # None \/ row'[d.s].key = None
      <4>1. /\ d.known => keyOf[d.r][d.s] # None
            /\ d.crossed \/ keyOf[d.r][d.s] # None \/ row[d.s].key = None
        BY <2>4, <3>4 DEF Good, Captured
      <4>2. d.s \in McpIds
        BY <3>1, <3>4 DEF Session
      <4>3. row[d.s].key = None => n.crossed \/ row'[d.s].key = None
        <5>1. CASE row'[d.s] = row[d.s]
          BY <5>1
        <5>2. CASE d.s = e.s /\ keeps /\ ~hit
          <6>1. CASE fresh
            BY <2>3, <5>2, <6>1
          <6>2. CASE ~fresh
            <7>1. e.s # None /\ e.sent = None /\ e.key # None
              BY <1>2, <1>3, <5>2, <6>2
            <7>2. row[e.s].key # None
              BY <1>9, <1>11, <7>1 DEF Good, Captured
            <7> QED
              BY <5>2, <7>2
          <6> QED
            BY <6>1, <6>2
        <5> QED
          BY <1>19, <4>2, <5>1, <5>2
      <4> QED
        BY <2>3, <3>1, <4>1, <4>3
    <3> QED
      BY <2>3, <3>2, <3>3, <3>4 DEF Captured
  <2>9. Bound(n)'
    <3> SUFFICES ASSUME d.at = "bound" PROVE Bound(n)'
      BY <2>3 DEF Bound
    <3>1. d.sent # None => d.key = d.sent
      BY <2>4 DEF Good, Bound
    <3>2. ASSUME d.s # None, d.sent = None, ~d.hit, ~n.crossed
          PROVE  keyOf'[d.r][d.s] = d.key /\ (d.key = None => row'[d.s].key = None)
      <4>1. d.r \in Processes /\ d.s \in McpIds
        BY <2>6, <3>2 DEF Acting, Session
      <4>2. keyOf[d.r][d.s] = d.key /\ (d.key = None => row[d.s].key = None)
        BY <2>3, <2>4, <3>2 DEF Good, Bound
      <4>3. ~(fresh /\ d.s = e.s)
        BY <2>3, <3>2
      <4>4. CASE d.s = e.s /\ e.key # None
        <5>1. e.s # None /\ e.sent = None
          BY <1>3, <3>2, <4>3, <4>4
        <5>2. row[e.s].key # None /\ keyOf[e.r][e.s] = None
          BY <1>9, <1>11, <4>4, <5>1 DEF Good, Captured
        <5>3. d.key # None /\ d.r # e.r
          BY <4>2, <4>4, <5>2
        <5> QED
          BY <1>18, <4>1, <4>2, <5>3
      <4>5. CASE ~(d.s = e.s /\ e.key # None)
        <5>1. keyOf'[d.r][d.s] = keyOf[d.r][d.s]
          BY <1>18, <4>1, <4>5
        <5>2. row'[d.s] = row[d.s]
          BY <1>2, <1>19, <4>1, <4>5
        <5> QED
          BY <4>2, <5>1, <5>2
      <4> QED
        BY <4>4, <4>5
    <3> QED
      BY <2>3, <3>1, <3>2 DEF Bound
  <2>10. Served(n)'
    <3> SUFFICES ASSUME d.at \in {"bound", "called"}, d.s # None
                 PROVE  /\ d.key # None => d.key \in presented'[d.s]
                        /\ d.key = None => ~d.known \/ d.hit
                        /\ d.key # None /\ ~d.named => d.half
      BY <2>3 DEF Served
    <3>1. d.s \in McpIds
      BY <2>6, <2>7 DEF Acting, Calling, Session
    <3> QED
      BY <1>20, <2>4, <3>1 DEF Good, Served
  <2>11. Attributed(n)'
    BY <2>3, <2>4 DEF Good, Attributed
  <2>12. Good(n)'
    BY <2>8, <2>9, <2>10, <2>11 DEF Good
  <2> QED
    BY <2>2, <2>12 DEF Good, Captured, Bound, Served, Attributed
<1>27. ASSUME NEW p \in Requests PROVE Good(req[p])'
  BY <1>15, <1>25, <1>26 DEF Good, Captured, Bound, Served, Attributed
<1> QED
  BY <1>17, <1>22, <1>23, <1>24, <1>27

(* A session that presented a client's key is known at every replica that  *)
(* serves it, by the key sent last, and its calls are counted for that     *)
(* client, whatever is lost or restarts (src/mcp/auth.py:212 and 277).     *)
THEOREM SessionsAreKept == Mcp!Spec => []SessionsHold
<1>1. McpInv /\ [Mcp!Next]_Mcp!vars => McpInv'
  <2> SUFFICES ASSUME McpInv, [Mcp!Next]_Mcp!vars PROVE McpInv'
    OBVIOUS
  <2>1. CASE UNCHANGED Mcp!vars
    BY <2>1 DEF Mcp!vars, McpInv, SessionTypes, Learned, Alone, Good, Captured, Bound, Served, Attributed,
                Mcp!RowIsLatest, Mcp!At
  <2>2. CASE Mcp!Next
    BY <2>2, LookKeeps, BindKeeps, CallKeeps, RestartKeeps DEF Mcp!Next, Session, Key
  <2> QED
    BY <2>1, <2>2
<1> QED
  BY McpInit, McpHolds, <1>1, PTL DEF Mcp!Spec

-----------------------------------------------------------------------------
(* Calls: Tool, an instance of McpCalls.                                   *)

(* The key's roles of this tick are on record.                             *)
HeldNow == \A r \in Tool!RoleNow : <<clock, r>> \in held

(* A role that a lookup may have come back with since a tick.              *)
KnownSince(t, r) ==
  \E u \in t .. clock : <<u, r>> \in held \/ (r = "guest" /\ u \in blind)

(* A lookup comes back with a role the key had since it began ...          *)
LookupInTime ==
  /\ look.at \in {"none", "asking", "read"}
  /\ look.at # "none" => look.since \in Nat /\ look.since <= clock
  /\ look.at = "read" => look.role \in Roles \cup {"guest"} /\ KnownSince(look.since, look.role)

(* ... and what is remembered is no older than the time it is kept.        *)
CacheInTime == clock < cache.until => KnownSince(cache.until - Ttl, cache.role)

(* A call between made and counted: what is recorded of it, and why.       *)
Accounted(c) ==
  /\ usage[c] \in {0, 1, 2}
  /\ call[c] \in {"none", "refused", "post", "write, posted"} => usage[c] = 0
  /\ call[c] \in {"write", "posted"} => usage[c] \in {0, 1}
  /\ call[c] \in {"write, posted", "posted"} => c \in belated
  /\ call[c] = "write" /\ usage[c] = 1 => c \in belated
  /\ call[c] = "done" => (usage[c] = 0 => c \in invalid \cup unheard) /\ (usage[c] = 2 => c \in belated)
  /\ ~Tool!Valid /\ call[c] \notin {"none", "refused", "done"} => c \in invalid

(* The stages of a call.                                                   *)
Stages == call \in [Calls -> {"none", "refused", "post", "write", "write, posted", "posted", "done"}]

(* Every call is accounted for.                                            *)
Counting == \A c \in Calls : Accounted(c)

(* What every step keeps.                                                  *)
CallsInv ==
  /\ CallsHold /\ clock \in 0 .. MaxTime
  /\ HeldNow /\ LookupInTime /\ CacheInTime /\ Counting

(* It holds before any call ...                                            *)
LEMMA CallsInit == Tool!Init => CallsInv
<1> SUFFICES ASSUME Tool!Init PROVE CallsInv
  OBVIOUS
<1> USE DEF Tool!Init
<1>1. clock = 0 /\ cache.until = 0 /\ Ttl \in Nat /\ MaxTime \in Nat
  BY ServerAssumption DEF Tool!Never
<1>2. PICK r \in Roles : user = [role |-> r, active |-> TRUE]
  OBVIOUS
<1>3. Tool!TypeOK
  BY <1>1, <1>2 DEF Tool!TypeOK, Tool!Never
<1>4. HeldNow
  <2>1. user.active /\ user.role = r /\ user # Tool!NoUser
    BY <1>2 DEF Tool!NoUser
  <2> QED
    BY <1>1, <2>1 DEF HeldNow, Tool!RoleNow, Tool!Valid
<1>5. LookupInTime /\ CacheInTime /\ ~Tool!Remembered
  BY <1>1 DEF LookupInTime, CacheInTime, Tool!Remembered
<1>6. Counting /\ Tool!CountedOnce
  BY DEF Counting, Accounted, Tool!CountedOnce, Tool!Valid
<1> QED
  BY <1>1, <1>3, <1>4, <1>5, <1>6 DEF CallsInv, CallsHold, Tool!RoleIsRecent

(* ... whoever changes the role of the key or looks it up ...              *)
LEMMA RoleStep ==
  ASSUME CallsInv, Tool!Next
  PROVE  (HeldNow /\ LookupInTime /\ CacheInTime /\ clock \in 0 .. MaxTime)'
<1> USE DEF CallsInv
<1>0. Ttl \in Nat /\ MaxTime \in Nat /\ clock \in Nat
  BY ServerAssumption
<1>1. Tool!TypeOK
  BY DEF CallsHold
<1>2. ASSUME UNCHANGED <<user, clock>>, held \subseteq held', blind \subseteq blind'
      PROVE  HeldNow' /\ \A t, r : KnownSince(t, r) => KnownSince(t, r)'
  BY <1>2 DEF HeldNow, KnownSince, Tool!RoleNow, Tool!Valid
<1>3. CASE Tool!AskRole
  <2>1. LookupInTime'
    BY <1>0, <1>3 DEF LookupInTime, Tool!AskRole
  <2> QED
    BY <1>2, <1>3, <2>1 DEF Tool!AskRole, CacheInTime
<1>4. ASSUME NEW way \in {"database", "http", "neither"}, Tool!ReadRole(way)
      PROVE  (HeldNow /\ LookupInTime /\ CacheInTime /\ clock \in 0 .. MaxTime)'
  <2>1. Tool!RoleFound(way) \in Roles \cup {"guest"}
    BY <1>1 DEF Tool!RoleFound, Tool!TypeOK, Tool!Valid
  <2>2. Tool!RoleFound(way) \in Tool!RoleNow \/ (way = "neither" /\ Tool!RoleFound(way) = "guest")
    BY DEF Tool!RoleFound, Tool!RoleNow, Tool!Valid
  <2>3. UNCHANGED <<user, clock, cache, held>> /\ blind \subseteq blind' /\ (way = "neither" => clock \in blind')
    BY <1>4 DEF Tool!ReadRole
  <2>4. look.at = "asking" /\ look'.at = "read" /\ look'.since = look.since /\ look'.role = Tool!RoleFound(way)
    BY <1>4 DEF Tool!ReadRole
  <2>5. look.since \in Nat /\ look.since <= clock
    BY <2>4 DEF LookupInTime
  <2>6. KnownSince(look.since, Tool!RoleFound(way))'
    <3>1. clock' \in look.since' .. clock'
      BY <1>0, <2>3, <2>4, <2>5
    <3>2. <<clock, Tool!RoleFound(way)>> \in held \/ (Tool!RoleFound(way) = "guest" /\ clock \in blind')
      BY <2>2, <2>3 DEF HeldNow
    <3>3. <<clock', Tool!RoleFound(way)>> \in held' \/ (Tool!RoleFound(way) = "guest" /\ clock' \in blind')
      BY <2>3, <3>2
    <3> QED
      BY <3>1, <3>3, <2>3 DEF KnownSince, Tool!RoleFound, Tool!Valid
  <2>7. LookupInTime'
    BY <2>1, <2>3, <2>4, <2>5, <2>6 DEF LookupInTime, KnownSince, Tool!RoleFound, Tool!Valid
  <2> QED
    BY <1>2, <2>3, <2>7 DEF CacheInTime
<1>5. CASE Tool!RememberRole
  <2>1. look.at = "read" /\ cache' = [role |-> look.role, until |-> look.since + Ttl] /\ look'.at = "none"
    BY <1>5 DEF Tool!RememberRole, Tool!Until
  <2>2. UNCHANGED <<user, clock, held, blind>>
    BY <1>5 DEF Tool!RememberRole
  <2>3. look.since \in Nat /\ KnownSince(look.since, look.role)
    BY <2>1 DEF LookupInTime
  <2>4. cache'.until - Ttl = look.since /\ cache'.role = look.role
    BY <1>0, <2>1, <2>3
  <2>5. CacheInTime'
    BY <1>2, <2>2, <2>3, <2>4 DEF CacheInTime, KnownSince
  <2>6. LookupInTime'
    BY <2>1 DEF LookupInTime
  <2> QED
    BY <1>2, <2>2, <2>5, <2>6
<1>6. CASE Tool!Tick
  <2>1. clock' = clock + 1 /\ clock < MaxTime /\ UNCHANGED <<user, cache, look, blind>> /\ held \subseteq held'
    BY <1>6 DEF Tool!Tick
  <2>2. \A t, r : KnownSince(t, r) => KnownSince(t, r)'
    <3> SUFFICES ASSUME NEW t, NEW r, KnownSince(t, r) PROVE KnownSince(t, r)'
      OBVIOUS
    <3>1. PICK u \in t .. clock : <<u, r>> \in held \/ (r = "guest" /\ u \in blind)
      BY DEF KnownSince
    <3>2. u \in t .. (clock + 1)
      BY <1>0
    <3> QED
      BY <2>1, <3>1, <3>2 DEF KnownSince
  <2>3. HeldNow'
    BY <1>6, <2>1 DEF HeldNow, Tool!Tick, Tool!RoleNow, Tool!Valid
  <2>4. LookupInTime'
    BY <1>0, <2>1, <2>2 DEF LookupInTime, KnownSince
  <2>5. CacheInTime'
    <3>0. cache.until \in 0 .. (MaxTime + Ttl)
      BY <1>1 DEF Tool!TypeOK
    <3>1. clock + 1 < cache.until => clock < cache.until
      BY <1>0, <3>0
    <3> QED
      BY <2>1, <2>2, <3>1 DEF CacheInTime, KnownSince
  <2> QED
    BY <1>0, <2>1, <2>3, <2>4, <2>5
<1>7. ASSUME NEW new, Tool!ChangeUser(new)
      PROVE  (HeldNow /\ LookupInTime /\ CacheInTime /\ clock \in 0 .. MaxTime)'
  <2>1. UNCHANGED <<cache, look, clock, blind>> /\ held \subseteq held'
    BY <1>7 DEF Tool!ChangeUser
  <2>2. \A t, r : KnownSince(t, r) => KnownSince(t, r)'
    BY <2>1 DEF KnownSince
  <2>3. HeldNow'
    BY <1>7, <2>1 DEF HeldNow, Tool!ChangeUser
  <2> QED
    BY <2>1, <2>2, <2>3 DEF LookupInTime, CacheInTime
<1>8. ASSUME UNCHANGED <<user, clock, cache, look, held, blind>>
      PROVE  (HeldNow /\ LookupInTime /\ CacheInTime /\ clock \in 0 .. MaxTime)'
  BY <1>8 DEF HeldNow, LookupInTime, CacheInTime, KnownSince, Tool!RoleNow, Tool!Valid
<1>9. ASSUME NEW c \in Calls, Tool!CallTool(c) \/ Tool!RecordLate(c)
      PROVE  UNCHANGED <<user, clock, cache, look, held, blind>>
  BY <1>9 DEF Tool!CallTool, Tool!RecordLate
<1>10. ASSUME NEW c \in Calls, NEW o, Tool!Post(c, o) \/ Tool!Write(c, o)
       PROVE  UNCHANGED <<user, clock, cache, look, held, blind>>
  BY <1>10 DEF Tool!Post, Tool!Write
<1> QED
  BY <1>3, <1>4, <1>5, <1>6, <1>7, <1>8, <1>9, <1>10 DEF Tool!Next

(* (a time within the last ticks)                                          *)
LEMMA WindowFacts ==
  ASSUME NEW a \in Int, NEW t \in Int, NEW c \in Int, NEW u \in (a - t) .. c, c < a
  PROVE  u \in (c - t + 1) .. c
OBVIOUS

(* ... and whichever of the two writes of a call comes first or gets lost. *)
LEMMA CountStep ==
  ASSUME CallsInv, Tool!Next
  PROVE  (Tool!TypeOK /\ Counting /\ Tool!CountedOnce)'
<1> DEFINE Goal == Tool!TypeOK /\ Counting /\ Tool!CountedOnce
<1> USE DEF CallsInv
<1>0. Ttl \in Nat /\ MaxTime \in Nat /\ clock \in 0 .. MaxTime
  BY ServerAssumption
<1>1. Goal
  BY DEF CallsHold
<1>2. ASSUME UNCHANGED <<user, call, usage, belated, unheard, invalid>>,
             cache' \in [role : Roles \cup {"guest"}, until : 0 .. MaxTime + Ttl]
      PROVE  Goal'
  BY <1>1, <1>2 DEF Tool!TypeOK, Counting, Accounted, Tool!CountedOnce, Tool!Valid
<1>3. cache \in [role : Roles \cup {"guest"}, until : 0 .. MaxTime + Ttl]
  BY <1>1 DEF Tool!TypeOK
<1>4. ASSUME Tool!AskRole \/ Tool!Tick \/ \E way : Tool!ReadRole(way)
      PROVE  Goal'
  BY <1>2, <1>3, <1>4 DEF Tool!AskRole, Tool!Tick, Tool!ReadRole
<1>5. CASE Tool!RememberRole
  <2>1. look.at = "read" /\ cache' = [role |-> look.role, until |-> look.since + Ttl]
    BY <1>5 DEF Tool!RememberRole, Tool!Until
  <2>2. look.since \in Nat /\ look.since <= clock /\ look.role \in Roles \cup {"guest"}
    BY <2>1 DEF LookupInTime
  <2>3. look.since + Ttl \in 0 .. MaxTime + Ttl
    BY <1>0, <2>2
  <2> QED
    BY <1>2, <1>5, <2>1, <2>2, <2>3 DEF Tool!RememberRole
<1>b. ASSUME NEW c \in Calls PROVE usage[c] \in Int /\ Accounted(c) /\ usage \in [Calls -> Int]
  <2>1. usage \in [Calls -> 0 .. 2]
    BY <1>1 DEF Tool!TypeOK
  <2>2. usage[c] \in {0, 1, 2}
    BY <2>1
  <2>3. usage[c] \in Int /\ usage \in [Calls -> Int]
    BY <2>1
  <2>4. Accounted(c)
    BY <1>1 DEF Counting
  <2> QED
    BY <2>3, <2>4
<1>a. ASSUME NEW c \in Calls, UNCHANGED <<user, cache>>, Stages',
             usage' \in [Calls -> Int],
             \A d \in Calls \ {c} : call'[d] = call[d] /\ usage'[d] = usage[d],
             belated \subseteq belated', unheard \subseteq unheard', invalid \subseteq invalid',
             Accounted(c)'
      PROVE  Goal'
  <2>1. \A d \in Calls : usage'[d] \in 0 .. 2
    <3>1. \A d \in Calls \ {c} : usage[d] \in 0 .. 2
      BY <1>1 DEF Tool!TypeOK
    <3>2. usage'[c] \in {0, 1, 2}
      BY <1>a DEF Accounted
    <3>3. usage'[c] \in 0 .. 2
      BY <3>2
    <3> QED
      BY <1>a, <3>1, <3>3
  <2>2. Tool!TypeOK'
    BY <1>a, <1>1, <2>1 DEF Tool!TypeOK, Stages
  <2>3. Tool!Valid' <=> Tool!Valid
    BY <1>a DEF Tool!Valid
  <2>4. Counting' /\ Tool!CountedOnce'
    BY <1>a, <1>1, <2>3 DEF Counting, Tool!CountedOnce, Accounted
  <2> QED
    BY <2>2, <2>4
<1>c. ASSUME NEW c \in Calls, NEW S, call' = [call EXCEPT ![c] = S],
             S \in {"none", "refused", "post", "write", "write, posted", "posted", "done"}
      PROVE  call'[c] = S /\ (\A d \in Calls \ {c} : call'[d] = call[d]) /\ Stages'
  BY <1>1, <1>c DEF Tool!TypeOK, Stages
<1>d. ASSUME NEW c \in Calls, usage' = usage \/ usage' = [usage EXCEPT ![c] = @ + 1]
      PROVE  usage' \in [Calls -> Int] /\ \A d \in Calls \ {c} : usage'[d] = usage[d]
  BY <1>1, <1>b, <1>d
<1>e. ASSUME NEW c \in Calls, usage' = [usage EXCEPT ![c] = @ + 1]
      PROVE  usage'[c] = usage[c] + 1
  BY <1>b, <1>e
<1>6. ASSUME NEW c \in Calls, Tool!CallTool(c) PROVE Goal'
  <2>1. usage[c] = 0
    BY <1>1, <1>6 DEF Tool!CallTool, Counting, Accounted
  <2>2. call'[c] \in {"refused", "post"} /\ (\A d \in Calls \ {c} : call'[d] = call[d]) /\ Stages'
    BY <1>6, <1>c DEF Tool!CallTool
  <2>3. UNCHANGED <<user, cache, usage, belated, unheard>> /\ invalid \subseteq invalid' /\ (~Tool!Valid => c \in invalid')
    BY <1>6 DEF Tool!CallTool
  <2>v. Tool!Valid' <=> Tool!Valid
    BY <2>3 DEF Tool!Valid
  <2>4. Accounted(c)'
    <3>1. usage'[c] = 0 /\ usage'[c] \in {0, 1, 2}
      BY <2>1, <2>3
    <3>2. call'[c] \in {"none", "refused", "post", "write, posted"} => usage'[c] = 0
      BY <3>1
    <3>3. call'[c] \in {"write", "posted"} => usage'[c] \in {0, 1}
      BY <3>1
    <3>4. call'[c] \in {"write, posted", "posted"} => c \in belated'
      BY <2>2
    <3>5. call'[c] = "write" /\ usage'[c] = 1 => c \in belated'
      BY <2>2
    <3>6. call'[c] = "done" => (usage'[c] = 0 => c \in invalid' \cup unheard') /\ (usage'[c] = 2 => c \in belated')
      BY <2>2
    <3>7. ~Tool!Valid' /\ call'[c] \notin {"none", "refused", "done"} => c \in invalid'
      BY <2>v, <2>2, <2>3
    <3> QED
      BY <3>1, <3>2, <3>3, <3>4, <3>5, <3>6, <3>7 DEF Accounted
  <2> QED
    BY <1>a, <1>d, <2>2, <2>3, <2>4
<1>7. ASSUME NEW c \in Calls, Tool!RecordLate(c) PROVE Goal'
  <2>1. call[c] \in {"write, posted", "posted"}
    BY <1>7 DEF Tool!RecordLate
  <2>2. /\ (call[c] = "posted" => call'[c] = "done") /\ (call[c] = "write, posted" => call'[c] = "write")
        /\ (\A d \in Calls \ {c} : call'[d] = call[d]) /\ Stages'
    BY <2>1, <1>7, <1>c DEF Tool!RecordLate
  <2>3. UNCHANGED <<user, cache, belated, unheard, invalid>>
    BY <1>7 DEF Tool!RecordLate
  <2>4. usage' = IF Tool!Valid THEN [usage EXCEPT ![c] = @ + 1] ELSE usage
    BY <1>7 DEF Tool!RecordLate
  <2>5. /\ Tool!Valid => (usage[c] = 0 => usage'[c] = 1) /\ (usage[c] = 1 => usage'[c] = 2)
        /\ ~Tool!Valid => usage'[c] = usage[c]
    BY <1>e, <2>4
  <2>v. Tool!Valid' <=> Tool!Valid
    BY <2>3 DEF Tool!Valid
  <2>a. /\ usage[c] \in {0, 1, 2}
        /\ call[c] = "posted" => usage[c] \in {0, 1} /\ c \in belated
        /\ call[c] = "write, posted" => usage[c] = 0 /\ c \in belated
        /\ call[c] = "write" => usage[c] \in {0, 1} /\ (usage[c] = 1 => c \in belated)
        /\ call[c] = "post" => usage[c] = 0
        /\ ~Tool!Valid => c \in invalid
    BY <1>b, <2>1 DEF Accounted
  <2>6. Accounted(c)'
    <3>1. usage'[c] \in {0, 1, 2} /\ (call'[c] \in {"write", "posted"} => usage'[c] \in {0, 1})
      BY <2>1, <2>2, <2>5, <2>a
    <3>2. call'[c] \in {"none", "refused", "post", "write, posted"} => usage'[c] = 0
      BY <2>1, <2>2, <2>5, <2>a
    <3>3. call'[c] \in {"write, posted", "posted"} => c \in belated'
      BY <2>1, <2>2, <2>3, <2>a
    <3>4. call'[c] = "write" /\ usage'[c] = 1 => c \in belated'
      BY <2>1, <2>2, <2>3, <2>5, <2>a
    <3>0. usage[c] \in {0, 1}
      BY <2>1, <2>a
    <3>7. usage'[c] = 0 => ~Tool!Valid
      BY <2>5, <3>0
    <3>8. call'[c] = "done" => call[c] = "posted"
      BY <2>1, <2>2
    <3>5. call'[c] = "done" => (usage'[c] = 0 => c \in invalid' \cup unheard') /\ (usage'[c] = 2 => c \in belated')
      BY <3>7, <3>8, <2>3, <2>a
    <3>6. ~Tool!Valid' /\ call'[c] \notin {"none", "refused", "done"} => c \in invalid'
      BY <2>v, <2>3, <2>a
    <3> QED
      BY <3>1, <3>2, <3>3, <3>4, <3>5, <3>6 DEF Accounted
  <2> QED
    BY <1>a, <1>d, <2>2, <2>3, <2>4, <2>6
<1>8. ASSUME NEW c \in Calls, NEW o \in {"recorded", "refused", "lost", "late"}, Tool!Post(c, o) PROVE Goal'
  <2>1. call[c] = "post"
    BY <1>8 DEF Tool!Post
  <2>2. /\ (o = "recorded" => call'[c] = "done") /\ (o = "late" => call'[c] = "write, posted")
        /\ o \in {"refused", "lost"} => call'[c] = "write"
        /\ (\A d \in Calls \ {c} : call'[d] = call[d]) /\ Stages'
    BY <1>8, <1>c DEF Tool!Post, Tool!Posted
  <2>3. /\ UNCHANGED <<user, cache, invalid>> /\ belated \subseteq belated' /\ unheard \subseteq unheard'
        /\ o = "late" => c \in belated'
    BY <1>8 DEF Tool!Post
  <2>4. usage' = IF o = "recorded" THEN [usage EXCEPT ![c] = @ + 1] ELSE usage
    BY <1>8 DEF Tool!Post
  <2>5. /\ o = "recorded" => (usage[c] = 0 => usage'[c] = 1) /\ (usage[c] = 1 => usage'[c] = 2)
        /\ ~(o = "recorded") => usage'[c] = usage[c]
    BY <1>e, <2>4
  <2>v. Tool!Valid' <=> Tool!Valid
    BY <2>3 DEF Tool!Valid
  <2>a. /\ usage[c] \in {0, 1, 2}
        /\ call[c] = "posted" => usage[c] \in {0, 1} /\ c \in belated
        /\ call[c] = "write, posted" => usage[c] = 0 /\ c \in belated
        /\ call[c] = "write" => usage[c] \in {0, 1} /\ (usage[c] = 1 => c \in belated)
        /\ call[c] = "post" => usage[c] = 0
        /\ ~Tool!Valid => c \in invalid
    BY <1>b, <2>1 DEF Accounted
  <2>6. Accounted(c)'
    <3>1. usage'[c] \in {0, 1, 2} /\ (call'[c] \in {"write", "posted"} => usage'[c] \in {0, 1})
      BY <2>1, <2>2, <2>5, <2>a
    <3>2. call'[c] \in {"none", "refused", "post", "write, posted"} => usage'[c] = 0
      BY <2>1, <2>2, <2>5, <2>a
    <3>3. call'[c] \in {"write, posted", "posted"} => c \in belated'
      BY <2>1, <2>2, <2>3, <2>a
    <3>4. call'[c] = "write" /\ usage'[c] = 1 => c \in belated'
      BY <2>1, <2>2, <2>3, <2>5, <2>a
    <3>5. call'[c] = "done" => (usage'[c] = 0 => c \in invalid' \cup unheard') /\ (usage'[c] = 2 => c \in belated')
      BY <2>1, <2>2, <2>3, <2>5, <2>a
    <3>6. ~Tool!Valid' /\ call'[c] \notin {"none", "refused", "done"} => c \in invalid'
      BY <2>v, <2>3, <2>a
    <3> QED
      BY <3>1, <3>2, <3>3, <3>4, <3>5, <3>6 DEF Accounted
  <2> QED
    BY <1>a, <1>d, <2>2, <2>3, <2>4, <2>6
<1>9. ASSUME NEW c \in Calls, NEW hit \in BOOLEAN, Tool!Write(c, hit) PROVE Goal'
  <2>1. call[c] \in {"write", "write, posted"}
    BY <1>9 DEF Tool!Write
  <2>2. /\ (call[c] = "write" => call'[c] = "done") /\ (call[c] = "write, posted" => call'[c] = "posted")
        /\ (\A d \in Calls \ {c} : call'[d] = call[d]) /\ Stages'
    BY <2>1, <1>9, <1>c DEF Tool!Write
  <2>3. UNCHANGED <<user, cache, belated, invalid>> /\ unheard \subseteq unheard' /\ (hit => c \in unheard')
    BY <1>9 DEF Tool!Write
  <2>4. usage' = IF Tool!Valid /\ ~hit THEN [usage EXCEPT ![c] = @ + 1] ELSE usage
    BY <1>9 DEF Tool!Write
  <2>5. /\ (Tool!Valid /\ ~hit) => (usage[c] = 0 => usage'[c] = 1) /\ (usage[c] = 1 => usage'[c] = 2)
        /\ ~(Tool!Valid /\ ~hit) => usage'[c] = usage[c]
    BY <1>e, <2>4
  <2>v. Tool!Valid' <=> Tool!Valid
    BY <2>3 DEF Tool!Valid
  <2>a. /\ usage[c] \in {0, 1, 2}
        /\ call[c] = "posted" => usage[c] \in {0, 1} /\ c \in belated
        /\ call[c] = "write, posted" => usage[c] = 0 /\ c \in belated
        /\ call[c] = "write" => usage[c] \in {0, 1} /\ (usage[c] = 1 => c \in belated)
        /\ call[c] = "post" => usage[c] = 0
        /\ ~Tool!Valid => c \in invalid
    BY <1>b, <2>1 DEF Accounted
  <2>6. Accounted(c)'
    <3>1. usage'[c] \in {0, 1, 2} /\ (call'[c] \in {"write", "posted"} => usage'[c] \in {0, 1})
      BY <2>1, <2>2, <2>5, <2>a
    <3>2. call'[c] \in {"none", "refused", "post", "write, posted"} => usage'[c] = 0
      BY <2>1, <2>2, <2>5, <2>a
    <3>3. call'[c] \in {"write, posted", "posted"} => c \in belated'
      BY <2>1, <2>2, <2>3, <2>a
    <3>4. call'[c] = "write" /\ usage'[c] = 1 => c \in belated'
      BY <2>1, <2>2, <2>3, <2>5, <2>a
    <3>0. usage[c] \in {0, 1}
      BY <2>1, <2>a
    <3>7. usage'[c] = 0 => usage'[c] = usage[c] /\ ~(Tool!Valid /\ ~hit)
      BY <2>5, <3>0
    <3>8. call'[c] = "done" /\ usage'[c] = 0 => c \in invalid' \cup unheard'
      BY <3>7, <2>3, <2>a
    <3>9. call'[c] = "done" /\ usage'[c] = 2 => call[c] = "write" /\ usage[c] = 1
      <4> SUFFICES ASSUME call'[c] = "done", usage'[c] = 2 PROVE call[c] = "write" /\ usage[c] = 1
        OBVIOUS
      <4>1. call[c] = "write"
        BY <2>1, <2>2
      <4>2. usage[c] # 0
        BY <2>5
      <4> QED
        BY <4>1, <4>2, <3>0
    <3>5. call'[c] = "done" => (usage'[c] = 0 => c \in invalid' \cup unheard') /\ (usage'[c] = 2 => c \in belated')
      BY <3>8, <3>9, <2>3, <2>a
    <3>6. ~Tool!Valid' /\ call'[c] \notin {"none", "refused", "done"} => c \in invalid'
      BY <2>v, <2>3, <2>a
    <3> QED
      BY <3>1, <3>2, <3>3, <3>4, <3>5, <3>6 DEF Accounted
  <2> QED
    BY <1>a, <1>d, <2>2, <2>3, <2>4, <2>6
<1>10. ASSUME NEW new \in [role : Roles, active : BOOLEAN] \cup {Tool!NoUser}, Tool!ChangeUser(new) PROVE Goal'
  BY <1>1, <1>10 DEF Tool!ChangeUser, Tool!TypeOK, Counting, Accounted, Tool!CountedOnce
<1> QED
  BY <1>4, <1>5, <1>6, <1>7, <1>8, <1>9, <1>10 DEF Tool!Next

(* Wherever roles change and whatever lookups, posts and writes get lost or *)
(* come late: a remembered role is one the key had within the time roles    *)
(* are remembered, and a call is counted once, or it is known why not.      *)
THEOREM CallsAreCounted == Tool!Spec => []CallsHold
<1>1. CallsInv /\ [Tool!Next]_Tool!vars => CallsInv'
  <2> SUFFICES ASSUME CallsInv, [Tool!Next]_Tool!vars PROVE CallsInv'
    OBVIOUS
  <2>1. CASE Tool!Next
    <3>1. (HeldNow /\ LookupInTime /\ CacheInTime /\ clock \in 0 .. MaxTime)'
      BY <2>1, RoleStep
    <3>2. (Tool!TypeOK /\ Counting /\ Tool!CountedOnce)'
      BY <2>1, CountStep
    <3>3. Tool!RoleIsRecent'
      <4> SUFFICES ASSUME Tool!Remembered' PROVE Tool!RoleIsRecent'
        BY DEF Tool!RoleIsRecent
      <4>0. cache' \in [role : Roles \cup {"guest"}, until : 0 .. MaxTime + Ttl] /\ Ttl \in Nat /\ MaxTime \in Nat
        BY <3>2, ServerAssumption DEF Tool!TypeOK
      <4>1. cache'.until \in Int /\ clock' \in Int /\ Ttl \in Int
        BY <3>1, <4>0
      <4>2. clock' < cache'.until
        BY DEF Tool!Remembered
      <4>3. PICK u \in (cache'.until - Ttl) .. clock' :
              <<u, cache'.role>> \in held' \/ (cache'.role = "guest" /\ u \in blind')
        BY <3>1, <4>2 DEF CacheInTime, KnownSince
      <4>4. u \in (clock' - Ttl + 1) .. clock'
        BY <4>1, <4>2, <4>3, WindowFacts
      <4> QED
        BY <4>3, <4>4 DEF Tool!RoleIsRecent
    <3> QED
      BY <3>1, <3>2, <3>3 DEF CallsInv, CallsHold
  <2>2. CASE UNCHANGED Tool!vars
    BY <2>2 DEF CallsInv, CallsHold, HeldNow, LookupInTime, CacheInTime, KnownSince, Counting, Accounted, Tool!vars,
                Tool!TypeOK, Tool!RoleNow, Tool!Valid, Tool!RoleIsRecent, Tool!Remembered, Tool!CountedOnce
  <2> QED
    BY <2>1, <2>2
<1>2. CallsInv => CallsHold
  BY DEF CallsInv
<1> QED
  BY CallsInit, <1>1, <1>2, PTL DEF Tool!Spec
=============================================================================
