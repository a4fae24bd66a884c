----------------------- MODULE HiveReplicationProofs -----------------------
(* Theorems about HiveReplication, for every hive, clock skew and bound. *)
EXTENDS HiveReplication, TLAPS

(* The constants the initial state is built from have their types. *)
LEMMA ConstantTypes ==
    /\ AnyId \in Ids
    /\ NoRow \in Row
    /\ NoTask \in Task
    /\ NoTombs \in [Ids -> Nat]
    /\ NoContents \in [Ids -> Saying]
BY ConstantsAssumption DEF AnyId, NoRow, Row, Saying, NoTask, Task, NoTombs, NoContents

(* The initial state has its type. *)
LEMMA InitTypeOK == Init => TypeOK
BY ConstantsAssumption, ConstantTypes DEF Init, TypeOK, Pull, Conflict, Message, Workers

(* The record of a pull, and a call in flight with the rows it names. *)
LEMMA PullType == ASSUME TypeOK, NEW d \in Devices PROVE pull[d] \in Pull
BY DEF TypeOK

LEMMA TaskType ==
    ASSUME TypeOK, NEW d \in Devices, NEW w \in Workers
    PROVE  /\ apply[d][w] \in Task
           /\ tomb[d][apply[d][w].id] \in Nat
           /\ mem[d][apply[d][w].id] \in Row
BY DEF TypeOK, Task

(* What one step of a pull makes of its record. *)
LEMMA PullEdits ==
    ASSUME NEW p \in Pull, NEW i \in Ids, NEW ids \in SUBSET Ids, NEW tombs \in [Ids -> Nat]
    PROVE  /\ [p EXCEPT !.todo = @ \ {i}] \in Pull
           /\ [p EXCEPT !.tombs[i] = 0] \in Pull
           /\ [p EXCEPT !.pc = "bury", !.dead = i] \in Pull
           /\ [p EXCEPT !.pc = "tombstones", !.tombs[i] = 0] \in Pull
           /\ [p EXCEPT !.pc = "tombstones"] \in Pull
           /\ [p EXCEPT !.pc = "idle"] \in Pull
           /\ [p EXCEPT !.pc = "diff", !.tombs = tombs] \in Pull
           /\ [p EXCEPT !.pc = "memories", !.rows = NoContents, !.todo = ids] \in Pull
<1>1. [p EXCEPT !.todo = @ \ {i}] \in Pull
    BY DEF Pull
<1>2. [p EXCEPT !.tombs[i] = 0] \in Pull
    BY DEF Pull
<1>3. [p EXCEPT !.pc = "bury", !.dead = i] \in Pull
    BY DEF Pull
<1>4. [p EXCEPT !.pc = "tombstones", !.tombs[i] = 0] \in Pull
    BY DEF Pull
<1>5. [p EXCEPT !.pc = "tombstones"] \in Pull
    BY DEF Pull
<1>6. [p EXCEPT !.pc = "idle"] \in Pull
    BY DEF Pull
<1>7. [p EXCEPT !.pc = "diff", !.tombs = tombs] \in Pull
    BY DEF Pull
<1>8. [p EXCEPT !.pc = "memories", !.rows = NoContents, !.todo = ids] \in Pull
    BY ConstantTypes DEF Pull
<1> QED BY <1>1, <1>2, <1>3, <1>4, <1>5, <1>6, <1>7, <1>8

(* Replacing one record keeps the whole function in its type. *)
LEMMA SetPullType ==
    ASSUME TypeOK, NEW d \in Devices, NEW p \in Pull, SetPull(d, p)
    PROVE  pull' \in [Devices -> Pull]
BY DEF TypeOK, SetPull

LEMMA SetTaskType ==
    ASSUME TypeOK, NEW d \in Devices, NEW w \in Workers, NEW t \in Task, SetTask(d, w, t)
    PROVE  apply' \in [Devices -> [Workers -> Task]]
BY DEF TypeOK, SetTask

(* A memory handed to apply_incoming_memory makes a call in flight. *)
LEMMA ReceivedType ==
    ASSUME NEW i \in Ids, NEW row \in Row PROVE Received(i, row) \in Task
BY ConstantTypes DEF Received, Task

(* Abandoning a pull keeps it one. *)
LEMMA AbandonPullType ==
    ASSUME TypeOK, NEW d \in Devices, AbandonPull(d)
    PROVE  pull' \in [Devices -> Pull]
<1> DEFINE p == [pull[d] EXCEPT !.pc = "idle", !.todo = {},
                                !.rows = NoContents, !.tombs = NoTombs]
<1>1. pull[d] \in Pull
    BY DEF TypeOK
<1>2. p \in Pull
    BY <1>1, ConstantTypes DEF Pull
<1>3. SetPull(d, p)
    BY DEF AbandonPull
<1> QED BY <1>2, <1>3, SetPullType

LEMMA ConflictAdded ==
    ASSUME NEW C \in [Devices -> SUBSET Conflict], NEW d \in Devices, NEW x \in Conflict
    PROVE  [C EXCEPT ![d] = @ \cup {x}] \in [Devices -> SUBSET Conflict]
OBVIOUS

(* Every action keeps the tables, the tasks and the messages in their types. *)
LEMMA NextTypeOK == TypeOK /\ [Next]_vars => TypeOK'
<1> SUFFICES ASSUME TypeOK, [Next]_vars PROVE TypeOK'
    OBVIOUS
<1> USE ConstantsAssumption, ConstantTypes DEF TypeOK
<1>1. ASSUME NEW d \in Devices, NEW i \in Ids, NEW c \in Contents, Store(d, i, c)
      PROVE  TypeOK'
    BY <1>1 DEF Store, LocalWrite, SetRow, SetTomb, Clock, Row, Saying
<1>2. ASSUME NEW d \in Devices, NEW i \in Ids, NEW c \in Contents, Update(d, i, c)
      PROVE  TypeOK'
    BY <1>2 DEF Update, LocalWrite, SetRow, Clock, Row, Saying
<1>23. ASSUME NEW d \in Devices, NEW i \in Ids, NEW c \in Contents, NEW read \in Contents, Retag(d, i, c, read)
      PROVE  TypeOK'
    BY <1>23 DEF Retag, LocalWrite, Clock, Row, Saying
<1>3. ASSUME NEW d \in Devices, NEW i \in Ids, Delete(d, i)
      PROVE  TypeOK'
    BY <1>3 DEF Delete, LocalWrite, SetRow, SetTomb, DropConflicts, Clock, NoRow, Saying
<1>4. ASSUME NEW d \in Devices, DeleteAll(d)
      PROVE  TypeOK'
    BY <1>4 DEF DeleteAll, LocalWrite, DropConflicts, Clock
<1>5. ASSUME NEW d \in Devices, NEW w \in Workers, CheckTombstone(d, w)
      PROVE  TypeOK'
  <2> DEFINE t == apply[d][w]
  <2>1. PICK n \in Task : SetTask(d, w, n)
    <3>1. [t EXCEPT !.pc = "row", !.tomb = tomb[d][t.id]] \in Task
        BY TaskType DEF Task
    <3> QED BY <1>5, <3>1 DEF CheckTombstone
  <2>2. apply' \in [Devices -> [Workers -> Task]]
      BY <2>1, SetTaskType
  <2> QED BY <1>5, <2>2 DEF CheckTombstone, bounds, tables
<1>6. ASSUME NEW d \in Devices, NEW w \in Workers, ReadRow(d, w)
      PROVE  TypeOK'
  <2> DEFINE t == apply[d][w]
             local == mem[d][t.id]
             verdict == Verdict(d, t.inc, local)
  <2>1. PICK n \in Task : SetTask(d, w, n)
    <3>1. t \in Task /\ local \in Row /\ Stamp(d, t.inc) \in Nat
        BY TaskType DEF Task, Row, Stamp, Clock
    <3>2. verdict \in {"idle", "store", "conflict"}
        BY DEF Verdict
    <3>3. [t EXCEPT !.pc = verdict, !.local = local, !.stamp = Stamp(d, t.inc)] \in Task
        BY <3>1, <3>2 DEF Task
    <3> QED BY <1>6, <3>3 DEF ReadRow
  <2>2. apply' \in [Devices -> [Workers -> Task]]
      BY <2>1, SetTaskType
  <2> QED BY <1>6, <2>2 DEF ReadRow, bounds, tables
<1>7. ASSUME NEW d \in Devices, NEW w \in Workers, StoreIncoming(d, w)
      PROVE  TypeOK'
  <2>1. apply' \in [Devices -> [Workers -> Task]]
      BY <1>7, SetTaskType DEF StoreIncoming
  <2>2. apply[d][w] \in Task
      OBVIOUS
  <2> QED BY <1>7, <2>1, <2>2 DEF StoreIncoming, SetRow, SetTomb, Task, Row, bounds
<1>8. ASSUME NEW d \in Devices, NEW w \in Workers, WriteConflict(d, w)
      PROVE  TypeOK'
  <2>1. apply' \in [Devices -> [Workers -> Task]]
      BY <1>8, SetTaskType DEF WriteConflict
  <2>2. pull' \in [Devices -> Pull]
      BY <1>8, AbandonPullType DEF WriteConflict
  <2> DEFINE t == apply[d][w]
             new == [id |-> t.id, theirs |-> t.inc.content, ours |-> t.local.content]
  <2>3. t.id \in Ids /\ t.inc.content \in Saying /\ t.local.content \in Saying
      BY TaskType DEF Task, Row
  <2>4. new \in Conflict
      BY <2>3 DEF Conflict
  <2>5. conflicts' \in [Devices -> SUBSET Conflict]
    <3>1. conflicts' = [conflicts EXCEPT ![d] = @ \cup {new}] \/ UNCHANGED conflicts
        BY <1>8 DEF WriteConflict
    <3> HIDE DEF new
    <3>2. conflicts \in [Devices -> SUBSET Conflict]
        OBVIOUS
    <3>3. [conflicts EXCEPT ![d] = @ \cup {new}] \in [Devices -> SUBSET Conflict]
        BY <2>4, <3>2, ConflictAdded
    <3> QED BY <3>1, <3>2, <3>3, Zenon
  <2> QED BY <1>8, <2>1, <2>2, <2>5 DEF WriteConflict, bounds
<1>9. ASSUME NEW d \in Devices, NEW p \in Peers(d), PullManifest(d, p)
      PROVE  TypeOK'
  <2> DEFINE peers == IF pull[d].peers = {} THEN Peers(d) ELSE pull[d].peers
             q == [pull[d] EXCEPT !.pc = "manifest", !.peers = peers \ {p}, !.peer = p,
                                  !.rows = hash[p]]
  <2>1. pull[d] \in Pull /\ p \in Devices
      BY DEF Peers
  <2>2. peers \in SUBSET Devices /\ hash[p] \in [Ids -> Saying]
      BY <2>1 DEF Peers, Pull
  <2>3. q \in Pull
      BY <2>1, <2>2 DEF Pull
  <2>4. pull' \in [Devices -> Pull]
      BY <1>9, <2>3, SetPullType DEF PullManifest
  <2> QED BY <1>9, <2>4 DEF PullManifest, bounds, tables
<1>10. ASSUME NEW d \in Devices, PullManifestTombstones(d)
       PROVE  TypeOK'
  <2>0. tomb[pull[d].peer] \in [Ids -> Nat]
      BY PullType DEF Pull
  <2>1. [pull[d] EXCEPT !.pc = "diff", !.tombs = tomb[pull[d].peer]] \in Pull
      BY <2>0, PullType, PullEdits
  <2>2. pull' \in [Devices -> Pull]
      BY <1>10, <2>1, SetPullType DEF PullManifestTombstones
  <2> QED BY <1>10, <2>2 DEF PullManifestTombstones, bounds, tables
<1>11. ASSUME NEW d \in Devices, PullDiff(d)
       PROVE  TypeOK'
  <2> DEFINE todo == {i \in Ids : /\ pull[d].rows[i] # NoContent
                                  /\ pull[d].rows[i] # hash[d][i]}
  <2>1. todo \in SUBSET Ids
      OBVIOUS
  <2> HIDE DEF todo
  <2>2. [pull[d] EXCEPT !.pc = "memories", !.rows = NoContents, !.todo = todo] \in Pull
      BY <2>1, PullType, PullEdits
  <2>3. pull' \in [Devices -> Pull]
      BY <1>11, <2>2, SetPullType DEF PullDiff, todo
  <2> QED BY <1>11, <2>3 DEF PullDiff, bounds, tables
<1>12. ASSUME NEW d \in Devices, NEW i \in Ids, PullFetch(d, i)
       PROVE  TypeOK'
  <2>1. [pull[d] EXCEPT !.todo = @ \ {i}] \in Pull
      BY PullType, PullEdits
  <2>2. pull' \in [Devices -> Pull]
      BY <1>12, <2>1, SetPullType DEF PullFetch
  <2>3. mem[pull[d].peer][i] \in Row
      BY DEF Pull
  <2>4. apply' \in [Devices -> [Workers -> Task]]
      BY <1>12, <2>3, ReceivedType, SetTaskType DEF PullFetch, Workers
  <2> QED BY <1>12, <2>2, <2>4 DEF PullFetch, bounds, tables
<1>13. ASSUME NEW d \in Devices, PullTombstones(d)
       PROVE  TypeOK'
  <2>1. [pull[d] EXCEPT !.pc = "tombstones"] \in Pull
      BY PullType, PullEdits
  <2>2. pull' \in [Devices -> Pull]
      BY <1>13, <2>1, SetPullType DEF PullTombstones
  <2> QED BY <1>13, <2>2 DEF PullTombstones, bounds, tables
<1>14. ASSUME NEW d \in Devices, NEW i \in Ids, PullTombstone(d, i)
       PROVE  TypeOK'
  <2>1. [pull[d] EXCEPT !.tombs[i] = 0] \in Pull
      BY PullType, PullEdits
  <2>2. [pull[d] EXCEPT !.pc = "bury", !.dead = i] \in Pull
      BY PullType, PullEdits
  <2>3. pull' \in [Devices -> Pull]
      BY <1>14, <2>1, <2>2, SetPullType DEF PullTombstone
  <2> QED BY <1>14, <2>3 DEF PullTombstone, bounds, tables
<1>15. ASSUME NEW d \in Devices, PullBury(d)
       PROVE  TypeOK'
  <2> DEFINE i == pull[d].dead
  <2>1. i \in Ids /\ pull[d].tombs[i] \in Nat
      BY DEF Pull
  <2>2. [pull[d] EXCEPT !.pc = "tombstones", !.tombs[i] = 0] \in Pull
      BY <2>1, PullType, PullEdits
  <2>3. pull' \in [Devices -> Pull]
      BY <1>15, <2>2, SetPullType DEF PullBury
  <2> QED BY <1>15, <2>1, <2>3 DEF PullBury, SetRow, SetTomb, DropConflicts, bounds, NoRow, Saying
<1>16. ASSUME NEW d \in Devices, PullDone(d)
       PROVE  TypeOK'
  <2>1. [pull[d] EXCEPT !.pc = "idle"] \in Pull
      BY PullType, PullEdits
  <2>2. pull' \in [Devices -> Pull]
      BY <1>16, <2>1, SetPullType DEF PullDone
  <2> QED BY <1>16, <2>2 DEF PullDone, bounds, tables
<1>17. ASSUME NEW d \in Devices, PullFails(d)
       PROVE  TypeOK'
  <2>1. pull' \in [Devices -> Pull]
      BY <1>17, AbandonPullType DEF PullFails
  <2> QED BY <1>17, <2>1 DEF PullFails, Fault, tables
<1>18. ASSUME NEW d \in Devices, NEW i \in Ids, PullSkips(d, i)
       PROVE  TypeOK'
  <2>1. [pull[d] EXCEPT !.todo = @ \ {i}] \in Pull
      BY PullType, PullEdits
  <2>2. pull' \in [Devices -> Pull]
      BY <1>18, <2>1, SetPullType DEF PullSkips
  <2> QED BY <1>18, <2>2 DEF PullSkips, Fault, tables
<1>19. ASSUME NEW d \in Devices, NEW i \in Ids, NEW to \in SUBSET (Online \ {d}), PushRead(d, i, to)
       PROVE  TypeOK'
    BY <1>19 DEF PushRead, Message, bounds, tables
<1>20. ASSUME NEW m \in net, PushDeliver(m)
       PROVE  TypeOK'
  <2>1. m.to \in Devices /\ m.id \in Ids /\ m.row \in Row
      BY DEF Message
  <2>2. apply' \in [Devices -> [Workers -> Task]]
      BY <1>20, <2>1, ReceivedType, SetTaskType DEF PushDeliver, Workers
  <2> QED BY <1>20, <2>2 DEF PushDeliver, bounds, tables
<1>21. CASE Tick
    BY <1>21 DEF Tick, tables
<1>22. CASE UNCHANGED vars
    BY <1>22 DEF vars
<1> QED
    BY <1>1, <1>2, <1>3, <1>4, <1>5, <1>6, <1>7, <1>8, <1>9, <1>10, <1>11, <1>12, <1>13,
       <1>14, <1>15, <1>16, <1>17, <1>18, <1>19, <1>20, <1>21, <1>22, <1>23
       DEF Next, UserStep, ApplyStep, PullStep, FaultStep, PushStep

(* The tables, the calls in flight and the messages always have their types. *)
THEOREM TypeCorrect == Spec => []TypeOK
BY InitTypeOK, NextTypeOK, PTL DEF Spec

-----------------------------------------------------------------------------
(* The invariant that makes LiveXorTombstone, NoWedgedRecord and           *)
(* UndisturbedApplyIsNewer inductive: what is on its way into a table      *)
(* already satisfies what is asked of the table.                           *)
RowOK(d, i) ==
    /\ Live(d, i) => mem[d][i].ts >= 1 /\ tomb[d][i] = 0
    /\ ~Live(d, i) => mem[d][i].ts = 0
    /\ Plausible(d, mem[d][i].ts)
    /\ Plausible(d, tomb[d][i])

TaskOK(d, w) ==
    LET t == apply[d][w] IN
    /\ t.pc # "idle" => t.inc.content # NoContent /\ t.inc.ts >= 1
    /\ t.pc \notin {"idle", "tombstone"} => t.inc.ts > t.tomb
    /\ t.pc = "store" => Plausible(d, t.stamp) /\ t.stamp > t.local.ts

PullOK(d) == pull[d].pc = "bury" => Plausible(d, pull[d].tombs[pull[d].dead])

MessageOK(m) == m.row.content # NoContent /\ m.row.ts >= 1

Inv ==
    /\ \A d \in Devices, i \in Ids : RowOK(d, i)
    /\ \A d \in Devices, w \in Workers : TaskOK(d, w)
    /\ \A d \in Devices : PullOK(d)
    /\ \A m \in net : MessageOK(m)

(* A device finds its own clock, and a missing time, plausible. *)
LEMMA ClockType == ASSUME TypeOK, NEW d \in Devices
    PROVE  Clock(d) \in Nat /\ Clock(d) >= 1 /\ Plausible(d, Clock(d)) /\ Plausible(d, 0)
BY ConstantsAssumption DEF TypeOK, Clock, Plausible

(* The empty stores satisfy the invariant. *)
LEMMA InitInv == Init => Inv
<1> SUFFICES ASSUME Init PROVE Inv
    OBVIOUS
<1>1. TypeOK
    BY InitTypeOK
<1> QED BY <1>1, ClockType, ConstantTypes
        DEF Init, Inv, RowOK, TaskOK, PullOK, MessageOK, Live, NoRow, NoTask, NoTombs

(* A step that leaves the clocks alone keeps every part it does not touch. *)
LEMMA SameTables ==
    ASSUME Inv, UNCHANGED <<time, mem, tomb>>, NEW d \in Devices, NEW i \in Ids
    PROVE  RowOK(d, i)'
BY DEF Inv, RowOK, Live, Plausible, Clock

LEMMA SameTask ==
    ASSUME Inv, UNCHANGED time, NEW d \in Devices, NEW w \in Workers, apply'[d][w] = apply[d][w]
    PROVE  TaskOK(d, w)'
BY DEF Inv, TaskOK, Plausible, Clock

LEMMA SamePull ==
    ASSUME Inv, UNCHANGED time, NEW d \in Devices, pull'[d] = pull[d] \/ pull'[d].pc # "bury"
    PROVE  PullOK(d)'
BY DEF Inv, PullOK, Plausible, Clock

(* A call that starts with a live row satisfies the invariant. *)
LEMMA ReceivedOK ==
    ASSUME NEW d \in Devices, NEW w \in Workers, NEW i, NEW row,
           row.content # NoContent, row.ts >= 1, apply'[d][w] = Received(i, row)
    PROVE  TaskOK(d, w)'
BY DEF TaskOK, Received, NoTask

(* Every action keeps the invariant. *)
LEMMA NextInv == TypeOK /\ Inv /\ [Next]_vars => Inv'
<1> SUFFICES ASSUME TypeOK, Inv, [Next]_vars PROVE Inv'
    OBVIOUS
<1> DEFINE rows == \A d \in Devices, i \in Ids : RowOK(d, i)
           tasks == \A d \in Devices, w \in Workers : TaskOK(d, w)
           pulls == \A d \in Devices : PullOK(d)
           messages == \A m \in net : MessageOK(m)
<1>0. rows /\ tasks /\ pulls /\ messages
    BY DEF Inv
<1>1. ASSUME NEW d \in Devices, UserStep(d)
      PROVE  Inv'
  <2>1. UNCHANGED <<time, pull, apply, net>>
      BY <1>1 DEF UserStep, Store, Update, Retag, Delete, DeleteAll, LocalWrite
  <2>2. tasks' /\ pulls' /\ messages'
      BY <1>0, <2>1, SameTask, SamePull DEF MessageOK
  <2>3. ASSUME NEW e \in Devices, NEW j \in Ids PROVE RowOK(e, j)'
    <3> USE <1>0, <2>1, ClockType DEF TypeOK, RowOK, Live, Plausible, SetRow, SetTomb
    <3>1. ASSUME NEW i \in Ids, NEW c \in Contents, Store(d, i, c) PROVE RowOK(e, j)'
        BY <3>1, ConstantsAssumption DEF Store, Clock
    <3>2. ASSUME NEW i \in Ids, NEW c \in Contents, Update(d, i, c) PROVE RowOK(e, j)'
        BY <3>2, ConstantsAssumption DEF Update, Clock
    <3>5. ASSUME NEW i \in Ids, NEW c \in Contents, NEW read \in Contents, Retag(d, i, c, read) PROVE RowOK(e, j)'
        BY <3>5, ConstantsAssumption DEF Retag, Clock
    <3>3. ASSUME NEW i \in Ids, Delete(d, i) PROVE RowOK(e, j)'
        BY <3>3, ConstantsAssumption DEF Delete, NoRow, Clock
    <3>4. CASE DeleteAll(d)
        BY <3>4, ConstantsAssumption DEF DeleteAll, NoRow, Clock
    <3> QED BY <1>1, <3>1, <3>2, <3>3, <3>4, <3>5 DEF UserStep
  <2> QED BY <2>2, <2>3 DEF Inv
<1>2. ASSUME NEW d \in Devices, NEW w \in Workers, ApplyStep(d, w)
      PROVE  Inv'
  <2> DEFINE t == apply[d][w]
  <2>0. t \in Task /\ TaskOK(d, w) /\ RowOK(d, t.id)
      BY <1>0, TaskType DEF Task
  <2>1. UNCHANGED <<time, net>>
      BY <1>2 DEF ApplyStep, CheckTombstone, ReadRow, StoreIncoming, WriteConflict, bounds
  <2>2. ASSUME NEW e \in Devices, NEW v \in Workers, e # d \/ v # w PROVE TaskOK(e, v)'
    <3>1. PICK n : SetTask(d, w, n)
        BY <1>2 DEF ApplyStep, CheckTombstone, ReadRow, StoreIncoming, WriteConflict
    <3>2. apply'[e][v] = apply[e][v]
        BY <2>2, <3>1 DEF SetTask, TypeOK
    <3> QED BY <2>1, <3>2, SameTask
  <2>3. ASSUME UNCHANGED <<mem, tomb>>, TaskOK(d, w)', pulls' PROVE Inv'
      BY <1>0, <2>1, <2>2, <2>3, SameTables DEF Inv, MessageOK
  <2>4. CASE CheckTombstone(d, w)
    <3>1. apply'[d][w] \in {NoTask, [t EXCEPT !.pc = "row", !.tomb = tomb[d][t.id]]}
        BY <2>4 DEF CheckTombstone, SetTask, TypeOK
    <3>2. apply'[d][w] # NoTask => tomb[d][t.id] = 0 \/ t.inc.ts > tomb[d][t.id]
        BY <2>0, <2>4 DEF CheckTombstone, SetTask, TypeOK, Task, Row
    <3>3. t.inc.content # NoContent /\ t.inc.ts >= 1
        BY <2>0, <2>4 DEF TaskOK, CheckTombstone
    <3>4. ASSUME apply'[d][w] # NoTask PROVE TaskOK(d, w)'
      <4> DEFINE next == [t EXCEPT !.pc = "row", !.tomb = tomb[d][t.id]]
      <4>1. next.pc = "row" /\ next.inc = t.inc /\ next.tomb = tomb[d][t.id]
          BY <2>0 DEF Task
      <4>2. apply'[d][w] = next
          BY <3>1, <3>4
      <4>3. next.inc.ts > next.tomb
          BY <2>0, <3>2, <3>3, <3>4, <4>1 DEF Task, Row
      <4> HIDE DEF next
      <4> QED BY <3>3, <4>1, <4>2, <4>3 DEF TaskOK
    <3>5. ASSUME apply'[d][w] = NoTask PROVE TaskOK(d, w)'
        BY <3>5 DEF TaskOK, NoTask
    <3>6. TaskOK(d, w)'
        BY <3>4, <3>5
    <3> QED BY <1>0, <2>3, <2>4, <3>6, SamePull, <2>1 DEF CheckTombstone, tables
  <2>5. CASE ReadRow(d, w)
    <3> DEFINE local == mem[d][t.id]
               verdict == Verdict(d, t.inc, local)
               next == [t EXCEPT !.pc = verdict, !.local = local, !.stamp = Stamp(d, t.inc)]
    <3>1. apply'[d][w] = IF verdict = "idle" THEN NoTask ELSE next
        BY <2>5 DEF ReadRow, SetTask, TypeOK
    <3>2. local \in Row /\ t.inc \in Row /\ Clock(d) \in Nat /\ Clock(d) >= 1
        BY <2>0, ClockType, TaskType DEF Task
    <3>3. t.inc.ts >= 1 /\ t.inc.content # NoContent /\ t.inc.ts > t.tomb
        BY <2>0, <2>5 DEF TaskOK, ReadRow
    <3>4. verdict = "store" => Plausible(d, Stamp(d, t.inc)) /\ Stamp(d, t.inc) > local.ts
        BY <2>0, <3>2, <3>3, ConstantsAssumption
           DEF Verdict, Stamp, Plausible, Row, RowOK, Live
    <3>5. TaskOK(d, w)'
      <4>1. CASE verdict = "idle"
          BY <3>1, <4>1 DEF TaskOK, NoTask
      <4>2. CASE verdict # "idle"
        <5>1. /\ next.pc = verdict /\ next.inc = t.inc /\ next.tomb = t.tomb
              /\ next.local = local /\ next.stamp = Stamp(d, t.inc)
            BY <2>0 DEF Task
        <5>2. apply'[d][w] = next
            BY <3>1, <4>2
        <5> HIDE DEF next, verdict, local
        <5> QED BY <2>1, <3>3, <3>4, <5>1, <5>2 DEF TaskOK, Plausible, Clock
      <4> QED BY <4>1, <4>2
    <3> QED BY <1>0, <2>3, <2>5, <3>5, SamePull, <2>1 DEF ReadRow, tables
  <2>6. CASE StoreIncoming(d, w)
    <3>1. apply'[d][w] = NoTask
        BY <2>6 DEF StoreIncoming, SetTask, TypeOK
    <3>2. TaskOK(d, w)' /\ pulls'
        BY <1>0, <2>1, <2>6, <3>1, SamePull DEF TaskOK, NoTask, StoreIncoming
    <3>3. t.id \in Ids /\ t.stamp \in Nat /\ t.stamp >= 1 /\ Plausible(d, t.stamp)
        BY <2>0, <2>6 DEF TaskOK, StoreIncoming, Task, Row
    <3>4. ASSUME NEW e \in Devices, NEW j \in Ids PROVE RowOK(e, j)'
        BY <1>0, <2>0, <2>1, <2>6, <3>3, ClockType
           DEF TypeOK, StoreIncoming, SetRow, SetTomb, RowOK, TaskOK, Live, Plausible, Clock
    <3> QED BY <1>0, <2>1, <2>2, <3>2, <3>4 DEF Inv, MessageOK
  <2>7. CASE WriteConflict(d, w)
    <3>1. apply'[d][w] = NoTask
        BY <2>7 DEF WriteConflict, SetTask, TypeOK
    <3>2. ASSUME NEW e \in Devices PROVE pull'[e] = pull[e] \/ pull'[e].pc # "bury"
      <4>1. CASE UNCHANGED pull
          BY <4>1
      <4>2. CASE AbandonPull(d)
        <5>1. pull \in [Devices -> Pull]
            BY DEF TypeOK
        <5> QED BY <4>2, <5>1 DEF AbandonPull, SetPull, Pull
      <4> QED BY <2>7, <4>1, <4>2 DEF WriteConflict
    <3>3. TaskOK(d, w)' /\ pulls'
        BY <2>1, <3>1, <3>2, SamePull DEF TaskOK, NoTask
    <3> QED BY <2>3, <2>7, <3>3 DEF WriteConflict
  <2> QED BY <1>2, <2>4, <2>5, <2>6, <2>7 DEF ApplyStep
<1>3. ASSUME NEW d \in Devices, PullStep(d) \/ FaultStep(d)
      PROVE  Inv'
  <2>1. UNCHANGED <<time, net>>
      BY <1>3 DEF PullStep, FaultStep, PullManifest, PullManifestTombstones, PullDiff, PullFetch,
         PullTombstones, PullTombstone, PullBury, PullDone, PullFails, PullSkips, Fault, bounds
  <2>2. PICK p : SetPull(d, p)
      BY <1>3 DEF PullStep, FaultStep, PullManifest, PullManifestTombstones, PullDiff, PullFetch,
         PullTombstones, PullTombstone, PullBury, PullDone, PullFails, PullSkips, AbandonPull
  <2>3. pull'[d] = p /\ \A e \in Devices : e # d => pull'[e] = pull[e]
      BY <2>2 DEF SetPull, TypeOK
  <2>4. ASSUME UNCHANGED <<mem, tomb, apply>>, pull'[d].pc # "bury" PROVE Inv'
      BY <1>0, <2>1, <2>3, <2>4, SameTables, SameTask, SamePull DEF Inv, MessageOK
  <2>a. pull \in [Devices -> Pull]
      BY DEF TypeOK
  <2> USE <2>a DEF SetPull, Pull
  <2>5. ASSUME NEW q \in Peers(d), PullManifest(d, q) PROVE Inv'
      BY <2>4, <2>5 DEF PullManifest, tables
  <2>6. CASE PullManifestTombstones(d)
      BY <2>4, <2>6 DEF PullManifestTombstones, tables
  <2>7. CASE PullDiff(d)
      BY <2>4, <2>7 DEF PullDiff, tables
  <2>8. CASE PullTombstones(d)
      BY <2>4, <2>8 DEF PullTombstones, tables
  <2>9. CASE PullDone(d)
      BY <2>4, <2>9 DEF PullDone, tables
  <2>10. CASE PullFails(d)
      BY <2>4, <2>10 DEF PullFails, AbandonPull, Fault, tables
  <2>11. ASSUME NEW i \in Ids, PullSkips(d, i) PROVE Inv'
      BY <2>4, <2>11 DEF PullSkips, Fetching, Fault, tables
  <2>12. ASSUME NEW i \in Ids, PullFetch(d, i) PROVE Inv'
    <3> DEFINE row == mem[pull[d].peer][i]
    <3>1. pull[d].peer \in Devices /\ row \in Row
        BY <1>0, PullType DEF TypeOK
    <3>2. RowOK(pull[d].peer, i)
        BY <1>0, <3>1
    <3>3. PullOK(d)' /\ UNCHANGED <<mem, tomb>>
        BY <1>0, <2>12, SamePull, <2>1 DEF PullFetch, Fetching, tables
    <3>4. pulls'
        BY <1>0, <2>1, <2>12, <3>3, SamePull DEF PullFetch
    <3>5. ASSUME NEW e \in Devices, NEW v \in Workers PROVE TaskOK(e, v)'
      <4>1. CASE apply'[e][v] = apply[e][v]
          BY <2>1, <4>1, SameTask
      <4>2. CASE apply'[e][v] # apply[e][v]
        <5>0. SetTask(d, "pull", Received(i, row)) /\ row.content # NoContent
            BY <2>12, <4>2 DEF PullFetch
        <5>1. apply'[e][v] = Received(i, row)
          <6> HIDE DEF row
          <6>1. apply \in [Devices -> [Workers -> Task]]
              BY DEF TypeOK
          <6> QED BY <4>2, <5>0, <6>1 DEF SetTask, Workers
        <5>2. row.ts >= 1
            BY <3>1, <3>2, <5>0 DEF RowOK, Live
        <5> HIDE DEF row
        <5> QED BY <5>0, <5>1, <5>2, ReceivedOK
      <4> QED BY <4>1, <4>2
    <3> QED BY <1>0, <2>1, <3>3, <3>4, <3>5, SameTables DEF Inv, MessageOK
  <2>13. ASSUME NEW i \in Ids, PullTombstone(d, i) PROVE Inv'
    <3>1. UNCHANGED <<mem, tomb, apply>>
        BY <2>13 DEF PullTombstone, tables
    <3>2. CASE pull'[d].pc # "bury"
        BY <2>4, <3>1, <3>2
    <3>3. CASE pull'[d].pc = "bury"
      <4>1. pull[d].tombs[i] \in Nat /\ Plausible(d, pull[d].tombs[i])
          BY <2>13, <3>3, PullType DEF PullTombstone
      <4>2. pull'[d] = [pull[d] EXCEPT !.pc = "bury", !.dead = i]
          BY <2>13, <3>3 DEF PullTombstone
      <4>3. PullOK(d)'
          BY <2>1, <4>1, <4>2 DEF PullOK, Plausible, Clock
      <4>4. pulls'
          BY <1>0, <2>1, <2>13, <4>3, SamePull DEF PullTombstone
      <4> QED BY <1>0, <2>1, <3>1, <4>4, SameTables, SameTask DEF Inv, MessageOK
    <3> QED BY <3>2, <3>3
  <2>14. CASE PullBury(d)
    <3> DEFINE i == pull[d].dead
               dead == pull[d].tombs[i]
    <3>1. i \in Ids /\ dead \in Nat /\ Plausible(d, dead)
        BY <1>0, <2>14, PullType DEF PullBury, PullOK
    <3>2. pulls' /\ tasks'
        BY <1>0, <2>1, <2>14, SamePull, SameTask DEF PullBury
    <3>3. ASSUME NEW e \in Devices, NEW j \in Ids PROVE RowOK(e, j)'
      <4>1. CASE e = d /\ j = i
        <5>1. mem'[e][j] = NoRow /\ tomb'[e][j] \in {dead, tomb[d][i]}
            BY <2>14, <3>1, <4>1 DEF PullBury, SetRow, SetTomb, TypeOK
        <5>2. Plausible(d, tomb[d][i]) /\ Plausible(d, 0)
            BY <1>0, <3>1, ClockType DEF RowOK
        <5> HIDE DEF i, dead
        <5> QED BY <2>1, <3>1, <4>1, <5>1, <5>2 DEF RowOK, Live, NoRow, Plausible, Clock
      <4>2. CASE ~(e = d /\ j = i)
        <5>1. mem'[e][j] = mem[e][j] /\ tomb'[e][j] = tomb[e][j]
            BY <2>14, <3>1, <4>2 DEF PullBury, SetRow, SetTomb, TypeOK
        <5> QED BY <1>0, <2>1, <5>1 DEF RowOK, Live, Plausible, Clock
      <4> QED BY <4>1, <4>2
    <3> QED BY <1>0, <2>1, <3>2, <3>3 DEF Inv, MessageOK
  <2> QED BY <1>3, <2>5, <2>6, <2>7, <2>8, <2>9, <2>10, <2>11, <2>12, <2>13, <2>14
          DEF PullStep, FaultStep
<1>4. ASSUME NEW d \in Devices, NEW i \in Ids, NEW to \in SUBSET (Online \ {d}), PushRead(d, i, to)
      PROVE  Inv'
  <2>1. UNCHANGED <<time, mem, tomb, pull, apply>>
      BY <1>4 DEF PushRead, bounds, tables
  <2>2. messages'
      BY <1>0, <1>4 DEF PushRead, RowOK, MessageOK, Live
  <2> QED BY <1>0, <2>1, <2>2, SameTables, SameTask, SamePull DEF Inv
<1>5. ASSUME NEW m \in net, PushDeliver(m)
      PROVE  Inv'
  <2>1. UNCHANGED <<time, mem, tomb, pull>> /\ net' \subseteq net
      BY <1>5 DEF PushDeliver, bounds, tables
  <2>2. m.id \in Ids /\ m.row \in Row /\ MessageOK(m)
      BY <1>0 DEF TypeOK, Message
  <2>3. ASSUME NEW e \in Devices, NEW v \in Workers PROVE TaskOK(e, v)'
    <3>1. apply'[e][v] = apply[e][v] \/ apply'[e][v] = Received(m.id, m.row)
        BY <1>5 DEF PushDeliver, SetTask, TypeOK, Workers
    <3> QED BY <2>1, <2>2, <3>1, SameTask, ReceivedOK DEF MessageOK
  <2> QED BY <1>0, <2>1, <2>3, SameTables, SamePull DEF Inv, MessageOK
<1>6. CASE Tick
  <2>1. ASSUME NEW d \in Devices, NEW ts \in Nat, Plausible(d, ts) PROVE Plausible(d, ts)'
      BY <1>6, <2>1, ConstantsAssumption DEF Tick, Plausible, Clock, TypeOK
  <2>2. rows'
      BY <1>0, <1>6, <2>1 DEF Tick, tables, RowOK, Live, TypeOK, Row
  <2>3. tasks'
      BY <1>0, <1>6, <2>1 DEF Tick, tables, TaskOK, TypeOK, Task
  <2>4. pulls'
      BY <1>0, <1>6, <2>1, PullType DEF Tick, PullOK, Pull
  <2> QED BY <1>0, <1>6, <2>2, <2>3, <2>4 DEF Inv, MessageOK, Tick
<1>7. CASE UNCHANGED vars
    BY <1>0, <1>7, SameTables, SameTask, SamePull DEF vars, Inv, MessageOK
<1> QED BY <1>1, <1>2, <1>3, <1>4, <1>5, <1>6, <1>7 DEF Next, PushStep

(* The invariant holds in every reachable state. *)
THEOREM Invariance == Spec => [](TypeOK /\ Inv)
<1>1. Init => TypeOK /\ Inv
    BY InitTypeOK, InitInv
<1>2. TypeOK /\ Inv /\ [Next]_vars => (TypeOK /\ Inv)'
    BY NextTypeOK, NextInv
<1> QED BY <1>1, <1>2, PTL DEF Spec

(* In every store, at every step, an id is not both alive and deleted. *)
THEOREM NeverLiveAndDeleted == Spec => []LiveXorTombstone
<1>1. Inv => LiveXorTombstone
    BY DEF Inv, RowOK, LiveXorTombstone
<1> QED BY <1>1, Invariance, PTL

(* Whatever clocks the peers have, no stored time is out of a local edit's reach. *)
THEOREM NeverWedged == Spec => []NoWedgedRecord
<1>1. Inv => NoWedgedRecord
    BY DEF Inv, RowOK, NoWedgedRecord
<1> QED BY <1>1, Invariance, PTL

(* An undisturbed call only ever replaces a row by a newer one. *)
THEOREM UndisturbedApplies == Spec => UndisturbedApplyIsNewer
<1> DEFINE A == \A d \in Devices, w \in Workers :
                  LET t == apply[d][w] IN
                  (/\ t.pc = "store" /\ apply'[d][w].pc = "idle"
                   /\ mem[d][t.id] = t.local /\ tomb[d][t.id] = t.tomb)
                  => /\ t.inc.ts > tomb[d][t.id]
                     /\ mem'[d][t.id].ts > mem[d][t.id].ts
<1>1. TypeOK /\ Inv /\ [Next]_vars => [A]_vars
  <2> SUFFICES ASSUME TypeOK, Inv, Next, NEW d \in Devices, NEW w \in Workers,
                      apply[d][w].pc = "store", apply'[d][w].pc = "idle",
                      mem[d][apply[d][w].id] = apply[d][w].local,
                      tomb[d][apply[d][w].id] = apply[d][w].tomb
               PROVE  /\ apply[d][w].inc.ts > tomb[d][apply[d][w].id]
                      /\ mem'[d][apply[d][w].id].ts > mem[d][apply[d][w].id].ts
      BY DEF vars
  <2>1. TaskOK(d, w)
      BY DEF Inv
  <2>2. StoreIncoming(d, w)
    <3>0. apply \in [Devices -> [Workers -> Task]] /\ apply'[d][w] # apply[d][w]
        BY DEF TypeOK
    <3>1. ASSUME UNCHANGED apply PROVE FALSE
        BY <3>0, <3>1
    <3>2. ASSUME NEW e \in Devices, NEW v \in Workers, NEW n, SetTask(e, v, n)
          PROVE  e = d /\ v = w
        BY <3>0, <3>2 DEF SetTask
    <3>3. ASSUME NEW e \in Devices, UserStep(e) PROVE FALSE
        BY <3>1, <3>3 DEF UserStep, Store, Update, Retag, Delete, DeleteAll, LocalWrite
    <3>4. ASSUME NEW e \in Devices, NEW v \in Workers, ApplyStep(e, v) PROVE StoreIncoming(d, w)
        BY <3>2, <3>4 DEF ApplyStep, CheckTombstone, ReadRow, StoreIncoming, WriteConflict
    <3>5. ASSUME NEW e \in Devices, PullStep(e) PROVE FALSE
        BY <3>1, <3>2, <3>5 DEF PullStep, PullManifest, PullManifestTombstones, PullDiff, PullFetch,
           PullTombstones, PullTombstone, PullBury, PullDone, Fetching, Workers
    <3>6. ASSUME NEW e \in Devices, FaultStep(e) PROVE FALSE
        BY <3>1, <3>6 DEF FaultStep, PullFails, PullSkips, Fault
    <3>7. ASSUME PushStep PROVE FALSE
        BY <3>1, <3>2, <3>7 DEF PushStep, PushRead, PushDeliver, TypeOK, Message, Workers
    <3>8. ASSUME Tick PROVE FALSE
        BY <3>1, <3>8 DEF Tick
    <3> QED BY <3>3, <3>4, <3>5, <3>6, <3>7, <3>8 DEF Next
  <2>3. mem'[d][apply[d][w].id].ts = apply[d][w].stamp
      BY <2>2, TaskType DEF StoreIncoming, SetRow, TypeOK, Task
  <2> QED BY <2>1, <2>3 DEF TaskOK
<1> QED BY <1>1, Invariance, PTL DEF Spec, UndisturbedApplyIsNewer

-----------------------------------------------------------------------------
(* What a conflict says, and what becomes of a deletion.                   *)

(* A call that is about to record a conflict has read a row that says      *)
(* something else than what has arrived.                                   *)
Differs(d, w) ==
    LET t == apply[d][w] IN
    t.pc = "conflict" => t.local.content # NoContent /\ t.local.content # t.inc.content

(* The user is never asked to choose for nothing: a pending conflict names *)
(* two different versions, and the memory is still there to be given one,  *)
(* although it is read, compared and recorded in three steps that writes,  *)
(* deletions and the device's other worker come between.                   *)
ConflictsAreReal ==
    \A d \in Devices : \A c \in conflicts[d] :
        c.theirs # c.ours /\ c.theirs # NoContent /\ c.ours # NoContent /\ Live(d, c.id)

RealInv == ConflictsAreReal /\ \A d \in Devices, w \in Workers : Differs(d, w)

LEMMA RealStep == TypeOK /\ Inv /\ RealInv /\ [Next]_vars => RealInv'
<1> SUFFICES ASSUME TypeOK, Inv, RealInv, [Next]_vars PROVE RealInv'
    OBVIOUS
<1> DEFINE differ == \A d \in Devices, w \in Workers : Differs(d, w)
<1>0. /\ mem \in [Devices -> [Ids -> Row]] /\ conflicts \in [Devices -> SUBSET Conflict]
      /\ apply \in [Devices -> [Workers -> Task]]
    BY DEF TypeOK
<1>1. ASSUME UNCHANGED <<mem, conflicts>> PROVE ConflictsAreReal'
    BY <1>1 DEF RealInv, ConflictsAreReal, Live
<1>2. ASSUME UNCHANGED apply PROVE differ'
    BY <1>2 DEF RealInv, Differs
<1>3. ASSUME NEW d \in Devices, NEW w \in Workers, NEW n, SetTask(d, w, n),
             n.pc = "conflict" => n.local.content # NoContent /\ n.local.content # n.inc.content
      PROVE  differ'
  <2>1. SUFFICES ASSUME NEW e \in Devices, NEW v \in Workers PROVE Differs(e, v)'
      OBVIOUS
  <2>2. apply'[e][v] = n \/ apply'[e][v] = apply[e][v]
      BY <1>0, <1>3 DEF SetTask
  <2> QED BY <1>3, <2>2 DEF RealInv, Differs
<1>4. \A i, row : Received(i, row).pc # "conflict"
    BY DEF Received, NoTask
<1>5. NoTask.pc # "conflict"
    BY DEF NoTask
\* Rows that go take their conflicts along, rows that come stay rows.
<1>6. ASSUME NEW d \in Devices, NEW gone \in SUBSET Ids, DropConflicts(d, gone),
             \A e \in Devices, j \in Ids : Live(e, j) /\ ~(e = d /\ j \in gone) => Live(e, j)'
      PROVE  ConflictsAreReal'
  <2> SUFFICES ASSUME NEW e \in Devices, NEW c \in conflicts'[e]
               PROVE  (c.theirs # c.ours /\ c.theirs # NoContent /\ c.ours # NoContent /\ Live(e, c.id))'
      BY DEF ConflictsAreReal
  <2>1. c \in conflicts[e] /\ ~(e = d /\ c.id \in gone)
      BY <1>0, <1>6 DEF DropConflicts
  <2>2. c.id \in Ids
      BY <1>0, <2>1 DEF Conflict
  <2> QED BY <1>6, <2>1, <2>2 DEF RealInv, ConflictsAreReal
<1>7. ASSUME NEW d \in Devices, NEW i \in Ids, NEW row, mem' = [mem EXCEPT ![d][i] = row],
             row.content # NoContent, UNCHANGED conflicts
      PROVE  ConflictsAreReal'
  <2>1. \A e \in Devices, j \in Ids : Live(e, j) => Live(e, j)'
      BY <1>0, <1>7 DEF Live
  <2>2. \A e \in Devices : \A c \in conflicts[e] : c.id \in Ids
      BY <1>0 DEF Conflict
  <2> QED BY <1>7, <2>1, <2>2 DEF RealInv, ConflictsAreReal
<1>8. ASSUME NEW d \in Devices, UserStep(d) PROVE RealInv'
  <2>1. differ'
      BY <1>2, <1>8 DEF UserStep, Store, Update, Retag, Delete, DeleteAll, LocalWrite
  <2>2. ASSUME NEW i \in Ids, NEW c \in Contents,
               Store(d, i, c) \/ Update(d, i, c) \/ \E read \in Contents : Retag(d, i, c, read)
        PROVE  ConflictsAreReal'
    <3>1. mem' = [mem EXCEPT ![d][i] = [content |-> c, ts |-> Clock(d)]] /\ UNCHANGED conflicts
        BY <2>2 DEF Store, Update, Retag, SetRow
    <3>2. [content |-> c, ts |-> Clock(d)].content # NoContent
        BY ConstantsAssumption
    <3> QED BY <1>7, <3>1, <3>2
  <2>3. ASSUME NEW i \in Ids, Delete(d, i) PROVE ConflictsAreReal'
    <3>1. SetRow(d, i, NoRow) /\ DropConflicts(d, {i})
        BY <2>3 DEF Delete
    <3>2. \A e \in Devices, j \in Ids : ~(e = d /\ j \in {i}) => mem'[e][j] = mem[e][j]
        BY <1>0, <3>1 DEF SetRow
    <3> QED BY <1>6, <3>1, <3>2 DEF Live
  <2>4. CASE DeleteAll(d)
    <3> DEFINE gone == {i \in Ids : Live(d, i)}
    <3>1. mem' = [mem EXCEPT ![d] = [i \in Ids |-> NoRow]] /\ DropConflicts(d, gone)
        BY <2>4 DEF DeleteAll
    <3>2. \A e \in Devices, j \in Ids : Live(e, j) /\ ~(e = d /\ j \in gone) => mem'[e][j] = mem[e][j]
        BY <1>0, <3>1
    <3> HIDE DEF gone
    <3>3. gone \in SUBSET Ids
        BY DEF gone
    <3>4. \A e \in Devices, j \in Ids : Live(e, j) /\ ~(e = d /\ j \in gone) => Live(e, j)'
        BY <3>2 DEF Live
    <3>5. ConflictsAreReal'
        BY <1>6, <3>1, <3>3, <3>4
    <3> QED BY <2>1, <3>5 DEF RealInv
  <2> QED BY <1>8, <2>1, <2>2, <2>3, <2>4 DEF UserStep, RealInv
<1>9. ASSUME NEW d \in Devices, NEW w \in Workers, ApplyStep(d, w) PROVE RealInv'
  <2> DEFINE t == apply[d][w]
  <2>0. t \in Task /\ TaskOK(d, w) /\ Differs(d, w)
      BY <1>0 DEF Inv, RealInv
  <2>1. CASE CheckTombstone(d, w)
    <3>1. PICK n : SetTask(d, w, n) /\ n.pc # "conflict"
      <4>1. [t EXCEPT !.pc = "row", !.tomb = tomb[d][t.id]].pc = "row"
          BY <2>0 DEF Task
      <4> QED BY <1>5, <2>1, <4>1 DEF CheckTombstone
    <3> QED BY <1>1, <1>3, <2>1, <3>1 DEF CheckTombstone, tables, RealInv
  <2>2. CASE ReadRow(d, w)
    <3> DEFINE local == mem[d][t.id]
               verdict == Verdict(d, t.inc, local)
               next == [t EXCEPT !.pc = verdict, !.local = local, !.stamp = Stamp(d, t.inc)]
    <3>1. SetTask(d, w, IF verdict = "idle" THEN NoTask ELSE next)
        BY <2>2 DEF ReadRow
    <3>2. next.pc = verdict /\ next.local = local /\ next.inc = t.inc
        BY <2>0 DEF Task
    <3>3. t.inc.content # NoContent
        BY <2>0, <2>2 DEF TaskOK, ReadRow
    <3>4. verdict = "conflict" => local.content # NoContent /\ local.content # t.inc.content
        BY <3>3 DEF Verdict
    <3> HIDE DEF next, verdict, local
    <3>5. differ'
        BY <1>3, <1>5, <3>1, <3>2, <3>4
    <3> QED BY <1>1, <2>2, <3>5 DEF ReadRow, tables, RealInv
  <2>3. CASE StoreIncoming(d, w)
    <3>1. /\ SetRow(d, t.id, [content |-> t.inc.content, ts |-> t.stamp])
          /\ SetTask(d, w, NoTask) /\ UNCHANGED conflicts
        BY <2>3 DEF StoreIncoming
    <3>2. t.id \in Ids /\ t.inc.content # NoContent
        BY <2>0, <2>3 DEF TaskOK, StoreIncoming, Task
    <3>3. differ'
        BY <1>3, <1>5, <3>1
    <3>4. mem' = [mem EXCEPT ![d][t.id] = [content |-> t.inc.content, ts |-> t.stamp]]
        BY <3>1 DEF SetRow
    <3>5. [content |-> t.inc.content, ts |-> t.stamp].content # NoContent
        BY <3>2
    <3>6. ConflictsAreReal'
        BY <1>7, <3>1, <3>2, <3>4, <3>5
    <3> QED BY <3>3, <3>6 DEF RealInv
  <2>4. CASE WriteConflict(d, w)
    <3> DEFINE new == [id |-> t.id, theirs |-> t.inc.content, ours |-> t.local.content]
    <3>1. SetTask(d, w, NoTask) /\ UNCHANGED mem
        BY <2>4 DEF WriteConflict
    <3>2. differ'
        BY <1>3, <1>5, <3>1
    <3>3. CASE UNCHANGED conflicts
        BY <1>1, <3>1, <3>2, <3>3 DEF RealInv
    <3>4. CASE Live(d, t.id) /\ conflicts' = [conflicts EXCEPT ![d] = @ \cup {new}]
      <4>1. t.inc.content # NoContent /\ t.local.content # NoContent /\ t.local.content # t.inc.content
          BY <2>0, <2>4 DEF TaskOK, Differs, WriteConflict
      <4>2. ASSUME NEW e \in Devices, NEW c \in conflicts'[e]
            PROVE  c \in conflicts[e] \/ (e = d /\ c = new)
          BY <1>0, <3>4, <4>2
      <4>3. new.id = t.id /\ new.theirs = t.inc.content /\ new.ours = t.local.content
          OBVIOUS
      <4> HIDE DEF new
      <4>4. ConflictsAreReal'
          BY <3>1, <3>4, <4>1, <4>2, <4>3 DEF RealInv, ConflictsAreReal, Live
      <4> QED BY <3>2, <4>4 DEF RealInv
    <3> QED BY <2>4, <3>3, <3>4 DEF WriteConflict
  <2> QED BY <1>9, <2>1, <2>2, <2>3, <2>4 DEF ApplyStep
<1>10. ASSUME NEW d \in Devices, PullStep(d) \/ FaultStep(d) PROVE RealInv'
  <2>1. ASSUME NEW i \in Ids, PullFetch(d, i) PROVE RealInv'
    <3>1. UNCHANGED <<mem, conflicts>>
        BY <2>1 DEF PullFetch, tables
    <3>2. UNCHANGED apply \/ SetTask(d, "pull", Received(i, mem[pull[d].peer][i]))
        BY <2>1 DEF PullFetch
    <3>3. differ'
        BY <1>2, <1>3, <1>4, <3>2 DEF Workers
    <3> QED BY <1>1, <3>1, <3>3 DEF RealInv
  <2>2. CASE PullBury(d)
    <3> DEFINE i == pull[d].dead
    <3>1. i \in Ids /\ SetRow(d, i, NoRow) /\ DropConflicts(d, {i}) /\ UNCHANGED apply
        BY <2>2, PullType DEF PullBury, Pull
    <3> HIDE DEF i
    <3>2. \A e \in Devices, j \in Ids : ~(e = d /\ j \in {i}) => mem'[e][j] = mem[e][j]
        BY <1>0, <3>1 DEF SetRow
    <3> QED BY <1>2, <1>6, <3>1, <3>2 DEF Live, RealInv
  <2>3. ASSUME UNCHANGED <<mem, conflicts, apply>> PROVE RealInv'
      BY <1>1, <1>2, <2>3 DEF RealInv
  <2> QED BY <1>10, <2>1, <2>2, <2>3
          DEF PullStep, FaultStep, PullManifest, PullManifestTombstones, PullDiff, PullTombstones,
              PullTombstone, PullDone, PullFails, PullSkips, Fault, tables
<1>11. ASSUME NEW m \in net, PushDeliver(m) PROVE RealInv'
  <2>1. m.to \in Devices /\ SetTask(m.to, "push", Received(m.id, m.row)) /\ UNCHANGED <<mem, conflicts>>
      BY <1>11 DEF PushDeliver, TypeOK, Message, tables
  <2>2. differ'
      BY <1>3, <1>4, <2>1 DEF Workers
  <2> QED BY <1>1, <2>1, <2>2 DEF RealInv
<1>12. ASSUME UNCHANGED <<mem, conflicts, apply>> PROVE RealInv'
    BY <1>1, <1>2, <1>12 DEF RealInv
<1> QED BY <1>8, <1>9, <1>10, <1>11, <1>12 DEF Next, PushStep, PushRead, Tick, vars, tables

THEOREM ConflictsHaveTwoSides == Spec => []ConflictsAreReal
<1>1. Init => RealInv
    BY DEF Init, RealInv, ConflictsAreReal, Differs, NoTask
<1>2. RealInv => ConflictsAreReal
    BY DEF RealInv
<1> QED BY <1>1, <1>2, Invariance, RealStep, PTL DEF Spec

(* A device forgets a deletion, or takes it for an earlier one, only for a *)
(* memory that takes its place: no repeated or older tombstone of a peer,  *)
(* and no second deletion by a clock that was set back, ever does it.      *)
DeletionsLast ==
    [][\A d \in Devices, i \in Ids : tomb'[d][i] >= tomb[d][i] \/ Live(d, i)']_vars

THEOREM DeletionsStay == Spec => DeletionsLast
<1> DEFINE Stays == \A d \in Devices, i \in Ids : tomb'[d][i] >= tomb[d][i] \/ Live(d, i)'
<1>1. TypeOK /\ Inv /\ [Next]_vars => [Stays]_vars
  <2> SUFFICES ASSUME TypeOK, Inv, Next, NEW e \in Devices, NEW j \in Ids
               PROVE  tomb'[e][j] >= tomb[e][j] \/ Live(e, j)'
      BY DEF vars
  <2>0. /\ mem \in [Devices -> [Ids -> Row]] /\ tomb \in [Devices -> [Ids -> Nat]]
        /\ tomb[e][j] \in Nat /\ RowOK(e, j)
      BY DEF TypeOK, Inv
  <2>1. ASSUME tomb'[e][j] = tomb[e][j] PROVE tomb'[e][j] >= tomb[e][j]
      BY <2>0, <2>1
  <2>2. ASSUME NEW d \in Devices, NEW i \in Ids, NEW c \in Saying, NEW ts, c # NoContent,
               SetRow(d, i, [content |-> c, ts |-> ts]), SetTomb(d, i, 0)
        PROVE  tomb'[e][j] = tomb[e][j] \/ Live(e, j)'
      BY <2>0, <2>2 DEF SetRow, SetTomb, Live
  <2>3. ASSUME NEW d \in Devices, UserStep(d) PROVE tomb'[e][j] >= tomb[e][j] \/ Live(e, j)'
    <3>1. Clock(d) \in Nat
        BY ClockType
    <3>2. ASSUME NEW i \in Ids, NEW c \in Contents, Store(d, i, c)
          PROVE  tomb'[e][j] >= tomb[e][j] \/ Live(e, j)'
      <4>1. SetRow(d, i, [content |-> c, ts |-> Clock(d)]) /\ SetTomb(d, i, 0)
          BY <3>2 DEF Store
      <4>2. c \in Saying /\ c # NoContent
          BY ConstantsAssumption DEF Saying
      <4> QED BY <2>1, <2>2, <4>1, <4>2
    <3>3. ASSUME NEW i \in Ids, NEW c \in Contents, Update(d, i, c) PROVE tomb'[e][j] = tomb[e][j]
        BY <3>3 DEF Update
    <3>6. ASSUME NEW i \in Ids, NEW c \in Contents, NEW read \in Contents, Retag(d, i, c, read)
          PROVE  tomb'[e][j] = tomb[e][j]
        BY <3>6 DEF Retag
    <3>4. ASSUME NEW i \in Ids, Delete(d, i) PROVE tomb'[e][j] >= tomb[e][j]
      <4>1. SetTomb(d, i, Clock(d)) /\ Live(d, i)
          BY <3>4 DEF Delete
      <4>2. CASE e = d /\ j = i
          BY <2>0, <3>1, <4>1, <4>2 DEF SetTomb, RowOK
      <4>3. CASE ~(e = d /\ j = i)
          BY <2>0, <2>1, <4>1, <4>3 DEF SetTomb
      <4> QED BY <4>2, <4>3
    <3>5. ASSUME DeleteAll(d) PROVE tomb'[e][j] >= tomb[e][j]
      <4>1. tomb'[e][j] = tomb[e][j] \/ (e = d /\ Live(d, j) /\ tomb'[e][j] = Clock(d))
          BY <2>0, <3>5 DEF DeleteAll
      <4> QED BY <2>0, <3>1, <4>1 DEF RowOK
    <3> QED BY <2>1, <2>3, <3>2, <3>3, <3>4, <3>5, <3>6 DEF UserStep
  <2>4. ASSUME NEW d \in Devices, NEW w \in Workers, StoreIncoming(d, w)
        PROVE  tomb'[e][j] >= tomb[e][j] \/ Live(e, j)'
    <3> DEFINE t == apply[d][w]
    <3>1. t \in Task /\ TaskOK(d, w) /\ t.pc = "store"
        BY <2>4 DEF TypeOK, Inv, StoreIncoming
    <3>2. t.id \in Ids /\ t.inc.content \in Saying /\ t.inc.content # NoContent
        BY <3>1 DEF Task, Row, TaskOK
    <3>3. SetRow(d, t.id, [content |-> t.inc.content, ts |-> t.stamp]) /\ SetTomb(d, t.id, 0)
        BY <2>4 DEF StoreIncoming
    <3> HIDE DEF t
    <3> QED BY <2>1, <2>2, <3>2, <3>3
  <2>5. ASSUME NEW d \in Devices, PullBury(d) PROVE tomb'[e][j] >= tomb[e][j]
    <3>1. PICK ts \in Nat : SetTomb(d, pull[d].dead, ts) /\ ts >= tomb[d][pull[d].dead] /\ pull[d].dead \in Ids
      <4>1. pull[d].dead \in Ids /\ pull[d].tombs[pull[d].dead] \in Nat /\ tomb[d][pull[d].dead] \in Nat
          BY <2>0, PullType DEF Pull
      <4> QED BY <2>5, <4>1 DEF PullBury
    <3> QED BY <2>0, <3>1 DEF SetTomb
  <2>6. ASSUME UNCHANGED tomb PROVE tomb'[e][j] >= tomb[e][j]
      BY <2>1, <2>6
  <2> QED BY <2>3, <2>4, <2>5, <2>6
          DEF Next, ApplyStep, CheckTombstone, ReadRow, WriteConflict, PullStep, FaultStep, PullManifest,
              PullManifestTombstones, PullDiff, PullFetch, PullTombstones, PullTombstone, PullDone,
              PullFails, PullSkips, Fault, PushStep, PushRead, PushDeliver, Tick, tables
<1> QED BY <1>1, Invariance, PTL DEF Spec, DeletionsLast

-----------------------------------------------------------------------------
(* At rest.                                                                *)

\* What p has of i, applied by d with nothing in between, leaves the tables
\* of d as they are.
Refuses(d, p, i) ==
    LET inc == mem[p][i]
        local == mem[d][i] IN
    \/ tomb[d][i] # 0 /\ inc.ts <= tomb[d][i]
    \/ Verdict(d, inc, local) = "idle"
    \/ /\ Verdict(d, inc, local) = "conflict"
       /\ [id |-> i, theirs |-> inc.content, ours |-> local.content] \in conflicts[d]
Keeps(d, p, i) ==
    \/ ~Plausible(d, tomb[p][i])
    \/ IF Live(d, i) THEN mem[d][i].ts >= tomb[p][i] ELSE tomb[d][i] >= tomb[p][i]
AtRest(d, p, i) ==
    /\ Live(p, i) => Refuses(d, p, i)
    /\ tomb[p][i] # 0 => Keeps(d, p, i)

\* A pull of d from p does so, which passes over what has the same hash.
Quiet(d, p, i) == SameHash(d, p, i) \/ AtRest(d, p, i)

\* A deletion that the clock of the device it has yet to reach does not believe.
TooEarly(d, e, i) ==
    \/ Live(d, i) /\ ~Plausible(d, tomb[e][i])
    \/ Live(e, i) /\ ~Plausible(e, tomb[d][i])

(* The safety half of EventuallyAgreeOrTie: there is no dead end. Whatever *)
(* has happened, two devices of which neither finds anything to take from  *)
(* the other say the same of a memory, or differ in one of the ways the    *)
(* property allows, or a clock that is behind has yet to believe one of    *)
(* them that it was deleted.                                               *)
RestIsAgreement ==
    \A d, e \in Devices, i \in Ids :
        Quiet(d, e, i) /\ Quiet(e, d, i) =>
            \/ Agree(d, e, i) \/ Surfaced(d, e, i) \/ DeleteTie(d, e, i)
            \/ SameHash(d, e, i) \/ TooEarly(d, e, i)

THEOREM RestAgrees == Spec => []RestIsAgreement
<1>1. TypeOK /\ Inv => RestIsAgreement
  <2> SUFFICES ASSUME TypeOK, Inv, NEW d \in Devices, NEW e \in Devices, NEW i \in Ids,
                      AtRest(d, e, i), AtRest(e, d, i),
                      ~Agree(d, e, i), ~DeleteTie(d, e, i), ~TooEarly(d, e, i)
               PROVE  Surfaced(d, e, i)
      BY DEF RestIsAgreement, Quiet, SameHash
  <2>1. /\ mem[d][i].ts \in Nat /\ mem[e][i].ts \in Nat /\ tomb[d][i] \in Nat /\ tomb[e][i] \in Nat
        /\ RowOK(d, i) /\ RowOK(e, i)
      BY DEF TypeOK, Inv, Row
  \* What one of them has and the other has not was not deleted by the other.
  <2>2. ASSUME NEW x \in Devices, NEW y \in Devices, Live(x, i), ~Live(y, i),
               AtRest(x, y, i), AtRest(y, x, i), RowOK(x, i), RowOK(y, i),
               mem[x][i].ts \in Nat, tomb[y][i] \in Nat,
               Plausible(x, tomb[y][i]), tomb[y][i] # mem[x][i].ts
        PROVE  FALSE
    <3>1. Verdict(y, mem[x][i], mem[y][i]) = "store"
        BY <2>2 DEF Verdict, Live
    <3>2. tomb[y][i] # 0 /\ mem[x][i].ts <= tomb[y][i]
        BY <2>2, <3>1 DEF AtRest, Refuses
    <3>3. mem[x][i].ts >= tomb[y][i]
        BY <2>2, <3>2 DEF AtRest, Keeps
    <3> QED BY <2>2, <3>2, <3>3
  <2>3. Live(d, i) /\ Live(e, i)
    <3>1. ~(Live(d, i) /\ ~Live(e, i))
        BY <2>1, <2>2 DEF DeleteTie, TooEarly
    <3>2. ~(Live(e, i) /\ ~Live(d, i))
        BY <2>1, <2>2 DEF DeleteTie, TooEarly
    <3>3. Live(d, i) \/ Live(e, i)
        BY DEF Agree, Live
    <3> QED BY <3>1, <3>2, <3>3
  <2>4. tomb[d][i] = 0 /\ tomb[e][i] = 0
      BY <2>1, <2>3 DEF RowOK
  <2>5. \/ Verdict(d, mem[e][i], mem[d][i]) = "conflict"
        \/ Verdict(e, mem[d][i], mem[e][i]) = "conflict"
    <3>1. Verdict(d, mem[e][i], mem[d][i]) = "idle" => mem[d][i].ts > mem[e][i].ts
        BY <2>1, <2>3 DEF Verdict, Live, Agree
    <3>2. Verdict(e, mem[d][i], mem[e][i]) = "idle" => mem[e][i].ts > mem[d][i].ts
        BY <2>1, <2>3 DEF Verdict, Live, Agree
    <3> QED BY <2>1, <2>3, <2>4, <3>1, <3>2 DEF AtRest, Refuses
  <2> QED BY <2>3, <2>4, <2>5 DEF AtRest, Refuses, Surfaced
<1> QED BY <1>1, Invariance, PTL

(* A call that is about to store was right to, for what it has read.       *)
Decided(d, w) ==
    LET t == apply[d][w] IN
    t.pc = "store" =>
        /\ t.inc.content # t.local.content
        /\ t.local.content # NoContent => Plausible(d, t.inc.ts) /\ t.inc.ts > t.local.ts

AllDecided == \A d \in Devices, w \in Workers : Decided(d, w)

LEMMA DecidedStep == TypeOK /\ Inv /\ AllDecided /\ [Next]_vars => AllDecided'
<1> SUFFICES ASSUME TypeOK, Inv, AllDecided, [Next]_vars,
                    NEW d \in Devices, NEW w \in Workers, apply'[d][w].pc = "store"
             PROVE  Decided(d, w)'
    BY DEF AllDecided, Decided
<1>0. /\ apply \in [Devices -> [Workers -> Task]] /\ mem[d][apply[d][w].id] \in Row
      /\ time \in Nat /\ Clock(d) \in Nat /\ Tolerance \in Nat
    BY ClockType, ConstantsAssumption DEF TypeOK, Task
<1>1. ASSUME apply'[d][w] = apply[d][w], UNCHANGED time \/ Tick PROVE Decided(d, w)'
  <2>1. ASSUME NEW ts \in Nat, Plausible(d, ts) PROVE Plausible(d, ts)'
      BY <1>0, <1>1, <2>1, ConstantsAssumption DEF Plausible, Clock, Tick
  <2>2. apply[d][w].inc.ts \in Nat
      BY <1>0 DEF Task, Row
  <2> QED BY <1>1, <2>1, <2>2 DEF AllDecided, Decided
<1>2. ASSUME NEW e \in Devices, NEW v \in Workers, NEW n, SetTask(e, v, n), UNCHANGED time,
             n.pc # "store" \/ (e = d /\ v = w => n = apply[d][w])
      PROVE  Decided(d, w)'
  <2>1. apply'[d][w] = IF e = d /\ v = w THEN n ELSE apply[d][w]
      BY <1>0, <1>2 DEF SetTask
  <2> QED BY <1>1, <1>2, <2>1
<1>3. \A i, row : Received(i, row).pc # "store" /\ NoTask.pc # "store"
    BY DEF Received, NoTask
<1>4. ASSUME NEW e \in Devices, NEW v \in Workers, CheckTombstone(e, v) PROVE Decided(d, w)'
  <2>1. [apply[e][v] EXCEPT !.pc = "row", !.tomb = tomb[e][apply[e][v].id]].pc = "row"
      BY <1>0 DEF Task
  <2> QED BY <1>2, <1>3, <1>4, <2>1 DEF CheckTombstone, bounds
<1>5. ASSUME NEW e \in Devices, NEW v \in Workers, ReadRow(e, v) PROVE Decided(d, w)'
  <2>1. CASE e = d /\ v = w
    <3> DEFINE t == apply[d][w]
               local == mem[d][t.id]
               verdict == Verdict(d, t.inc, local)
               next == [t EXCEPT !.pc = verdict, !.local = local, !.stamp = Stamp(d, t.inc)]
    <3>1. apply'[d][w] = IF verdict = "idle" THEN NoTask ELSE next
        BY <1>0, <1>5, <2>1 DEF ReadRow, SetTask
    <3>2. t \in Task
        BY <1>0
    <3>3. next.pc = verdict /\ next.local = local /\ next.inc = t.inc
        BY <3>2 DEF Task
    <3>4. UNCHANGED <<time>>
        BY <1>5 DEF ReadRow, bounds
    <3>5. verdict = "store" => /\ t.inc.content # local.content
                               /\ local.content # NoContent => Plausible(d, t.inc.ts) /\ t.inc.ts > local.ts
        BY DEF Verdict
    <3> HIDE DEF next, verdict, local, t
    <3> QED BY <1>3, <3>1, <3>3, <3>4, <3>5 DEF Decided, Plausible, Clock
  <2>2. CASE ~(e = d /\ v = w)
    <3>1. apply'[d][w] = apply[d][w]
        BY <1>0, <1>5, <2>2 DEF ReadRow, SetTask
    <3> QED BY <1>1, <1>5, <3>1 DEF ReadRow, bounds
  <2> QED BY <2>1, <2>2
<1>6. ASSUME NEW e \in Devices, NEW v \in Workers, StoreIncoming(e, v) \/ WriteConflict(e, v)
      PROVE  Decided(d, w)'
    BY <1>2, <1>3, <1>6 DEF StoreIncoming, WriteConflict, bounds
<1>7. ASSUME NEW e \in Devices, NEW i \in Ids, PullFetch(e, i) PROVE Decided(d, w)'
    BY <1>1, <1>2, <1>3, <1>7 DEF PullFetch, bounds, Workers
<1>8. ASSUME NEW m \in net, PushDeliver(m) PROVE Decided(d, w)'
    BY <1>2, <1>3, <1>8 DEF PushDeliver, bounds, Workers, TypeOK, Message
<1>9. ASSUME UNCHANGED apply, UNCHANGED time \/ Tick PROVE Decided(d, w)'
    BY <1>1, <1>9
<1>10. ASSUME NEW e \in Devices, UserStep(e) PROVE Decided(d, w)'
    BY <1>9, <1>10 DEF UserStep, Store, Update, Retag, Delete, DeleteAll, LocalWrite
<1>11. ASSUME NEW e \in Devices, PullStep(e) \/ FaultStep(e) PROVE Decided(d, w)'
    BY <1>7, <1>9, <1>11
       DEF PullStep, FaultStep, PullManifest, PullManifestTombstones, PullDiff, PullTombstones,
           PullTombstone, PullBury, PullDone, PullFails, PullSkips, Fault, bounds
<1>12. CASE UNCHANGED vars
    BY <1>9, <1>12 DEF vars
<1> QED BY <1>4, <1>5, <1>6, <1>8, <1>9, <1>10, <1>11, <1>12
        DEF Next, ApplyStep, PushStep, PushRead, Tick, bounds

(* At rest nothing stirs: a call that is about to store what the peer      *)
(* still has, over what it still has itself, does so because the two       *)
(* devices are not at rest. Pulls and pushes that go back and forth        *)
(* between devices that have nothing to tell each other change nothing.    *)
NobodyStirs ==
    \A d, p \in Devices, w \in Workers :
        LET t == apply[d][w] IN
        (/\ t.pc = "store" /\ t.inc = mem[p][t.id]
         /\ t.local = mem[d][t.id] /\ t.tomb = tomb[d][t.id]) => ~AtRest(d, p, t.id)

THEOREM RestLasts == Spec => []NobodyStirs
<1>1. Init => AllDecided
    BY DEF Init, AllDecided, Decided, NoTask
<1>2. TypeOK /\ Inv /\ AllDecided => NobodyStirs
  <2> SUFFICES ASSUME TypeOK, Inv, AllDecided, NEW d \in Devices, NEW p \in Devices, NEW w \in Workers,
                      NEW t, t = apply[d][w], t.pc = "store", t.inc = mem[p][t.id],
                      t.local = mem[d][t.id], t.tomb = tomb[d][t.id], AtRest(d, p, t.id)
               PROVE  FALSE
      BY DEF NobodyStirs
  <2>1. t \in Task /\ TaskOK(d, w) /\ Decided(d, w)
      BY DEF TypeOK, Inv, AllDecided
  <2>2. t.inc.content # NoContent /\ t.inc.ts > t.tomb /\ t.tomb \in Nat /\ t.inc.ts \in Nat /\ t.local.ts \in Nat
      BY <2>1 DEF TaskOK, Task, Row
  <2>3. Verdict(d, t.inc, t.local) = "store"
      BY <2>1, <2>2 DEF Decided, Verdict
  <2> QED BY <2>2, <2>3 DEF AtRest, Refuses, Live
<1> QED BY <1>1, <1>2, DecidedStep, Invariance, PTL DEF Spec
=============================================================================
