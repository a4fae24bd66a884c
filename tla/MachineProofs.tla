---------------------------- MODULE MachineProofs ----------------------------
(***************************************************************************)
(* Proofs about the parts of a machine, each for any values of its         *)
(* constants: the migrations of its database, the move of its data         *)
(* directory, the life of its servers, the pairing windows of its hive,    *)
(* the tag registries that its devices share and the tasks of one server   *)
(* that write its store.  Every part is proved by itself, and a behaviour  *)
(* of the machine is shown to be one of each.                              *)
(***************************************************************************)
EXTENDS MCMachine, SequenceTheorems, TLAPS

-----------------------------------------------------------------------------
(* The database's schema                                                   *)

SchemaSpec == SchemaInit /\ [][SchemaNext]_schemaVars

(* What is known of a process wherever it is: all migrations before its    *)
(* own are recorded; the statements of its own before the next one have    *)
(* been run; and it records only what has been run to the end.             *)
OpenerOK(o) ==
    /\ o.pc \in {"look", "run", "record"} => o.m \in Known /\ \A k \in 1..(o.m - 1) : k \in recorded
    /\ o.pc = "run" => o.s \in Batch(o.m) /\ \A k \in 1..(o.s - 1) : k \in ran[o.m]
    /\ o.pc = "record" /\ o.m # 1 => ran[o.m] = Batch(o.m)

(* The inductive invariant. *)
SchemaInv == SchemaTypeOK /\ RecordedHasRun /\ \A p \in Openers : OpenerOK(opener[p])

(* Migrations are numbered from 1, and none is empty. *)
LEMMA MigrationFacts ==
    /\ Len(Migrations) \in Nat \ {0} /\ Known = 1..Len(Migrations)
    /\ \A m \in Known : Migrations[m].size \in Nat \ {0}
<1>1. Len(Migrations) \in Nat \ {0} /\ Known = 1..Len(Migrations)
  BY MigrationsAssumption, LenProperties DEF Known
<1>2. ASSUME NEW m \in Known PROVE Migrations[m].size \in Nat \ {0}
  <2>1. Migrations[m] \in [size : Nat \ {0}, once : SUBSET Nat]
    BY <1>1, MigrationsAssumption, ElementOfSeq
  <2> QED
    BY <2>1
<1> QED
  BY <1>1, <1>2

(* Where a process may be. *)
Place == [pc : {"idle", "look", "run", "record", "open"}, m : Nat, s : Nat]

LEMMA SchemaInitInv == SchemaInit => SchemaInv
<1> SUFFICES ASSUME SchemaInit PROVE SchemaInv
  OBVIOUS
<1>1. PICK upto \in {0} \cup Known, tracked \in BOOLEAN :
        /\ ran = [m \in Known |-> IF m <= upto THEN Batch(m) ELSE {}]
        /\ recorded = IF tracked THEN 1..upto ELSE {}
  BY DEF SchemaInit
<1>2. upto \in Nat /\ recorded \subseteq 1..upto /\ recorded \subseteq Known
  BY <1>1, MigrationFacts
<1>3. ran \in [Known -> SUBSET Nat] /\ \A m \in Known : ran[m] \subseteq Batch(m)
  BY <1>1 DEF Batch
<1>4. SchemaTypeOK
  BY <1>2, <1>3, MigrationsAssumption DEF SchemaInit, SchemaTypeOK, NotOpen, At
<1>5. \A m \in recorded : ran[m] = Batch(m) /\ 1..m \subseteq recorded
  BY <1>1, <1>2, MigrationFacts
<1> QED
  BY <1>4, <1>5 DEF SchemaInit, SchemaInv, RecordedHasRun, OpenerOK, NotOpen, At

(* A step of p leaves the rest as it is when it records nothing and takes  *)
(* nothing back that has been run.                                         *)
LEMMA OpenerStep ==
    ASSUME SchemaInv, NEW p \in Openers, NEW o \in Place,
           opener' = [opener EXCEPT ![p] = o],
           SchemaTypeOK', recorded \subseteq recorded',
           \A m \in Known : ran[m] \subseteq ran'[m],
           OpenerOK(o)'
    PROVE  \A q \in Openers : OpenerOK(opener[q])'
<1> SUFFICES ASSUME NEW q \in Openers, q # p PROVE OpenerOK(opener[q])'
  BY DEF SchemaInv, SchemaTypeOK, Place
<1>1. opener'[q] = opener[q] /\ OpenerOK(opener[q])
  BY DEF SchemaInv, SchemaTypeOK
<1>2. opener[q].pc = "record" /\ opener[q].m # 1 => ran'[opener[q].m] = Batch(opener[q].m)
  <2> SUFFICES ASSUME opener[q].pc = "record", opener[q].m # 1
               PROVE  ran'[opener[q].m] = Batch(opener[q].m)
    OBVIOUS
  <2>1. opener[q].m \in Known /\ ran[opener[q].m] = Batch(opener[q].m)
    BY <1>1 DEF OpenerOK
  <2>2. ran'[opener[q].m] \subseteq Batch(opener[q].m)
    BY <2>1 DEF SchemaTypeOK, Batch, Known
  <2> QED
    BY <2>1, <2>2
<1> QED
  BY <1>1, <1>2 DEF OpenerOK, Batch

(* A step that only moves p. *)
LEMMA QuietStep ==
    ASSUME SchemaInv, NEW p \in Openers, NEW o \in Place,
           opener' = [opener EXCEPT ![p] = o], UNCHANGED <<ran, recorded, cuts>>,
           OpenerOK(o)', o.pc = "open" => recorded = Known
    PROVE  SchemaInv'
<1>1. SchemaTypeOK'
  BY DEF SchemaInv, SchemaTypeOK, Place, Batch, Known
<1>2. RecordedHasRun'
  BY DEF SchemaInv, SchemaTypeOK, RecordedHasRun, Batch, Known
<1> QED
  BY <1>1, <1>2, OpenerStep DEF SchemaInv

(* A process that gives up, or ends, changes nothing else. *)
LEMMA GivesUpStep ==
    ASSUME SchemaInv, NEW p \in Openers, GivesUp(p),
           ran' = ran, recorded' = recorded, cuts' \in 0..MaxCuts
    PROVE  SchemaInv'
<1>1. NotOpen \in Place /\ NotOpen.pc = "idle"
  BY DEF NotOpen, At, Place
<1>2. PICK o \in Place : o.pc = "idle" /\ opener' = [opener EXCEPT ![p] = o]
  BY <1>1 DEF GivesUp, Advances
<1>3. SchemaTypeOK'
  BY <1>2 DEF SchemaInv, SchemaTypeOK, Place, Batch, Known
<1>4. RecordedHasRun'
  BY <1>2 DEF SchemaInv, SchemaTypeOK, RecordedHasRun, Batch, Known
<1>5. OpenerOK(o)'
  BY <1>2 DEF OpenerOK
<1> QED
  BY <1>2, <1>3, <1>4, <1>5, OpenerStep DEF SchemaInv

(* What follows a migration is a place. *)
LEMMA NextIsPlace == \A m \in Known : NextOf(m) \in Place
  BY MigrationFacts DEF NextOf, At, Place

(* Once a migration and those before it are recorded, what follows is as   *)
(* it should be: the next one, or the end.                                 *)
LEMMA NextIsOK ==
    ASSUME NEW m \in Known, NEW o \in Place, o = NextOf(m),
           recorded' \subseteq Known, m \in recorded', \A k \in 1..(m - 1) : k \in recorded'
    PROVE  OpenerOK(o)' /\ (o.pc = "open" => recorded' = Known)
<1>1. CASE m = Len(Migrations)
  <2>1. o.pc = "open"
    BY <1>1 DEF NextOf, At
  <2>2. Known \subseteq recorded'
    BY <1>1, MigrationFacts
  <2> QED
    BY <2>1, <2>2 DEF OpenerOK
<1>2. CASE m # Len(Migrations)
  <2>1. o.pc = "look" /\ o.m = m + 1
    BY <1>2 DEF NextOf, At
  <2>2. m + 1 \in Known /\ \A k \in 1..m : k \in recorded'
    BY <1>2, MigrationFacts
  <2> QED
    BY <2>1, <2>2, MigrationFacts DEF OpenerOK, Known
<1> QED
  BY <1>1, <1>2

(* Every step preserves the invariant. *)
LEMMA SchemaNextInv == SchemaInv /\ [SchemaNext]_schemaVars => SchemaInv'
<1> SUFFICES ASSUME SchemaInv, [SchemaNext]_schemaVars PROVE SchemaInv'
  OBVIOUS
<1> USE MigrationFacts
<1>1. CASE UNCHANGED schemaVars
  BY <1>1 DEF schemaVars, SchemaInv, SchemaTypeOK, RecordedHasRun, OpenerOK
<1>2. ASSUME NEW p \in Openers, Open(p) PROVE SchemaInv'
  <2>1. At("look", 1, 0) \in Place
    BY DEF At, Place
  <2>2. PICK o \in Place : o = At("look", 1, 0) /\ opener' = [opener EXCEPT ![p] = o]
    BY <1>2, <2>1 DEF Open, Advances
  <2>3. UNCHANGED <<ran, recorded, cuts>>
    BY <1>2 DEF Open
  <2>4. OpenerOK(o)' /\ o.pc # "open"
    BY <2>2 DEF OpenerOK, At
  <2> QED
    BY <2>2, <2>3, <2>4, QuietStep
<1>3. ASSUME NEW p \in Openers, Look(p) PROVE SchemaInv'
  <2>1. opener[p] \in Place /\ opener[p].pc = "look" /\ OpenerOK(opener[p])
    BY <1>3 DEF Look, SchemaInv, SchemaTypeOK, Place
  <2>2. PICK m \in Known : m = opener[p].m /\ \A k \in 1..(m - 1) : k \in recorded
    BY <2>1 DEF OpenerOK
  <2>3. UNCHANGED <<ran, recorded, cuts>>
    BY <1>3 DEF Look
  <2>4. CASE m \in recorded
    <3>1. PICK o \in Place : o = NextOf(m) /\ opener' = [opener EXCEPT ![p] = o]
      BY <1>3, <2>2, <2>4, NextIsPlace DEF Look, Advances
    <3>2. OpenerOK(o)' /\ (o.pc = "open" => recorded = Known)
      BY <2>2, <2>3, <2>4, <3>1, NextIsOK DEF SchemaInv, SchemaTypeOK
    <3> QED
      BY <2>3, <3>1, <3>2, QuietStep
  <2>5. CASE m \notin recorded /\ m = 1 /\ 1 \in ran[m]
    <3>0. At("record", m, 0) \in Place
      BY MigrationFacts DEF At, Place
    <3>1. PICK o \in Place : o = At("record", m, 0) /\ opener' = [opener EXCEPT ![p] = o]
      BY <1>3, <2>2, <2>5, <3>0 DEF Look, Advances
    <3>2. OpenerOK(o)' /\ o.pc # "open"
      BY <2>2, <2>5, <3>1 DEF OpenerOK, At
    <3> QED
      BY <2>3, <3>1, <3>2, QuietStep
  <2>6. CASE m \notin recorded /\ ~(m = 1 /\ 1 \in ran[m])
    <3>0. At("run", m, 1) \in Place
      BY MigrationFacts DEF At, Place
    <3>1. PICK o \in Place : o = At("run", m, 1) /\ opener' = [opener EXCEPT ![p] = o]
      BY <1>3, <2>2, <2>6, <3>0 DEF Look, Advances
    <3>2. OpenerOK(o)' /\ o.pc # "open"
      BY <2>2, <2>3, <3>1 DEF OpenerOK, At, Batch
    <3> QED
      BY <2>3, <3>1, <3>2, QuietStep
  <2> QED
    BY <2>4, <2>5, <2>6
<1>4. ASSUME NEW p \in Openers, RunStatement(p) PROVE SchemaInv'
  <2>1. opener[p] \in Place /\ opener[p].pc = "run" /\ OpenerOK(opener[p])
    BY <1>4 DEF RunStatement, SchemaInv, SchemaTypeOK, Place
  <2>2. PICK m \in Known, s \in Nat :
          /\ m = opener[p].m /\ s = opener[p].s
          /\ \A k \in 1..(m - 1) : k \in recorded
          /\ s \in 1..Migrations[m].size /\ \A k \in 1..(s - 1) : k \in ran[m]
    BY <2>1 DEF OpenerOK, Place, Batch
  <2>3. recorded' = recorded /\ cuts' = cuts
    BY <1>4 DEF RunStatement
  <2>4. CASE s \in ran[m] /\ s \in Migrations[m].once
    BY <1>4, <2>2, <2>3, <2>4, GivesUpStep DEF RunStatement, SchemaInv, SchemaTypeOK
  <2>5. CASE ~(s \in ran[m] /\ s \in Migrations[m].once)
    <3> DEFINE o == IF s = Migrations[m].size THEN At("record", m, 0) ELSE At("run", m, s + 1)
    <3>1. o \in Place
      BY <2>2 DEF At, Place
    <3>2. opener' = [opener EXCEPT ![p] = o] /\ ran' = [ran EXCEPT ![m] = @ \cup {s}]
      BY <1>4, <2>2, <2>5 DEF RunStatement, Advances
    <3>3. ran' \in [Known -> SUBSET Nat] /\ ran'[m] = ran[m] \cup {s}
      BY <2>2, <3>2 DEF SchemaInv, SchemaTypeOK
    <3>4. \A k \in Known : ran[k] \subseteq ran'[k] /\ ran'[k] \subseteq Batch(k)
      BY <2>2, <3>2 DEF SchemaInv, SchemaTypeOK, Batch
    <3>5. PICK a \in Place : a = o
      BY <3>1
    <3>6. a.pc = "run" => a.m = m /\ a.s = s + 1 /\ s + 1 \in 1..Migrations[m].size
      BY <2>2, <3>5 DEF At
    <3>7. a.pc # "run" => a.m = m /\ s = Migrations[m].size /\ a.pc = "record"
      BY <2>2, <3>5 DEF At
    <3>8. a.pc # "run" => ran'[m] = Batch(m)
      BY <2>2, <3>3, <3>4, <3>7 DEF Batch
    <3>9. OpenerOK(a)'
      <4>1. a.m = m /\ \A k \in 1..(a.m - 1) : k \in recorded'
        BY <2>2, <2>3, <3>6, <3>7
      <4>2. a.pc = "run" => \A k \in 1..(a.s - 1) : k \in ran'[a.m]
        <5> SUFFICES ASSUME a.pc = "run", NEW k \in 1..s PROVE k \in ran'[m]
          BY <2>2, <3>6
        <5> QED
          BY <2>2, <3>3
      <4>3. a.pc = "record" /\ a.m # 1 => ran'[a.m] = Batch(a.m)
        BY <3>8, <4>1
      <4>4. a.pc = "run" => a.s \in 1..Migrations[m].size
        BY <3>6
      <4> QED
        BY <4>1, <4>2, <4>3, <4>4 DEF OpenerOK, Batch, Known
    <3>10. opener' = [opener EXCEPT ![p] = a]
      BY <3>2, <3>5
    <3> HIDE DEF o
    <3>11. SchemaTypeOK'
      BY <2>3, <3>3, <3>4, <3>10 DEF SchemaInv, SchemaTypeOK, Place, Batch, Known
    <3>12. RecordedHasRun'
      BY <2>3, <3>3, <3>4, <3>6, <3>7, <3>10 DEF SchemaInv, SchemaTypeOK, RecordedHasRun, Batch, Known
    <3> QED
      BY <2>3, <3>4, <3>9, <3>10, <3>11, <3>12, OpenerStep DEF SchemaInv
  <2> QED
    BY <2>4, <2>5
<1>5. ASSUME NEW p \in Openers, Record(p) PROVE SchemaInv'
  <2>1. opener[p] \in Place /\ opener[p].pc = "record" /\ OpenerOK(opener[p])
    BY <1>5 DEF Record, SchemaInv, SchemaTypeOK, Place
  <2>2. PICK m \in Known :
          /\ m = opener[p].m
          /\ \A k \in 1..(m - 1) : k \in recorded
          /\ m # 1 => ran[m] = Batch(m)
    BY <2>1 DEF OpenerOK
  <2>3. recorded' = recorded \cup {m} /\ UNCHANGED <<ran, cuts>>
    BY <1>5, <2>2 DEF Record
  <2>4. CASE m \in recorded
    <3>1. recorded' = recorded /\ GivesUp(p) /\ cuts' \in 0..MaxCuts
      BY <1>5, <2>2, <2>3, <2>4 DEF Record, SchemaInv, SchemaTypeOK
    <3> QED
      BY <2>3, <3>1, GivesUpStep
  <2>5. CASE m \notin recorded
    <3>1. PICK o \in Place : o = NextOf(m) /\ opener' = [opener EXCEPT ![p] = o]
      BY <1>5, <2>2, <2>5, NextIsPlace DEF Record, Advances
    <3>2. recorded' \subseteq Known
      BY <2>3 DEF SchemaInv, SchemaTypeOK
    <3>3. OpenerOK(o)' /\ (o.pc = "open" => recorded' = Known)
      BY <2>2, <2>3, <3>1, <3>2, NextIsOK
    <3>4. SchemaTypeOK'
      BY <2>3, <3>1, <3>2 DEF SchemaInv, SchemaTypeOK, Place, Batch, Known
    <3>5. RecordedHasRun'
      <4>1. \A k \in recorded' : (k # 1 => ran'[k] = Batch(k)) /\ 1..k \subseteq recorded'
        BY <2>2, <2>3 DEF SchemaInv, SchemaTypeOK, RecordedHasRun
      <4>2. \A q \in Openers : opener'[q].pc = "open" => recorded' = Known
        BY <2>3, <3>1, <3>2, <3>3 DEF SchemaInv, SchemaTypeOK, RecordedHasRun
      <4> QED
        BY <4>1, <4>2 DEF RecordedHasRun, Batch, Known
    <3> QED
      BY <2>3, <3>1, <3>3, <3>4, <3>5, OpenerStep DEF SchemaInv
  <2> QED
    BY <2>4, <2>5
<1>6. ASSUME NEW p \in Openers, Cut(p) PROVE SchemaInv'
  BY <1>6, GivesUpStep, MigrationsAssumption DEF Cut, SchemaInv, SchemaTypeOK
<1>7. ASSUME NEW p \in Openers, Close(p) PROVE SchemaInv'
  BY <1>7, GivesUpStep DEF Close, SchemaInv, SchemaTypeOK
<1> QED
  BY <1>1, <1>2, <1>3, <1>4, <1>5, <1>6, <1>7 DEF SchemaNext

(* The invariant holds in every reachable state. *)
THEOREM SchemaInvariance == SchemaSpec => []SchemaInv
  BY SchemaInitInv, SchemaNextInv, PTL DEF SchemaSpec

(* Every reachable state of the schema is well typed. *)
THEOREM SchemaTypeCorrect == SchemaSpec => []SchemaTypeOK
<1>1. SchemaInv => SchemaTypeOK
  BY DEF SchemaInv
<1> QED
  BY <1>1, SchemaInvariance, PTL

(* However many processes open the database and wherever they are cut      *)
(* short, a recorded migration has been run, so have those before it, and  *)
(* who has opened the database finds all of them recorded.                 *)
THEOREM RecordedMigrationsHaveRun == SchemaSpec => []RecordedHasRun
<1>1. SchemaInv => RecordedHasRun
  BY DEF SchemaInv
<1> QED
  BY <1>1, SchemaInvariance, PTL

-----------------------------------------------------------------------------
(* The move of the data directory                                          *)

MoveSpec == MoveInit /\ [][MoveNext]_moveVars

(* Whole in the new place; or there in part, where two have been moving.   *)
Safe(f) == f \in Held(new) \/ (met /\ f \in torn)
Copied(p) == {f \in Held(old) : f \notin list[p]}

(* Who removes the old files, or the single one, has copied them: they are *)
(* safe.  On the way there, what is no longer on the list is safe or being *)
(* written.                                                                *)
RemovesCopied ==
    \A p \in Movers :
      /\ mover[p] \in {"copy", "write"} => \A f \in Copied(p) : Safe(f) \/ f \in writing[p]
      /\ mover[p] = "remove" => \A f \in Held(old) : Safe(f)
      /\ mover[p] = "writeDb" => Safe(Db) \/ Db \in writing[p]
      /\ mover[p] = "unlink" => Safe(Db)
(* As long as no two have been moving, at most one is. *)
OneMoves == met \/ \A p, q \in Movers : mover[p] \in Moving /\ mover[q] \in Moving => p = q
(* Who is not between the ends of a copy writes nothing. *)
WritesInCopy == \A p \in Movers : writing[p] # {} => mover[p] \in Fills
(* What is there in part is being written, or was when a copy failed. *)
PartsExplained == \A f \in torn : faults > 0 \/ \E p \in Movers : f \in writing[p]
LostAreSafe == \A f \in Lost : Safe(f)

(* The inductive invariant. *)
MoveInv == MoveTypeOK /\ RemovesCopied /\ OneMoves /\ WritesInCopy /\ PartsExplained /\ LostAreSafe

(* What a directory holds is files, whether it is there or not. *)
LEMMA HeldFacts ==
    /\ Held(Gone) = {}
    /\ \A dir \in SUBSET Files : Held(dir) = dir /\ There(dir)
    /\ \A dir \in {Gone} \cup SUBSET Files : Held(dir) \in SUBSET Files
  BY FilesAssumption DEF Held, There

LEMMA MoveInitInv == MoveInit => MoveInv
<1> SUFFICES ASSUME MoveInit PROVE MoveInv
  OBVIOUS
<1>1. MoveTypeOK
  <2>1. old \in {Gone} \cup SUBSET Files /\ new \in {Gone} \cup SUBSET Files /\ found \subseteq Files
    BY FilesAssumption DEF MoveInit
  <2>2. single \in BOOLEAN /\ fresh \in BOOLEAN /\ split \in BOOLEAN /\ met \in BOOLEAN /\ torn \subseteq Files
    BY DEF MoveInit
  <2>3. mover \in [Movers -> MoverSteps] /\ faults \in 0..MaxFaults
    BY FilesAssumption DEF MoveInit, MoverSteps
  <2>4. list \in [Movers -> SUBSET Files] /\ writing \in [Movers -> SUBSET Files]
    BY DEF MoveInit
  <2> QED
    BY <2>1, <2>2, <2>3, <2>4 DEF MoveTypeOK
<1>2. Lost = {}
  BY HeldFacts DEF MoveInit, Lost, Single
<1>3. \A p \in Movers : mover[p] = "idle" /\ writing[p] = {}
  BY DEF MoveInit
<1>4. torn = {}
  BY DEF MoveInit
<1> QED
  BY <1>1, <1>2, <1>3, <1>4
     DEF MoveInv, RemovesCopied, OneMoves, WritesInCopy, PartsExplained, LostAreSafe, Moving, Fills

(* Where a process may go, two are moving only if it is said so. *)
LEMMA MovesFacts ==
    ASSUME MoveInv, NEW p \in Movers, NEW step \in MoverSteps, Moves(p, step)
    PROVE  /\ mover' \in [Movers -> MoverSteps] /\ met' \in BOOLEAN /\ (met => met')
           /\ mover'[p] = step /\ \A q \in Movers : q # p => mover'[q] = mover[q]
           /\ OneMoves'
<1>1. mover' \in [Movers -> MoverSteps] /\ mover'[p] = step /\ \A q \in Movers : q # p => mover'[q] = mover[q]
  BY DEF Moves, MoveInv, MoveTypeOK
<1>2. met' \in BOOLEAN /\ (met => met')
  BY DEF Moves, MoveInv, MoveTypeOK
<1>3. ASSUME ~met', NEW q \in Movers, NEW r \in Movers, mover'[q] \in Moving, mover'[r] \in Moving
      PROVE  q = r
  <2>1. \A a \in Movers : step \in Moving /\ a # p => mover[a] \notin Moving
    BY <1>3 DEF Moves
  <2>2. \A a, b \in Movers : mover[a] \in Moving /\ mover[b] \in Moving => a = b
    BY <1>2, <1>3 DEF MoveInv, OneMoves
  <2> QED
    BY <1>1, <1>3, <2>1, <2>2
<1> QED
  BY <1>1, <1>2, <1>3 DEF OneMoves

(* A step that neither empties a file nor takes a whole one away: what was *)
(* safe stays safe, and so do the other processes' claims.                 *)
LEMMA SteadyStep ==
    ASSUME MoveInv, NEW p \in Movers, MoveTypeOK', OneMoves', met => met', found' = found,
           \A q \in Movers : q # p => mover'[q] = mover[q] /\ list'[q] = list[q],
           \A q \in Movers : q # p => \A f \in writing[q] : f \in writing'[q] \/ f \in Held(new)',
           \A q \in Movers : q # p => writing'[q] \subseteq writing[q],
           Held(new) \subseteq Held(new)',
           torn \subseteq torn' \cup Held(new)',
           \A f \in Held(old)' : f \in Held(old),
           \A f \in Held(old) \cup Single : f \in (Held(old) \cup Single)' \/ Safe(f)',
           PartsExplained', writing'[p] # {} => mover'[p] \in Fills,
           mover'[p] \in {"copy", "write"} => \A f \in Copied(p)' : Safe(f)' \/ f \in writing'[p],
           mover'[p] = "remove" => \A f \in Held(old)' : Safe(f)',
           mover'[p] = "writeDb" => (Safe(Db) \/ Db \in writing[p])',
           mover'[p] = "unlink" => Safe(Db)'
    PROVE  MoveInv'
<1>1. \A f : Safe(f) => Safe(f)'
  BY DEF Safe
<1>2. LostAreSafe'
  <2> SUFFICES ASSUME NEW f \in Lost' PROVE Safe(f)'
    BY DEF LostAreSafe
  <2>1. CASE f \in Lost
    BY <1>1, <2>1 DEF MoveInv, LostAreSafe
  <2>2. CASE f \notin Lost
    BY <2>2 DEF Lost, Safe
  <2> QED
    BY <2>1, <2>2
<1>3. RemovesCopied'
  <2> SUFFICES ASSUME NEW q \in Movers, q # p
               PROVE  /\ mover'[q] \in {"copy", "write"} => \A f \in Copied(q)' : Safe(f)' \/ f \in writing'[q]
                      /\ mover'[q] = "remove" => \A f \in Held(old)' : Safe(f)'
                      /\ mover'[q] = "writeDb" => Safe(Db)' \/ Db \in writing'[q]
                      /\ mover'[q] = "unlink" => Safe(Db)'
    BY DEF RemovesCopied
  <2>1. mover'[q] = mover[q] /\ \A f \in writing[q] : f \in writing'[q] \/ Safe(f)'
    BY DEF Safe
  <2>2. \A f \in Copied(q)' : f \in Copied(q)
    BY DEF Copied
  <2> QED
    BY <1>1, <2>1, <2>2 DEF MoveInv, RemovesCopied
<1>4. WritesInCopy'
  <2> SUFFICES ASSUME NEW q \in Movers, q # p, writing'[q] # {} PROVE mover'[q] \in Fills
    BY DEF WritesInCopy
  <2> QED
    BY DEF MoveInv, WritesInCopy
<1> QED
  BY <1>2, <1>3, <1>4 DEF MoveInv

(* A step that leaves the files as they are, and gives up what p wrote or  *)
(* not. *)
LEMMA QuietMove ==
    ASSUME MoveInv, NEW p \in Movers, NEW step \in MoverSteps, Moves(p, step),
           Held(old)' = Held(old), old' \in {Gone} \cup SUBSET Files,
           Held(new)' = Held(new), new' \in {Gone} \cup SUBSET Files,
           UNCHANGED <<single, torn, split, found>>,
           fresh' \in BOOLEAN, faults' \in 0..MaxFaults, faults' >= faults,
           list' \in [Movers -> SUBSET Files], \A q \in Movers : q # p => list'[q] = list[q],
           \/ writing' = writing /\ (writing[p] # {} => step \in Fills)
           \/ writing' = [writing EXCEPT ![p] = {}] /\ faults' > 0,
           step \in {"copy", "write"} => \A f \in Held(old) : f \in list'[p] \/ Safe(f) \/ f \in writing'[p],
           step = "remove" => \A f \in Held(old) : Safe(f),
           step \notin {"writeDb", "unlink"}
    PROVE  MoveInv'
<1>1. /\ mover' \in [Movers -> MoverSteps] /\ met' \in BOOLEAN /\ (met => met')
      /\ mover'[p] = step /\ \A q \in Movers : q # p => mover'[q] = mover[q]
      /\ OneMoves'
  BY MovesFacts
<1>2. writing' \in [Movers -> SUBSET Files] /\ writing'[p] \in {{}, writing[p]}
      /\ \A q \in Movers : q # p => writing'[q] = writing[q]
  BY DEF MoveInv, MoveTypeOK
<1>3. MoveTypeOK'
  BY <1>1, <1>2 DEF MoveInv, MoveTypeOK
<1>4. \A f : Safe(f) => Safe(f)'
  BY <1>1 DEF Safe
<1>5. Single' = Single
  BY DEF Single
<1>6. PartsExplained'
  <2> SUFFICES ASSUME NEW f \in torn, ~(faults' > 0) PROVE \E q \in Movers : f \in writing'[q]
    BY DEF PartsExplained
  <2>1. writing' = writing /\ ~(faults > 0)
    BY DEF MoveInv, MoveTypeOK
  <2> QED
    BY <2>1 DEF MoveInv, PartsExplained
<1>7. writing'[p] # {} => mover'[p] \in Fills
  BY <1>1, <1>2 DEF MoveInv, MoveTypeOK
<1>8. mover'[p] \in {"copy", "write"} => \A f \in Copied(p)' : Safe(f)' \/ f \in writing'[p]
  BY <1>1, <1>4 DEF Copied
<1> QED
  BY <1>1, <1>2, <1>3, <1>4, <1>5, <1>6, <1>7, <1>8, SteadyStep

(* A file is emptied that is still in an old place: nothing is lost, since *)
(* the one that empties it is alone, or two have been moving.              *)
LEMMA EmptyStep ==
    ASSUME MoveInv, NEW p \in Movers, NEW f \in Files, NEW step \in Fills, Empties(p, f), Moves(p, step),
           mover[p] \in Moving \ Fills, UNCHANGED <<old, single, split, faults, found>>,
           f \in Held(old) \cup Single,
           list' \in [Movers -> SUBSET Files], \A q \in Movers : q # p => list'[q] = list[q],
           step = "write" => mover[p] = "copy" /\ list'[p] = list[p] \ {f},
           step = "writeDb" => f = Db
    PROVE  MoveInv'
<1> step \in MoverSteps
  BY DEF Moving, MoverSteps
<1>1. /\ mover' \in [Movers -> MoverSteps] /\ met' \in BOOLEAN /\ (met => met')
      /\ mover'[p] = step /\ \A q \in Movers : q # p => mover'[q] = mover[q]
      /\ OneMoves'
  BY MovesFacts
<1>2. new' \in SUBSET Files /\ torn' \in SUBSET Files /\ fresh' \in BOOLEAN
  BY HeldFacts DEF Empties, MoveInv, MoveTypeOK
<1>3. Held(new)' = Held(new) \ {f} /\ torn' = torn \cup {f}
  BY <1>2, HeldFacts DEF Empties, Held, There
<1>4. /\ writing' \in [Movers -> SUBSET Files] /\ writing'[p] = {f}
      /\ \A q \in Movers : q # p => writing'[q] = writing[q] \ {f}
  BY DEF Empties, MoveInv, MoveTypeOK
<1>5. MoveTypeOK'
  BY <1>1, <1>2, <1>4 DEF MoveInv, MoveTypeOK
<1>6. Held(old)' = Held(old) /\ Single' = Single
  BY DEF Held, There, Single
<1>7. \A g : Safe(g) => Safe(g)' \/ (g = f /\ ~met')
  BY <1>1, <1>3 DEF Safe
<1>8. met' => Safe(f)'
  BY <1>3 DEF Safe
<1>9. LostAreSafe'
  <2> SUFFICES ASSUME NEW g \in Lost' PROVE Safe(g)'
    BY DEF LostAreSafe
  <2>1. g # f
    BY <1>6 DEF Lost
  <2>2. g \in Lost
    BY <1>3, <1>6, <2>1 DEF Lost
  <2> QED
    BY <1>7, <2>1, <2>2 DEF MoveInv, LostAreSafe
<1>10. PartsExplained'
  <2> SUFFICES ASSUME NEW g \in torn', g # f PROVE faults > 0 \/ \E q \in Movers : g \in writing'[q]
    BY <1>4 DEF PartsExplained
  <2>1. g \in torn
    BY <1>3
  <2>2. writing[p] = {}
    BY DEF MoveInv, WritesInCopy
  <2> QED
    BY <1>4, <2>1, <2>2 DEF MoveInv, PartsExplained
<1>11. WritesInCopy'
  BY <1>1, <1>4 DEF MoveInv, WritesInCopy
<1>12. RemovesCopied'
  <2> SUFFICES ASSUME NEW q \in Movers
               PROVE  /\ mover'[q] \in {"copy", "write"} => \A g \in Copied(q)' : Safe(g)' \/ g \in writing'[q]
                      /\ mover'[q] = "remove" => \A g \in Held(old)' : Safe(g)'
                      /\ mover'[q] = "writeDb" => Safe(Db)' \/ Db \in writing'[q]
                      /\ mover'[q] = "unlink" => Safe(Db)'
    BY DEF RemovesCopied
  <2>1. CASE q = p
    <3>1. step = "write" => \A g \in Copied(p)' : Safe(g)' \/ g \in writing'[p]
      <4> SUFFICES ASSUME step = "write", NEW g \in Copied(p)', g # f PROVE Safe(g)' \/ g \in writing'[p]
        BY <1>4
      <4>1. g \in Copied(p) /\ mover[p] = "copy"
        BY <1>6 DEF Copied
      <4>2. writing[p] = {}
        BY <4>1 DEF MoveInv, WritesInCopy, Fills
      <4> QED
        BY <1>7, <4>1, <4>2 DEF MoveInv, RemovesCopied
    <3>2. step \notin {"copy", "remove", "unlink"}
      BY DEF Fills
    <3>3. mover'[p] = step
      BY <1>1
    <3> QED
      BY <1>4, <2>1, <3>1, <3>2, <3>3
  <2>2. CASE q # p /\ mover[q] \in Moving
    <3>1. met'
      BY <1>1, <2>2 DEF Moves, Moving
    <3>2. \A g : Safe(g) => Safe(g)'
      BY <1>7, <3>1
    <3>3. \A g : g \in writing[q] => g \in writing'[q] \/ Safe(g)'
      BY <1>4, <1>8, <2>2, <3>1
    <3>4. Copied(q)' = Copied(q) /\ mover'[q] = mover[q]
      BY <1>1, <1>6, <2>2 DEF Copied
    <3> QED
      BY <1>6, <3>2, <3>3, <3>4 DEF MoveInv, RemovesCopied
  <2>3. CASE q # p /\ mover[q] \notin Moving
    BY <1>1, <2>3 DEF Moving, Fills
  <2> QED
    BY <2>1, <2>2, <2>3
<1> QED
  BY <1>1, <1>5, <1>9, <1>10, <1>11, <1>12 DEF MoveInv

(* Every step preserves the invariant. *)
LEMMA MoveNextInv == MoveInv /\ [MoveNext]_moveVars => MoveInv'
<1> SUFFICES ASSUME MoveInv, [MoveNext]_moveVars PROVE MoveInv'
  OBVIOUS
<1> USE HeldFacts
<1>0. Moving \subseteq MoverSteps /\ Fills \subseteq MoverSteps /\ {"idle", "open"} \subseteq MoverSteps
  BY DEF Moving, MoverSteps
<1>1. CASE UNCHANGED moveVars
  <2>1. UNCHANGED <<old, single, new, torn, fresh, split, mover, list, writing, faults, found, met>>
    BY <1>1 DEF moveVars
  <2> QED
    BY <2>1 DEF MoveInv, MoveTypeOK, RemovesCopied, OneMoves, WritesInCopy, PartsExplained, LostAreSafe,
       Lost, Safe, Copied, Held, There, Single
<1>2. ASSUME NEW p \in Movers, Begin(p) PROVE MoveInv'
  <2>1. PICK step \in {"open", "rename", "file"} : Moves(p, step) /\ (new' = new \/ (new = Gone /\ new' = {}))
    BY <1>2 DEF Begin, There
  <2>2. step \in MoverSteps
    BY <1>0, <2>1 DEF Moving
  <2>3. UNCHANGED <<old, single, torn, fresh, split, list, writing, faults, found>> /\ mover[p] = "idle"
    BY <1>2 DEF Begin
  <2>4. Held(old)' = Held(old) /\ Held(new)' = Held(new)
    BY <2>1, <2>3 DEF Held, There
  <2>5. writing[p] = {}
    BY <2>3 DEF MoveInv, WritesInCopy, Fills
  <2> QED
    BY <2>1, <2>2, <2>3, <2>4, <2>5, QuietMove DEF MoveInv, MoveTypeOK
<1>3. ASSUME NEW p \in Movers, Rename(p) PROVE MoveInv'
  <2>0. writing[p] = {} /\ mover[p] = "rename"
    BY <1>3 DEF Rename, MoveInv, WritesInCopy, Fills
  <2>1. UNCHANGED <<single, torn, fresh, split, writing, faults, found>>
    BY <1>3 DEF Rename
  <2>2. CASE There(old) /\ Held(new) = {} /\ torn = {} /\ new' = old /\ old' = Gone /\ Moves(p, "open")
             /\ list' = list
    <3>1. Held(old)' = {} /\ Held(new)' = Held(old)
      BY <2>2 DEF Held, There
    <3>2. /\ mover' \in [Movers -> MoverSteps] /\ met' \in BOOLEAN /\ (met => met')
          /\ mover'[p] = "open" /\ \A q \in Movers : q # p => mover'[q] = mover[q]
          /\ OneMoves'
      BY <1>0, <2>2, MovesFacts
    <3>3. MoveTypeOK'
      BY <2>1, <2>2, <3>2 DEF MoveInv, MoveTypeOK
    <3>4. PartsExplained'
      BY <2>1, <2>2 DEF PartsExplained
    <3>5. \A f \in Held(old) \cup Single : f \in (Held(old) \cup Single)' \/ Safe(f)'
      BY <2>1, <3>1 DEF Safe, Single
    <3>6. Held(new) \subseteq Held(new)' /\ torn \subseteq torn' \cup Held(new)' /\ Held(old)' \subseteq Held(old)
      BY <2>2, <3>1
    <3> QED
      BY <2>0, <2>1, <2>2, <3>2, <3>3, <3>4, <3>5, <3>6, SteadyStep
  <2>3. CASE new' = Held(new) /\ old' = old /\ list' = [list EXCEPT ![p] = Held(old)]
             /\ Moves(p, IF There(old) THEN "copy" ELSE "open")
    <3>1. Held(old)' = Held(old) /\ Held(new)' = Held(new) /\ new' \in SUBSET Files /\ Held(old) \in SUBSET Files
      BY <2>3 DEF Held, There, MoveInv, MoveTypeOK
    <3>2. PICK step \in {"copy", "open"} : Moves(p, step)
      BY <2>3
    <3>3. step \in MoverSteps
      BY <1>0 DEF Moving
    <3>4. list' \in [Movers -> SUBSET Files] /\ list'[p] = Held(old) /\ \A q \in Movers : q # p => list'[q] = list[q]
      BY <2>3, <3>1 DEF MoveInv, MoveTypeOK
    <3> QED
      BY <2>0, <2>1, <2>3, <3>1, <3>2, <3>3, <3>4, QuietMove DEF MoveInv, MoveTypeOK
  <2> QED
    BY <1>3, <2>2, <2>3 DEF Rename
<1>4. ASSUME NEW p \in Movers, CopyNext(p) PROVE MoveInv'
  <2>0. mover[p] = "copy" /\ writing[p] = {}
    BY <1>4 DEF CopyNext, MoveInv, WritesInCopy, Fills
  <2>1. UNCHANGED <<old, single, split, faults, found>> /\ Held(old)' = Held(old)
    BY <1>4 DEF CopyNext, Held, There
  <2>2. ASSUME NEW f \in list[p] \cap Held(old), Empties(p, f), list' = [list EXCEPT ![p] = @ \ {f}],
               Moves(p, "write")
        PROVE  MoveInv'
    <3>1. list' \in [Movers -> SUBSET Files] /\ list'[p] = list[p] \ {f}
          /\ \A q \in Movers : q # p => list'[q] = list[q]
      BY <2>2 DEF MoveInv, MoveTypeOK
    <3>2. f \in Files /\ "write" \in Fills /\ mover[p] \in Moving \ Fills
      BY <2>0 DEF MoveInv, MoveTypeOK, Fills, Moving
    <3> QED
      BY <2>0, <2>1, <2>2, <3>1, <3>2, EmptyStep
  <2>3. ASSUME NEW f \in list[p] \ Held(old), list' = [list EXCEPT ![p] = @ \ {f}],
               NEW step \in {"copy", "open"}, Moves(p, step), UNCHANGED <<new, torn, fresh, writing>>
        PROVE  MoveInv'
    <3>1. list' \in [Movers -> SUBSET Files] /\ list'[p] = list[p] \ {f}
          /\ \A q \in Movers : q # p => list'[q] = list[q]
      BY <2>3 DEF MoveInv, MoveTypeOK
    <3>2. \A g \in Held(old) : g \in list[p] => g \in list'[p]
      BY <3>1
    <3>3. \A g \in Held(old) : g \in list'[p] \/ Safe(g) \/ g \in writing'[p]
      BY <2>0, <2>3, <3>2 DEF MoveInv, RemovesCopied, Copied
    <3>4. step \in MoverSteps /\ Held(new)' = Held(new)
      BY <1>0, <2>3 DEF Moving, Held, There
    <3> QED
      BY <2>0, <2>1, <2>3, <3>1, <3>3, <3>4, QuietMove DEF MoveInv, MoveTypeOK
  <2>4. CASE list[p] = {} /\ Moves(p, "remove") /\ UNCHANGED <<new, torn, fresh, list, writing>>
    <3>1. \A f \in Held(old) : Safe(f)
      BY <2>0, <2>4 DEF MoveInv, RemovesCopied, Copied
    <3>2. "remove" \in MoverSteps /\ Held(new)' = Held(new)
      BY <1>0, <2>4 DEF Moving, Held, There
    <3> QED
      BY <2>0, <2>1, <2>4, <3>1, <3>2, QuietMove DEF MoveInv, MoveTypeOK
  <2> QED
    BY <1>4, <2>2, <2>3, <2>4 DEF CopyNext
<1>5. ASSUME NEW p \in Movers, RemoveOne(p) PROVE MoveInv'
  <2>0. mover[p] = "remove" /\ writing[p] = {} /\ \A f \in Held(old) : Safe(f)
    BY <1>5 DEF RemoveOne, MoveInv, WritesInCopy, RemovesCopied, Fills
  <2>1. UNCHANGED <<single, new, torn, fresh, split, list, writing, faults, found>> /\ Held(new)' = Held(new)
    BY <1>5 DEF RemoveOne, Held, There
  <2>2. CASE \E f \in Held(old) : old' = old \ {f} /\ UNCHANGED <<mover, met>>
    <3>1. old' \in SUBSET Files /\ Held(old)' \subseteq Held(old)
      BY <2>2 DEF MoveInv, MoveTypeOK, Held, There
    <3>2. MoveTypeOK'
      BY <2>1, <2>2, <3>1 DEF MoveInv, MoveTypeOK
    <3>3. OneMoves' /\ PartsExplained'
      BY <2>1, <2>2 DEF MoveInv, OneMoves, PartsExplained
    <3>4. Single' = Single /\ \A f : Safe(f)' = Safe(f)
      BY <2>1, <2>2 DEF Single, Safe
    <3>5. \A f \in Held(old) \cup Single : f \in (Held(old) \cup Single)' \/ Safe(f)'
      BY <2>0, <3>4
    <3>6. mover'[p] = "remove" /\ \A f \in Held(old)' : Safe(f)'
      BY <2>0, <2>2, <3>1, <3>4
    <3> QED
      BY <2>0, <2>1, <2>2, <3>1, <3>2, <3>3, <3>5, <3>6, SteadyStep
  <2>3. CASE Held(old) = {} /\ old' = Gone /\ Moves(p, "open")
    <3>1. Held(old)' = Held(old)
      BY <2>3
    <3> QED
      BY <1>0, <2>0, <2>1, <2>3, <3>1, QuietMove DEF MoveInv, MoveTypeOK
  <2> QED
    BY <1>5, <2>2, <2>3 DEF RemoveOne
<1>6. ASSUME NEW p \in Movers, MoveFile(p) PROVE MoveInv'
  <2>0. mover[p] = "file" /\ writing[p] = {} /\ Db \in Files
    BY <1>6, FilesAssumption DEF MoveFile, MoveInv, WritesInCopy, Fills
  <2>1. UNCHANGED <<old, split, list, faults, found>> /\ Held(old)' = Held(old)
    BY <1>6 DEF MoveFile, Held, There
  <2>2. CASE Moves(p, "open") /\ UNCHANGED <<single, new, torn, fresh, writing>>
    <3>1. Held(new)' = Held(new)
      BY <2>2 DEF Held, There
    <3> QED
      BY <1>0, <2>0, <2>1, <2>2, <3>1, QuietMove DEF MoveInv, MoveTypeOK
  <2>3. CASE /\ Moves(p, "open") /\ new' = Held(new) \cup {Db} /\ torn' = torn \ {Db} /\ fresh' = FALSE
             /\ single' = FALSE /\ writing' = [q \in Movers |-> writing[q] \ {Db}]
    <3>1. new' \in SUBSET Files /\ Held(new)' = Held(new) \cup {Db}
      <4>1. Held(new) \in SUBSET Files
        BY DEF MoveInv, MoveTypeOK
      <4>2. new' \in SUBSET Files
        BY <2>0, <2>3, <4>1
      <4> QED
        BY <2>3, <4>2 DEF Held, There
    <3>2. /\ mover' \in [Movers -> MoverSteps] /\ met' \in BOOLEAN /\ (met => met')
          /\ mover'[p] = "open" /\ \A q \in Movers : q # p => mover'[q] = mover[q]
          /\ OneMoves'
      BY <1>0, <2>3, MovesFacts
    <3>3. writing' \in [Movers -> SUBSET Files] /\ \A q \in Movers : writing'[q] = writing[q] \ {Db}
      BY <2>3 DEF MoveInv, MoveTypeOK
    <3>4. MoveTypeOK'
      BY <2>1, <2>3, <3>1, <3>2, <3>3 DEF MoveInv, MoveTypeOK
    <3>5. PartsExplained'
      <4> SUFFICES ASSUME NEW f \in torn, f # Db PROVE faults > 0 \/ \E q \in Movers : f \in writing'[q]
        BY <2>1, <2>3 DEF PartsExplained
      <4> QED
        BY <3>3 DEF MoveInv, PartsExplained
    <3>6. \A f \in Held(old) \cup Single : f \in (Held(old) \cup Single)' \/ Safe(f)'
      BY <2>1, <3>1 DEF Single, Safe
    <3>7. \A q \in Movers : \A f \in writing[q] : f \in writing'[q] \/ f \in Held(new)'
      BY <3>1, <3>3
    <3>8. torn \subseteq torn' \cup Held(new)' /\ Held(new) \subseteq Held(new)'
      BY <2>3, <3>1
    <3> QED
      BY <2>0, <2>1, <3>2, <3>3, <3>4, <3>5, <3>6, <3>7, <3>8, SteadyStep
  <2>4. CASE single /\ Empties(p, Db) /\ Moves(p, "writeDb") /\ UNCHANGED single
    <3>1. "writeDb" \in Fills /\ mover[p] \in Moving \ Fills /\ Db \in Single
      BY <2>0, <2>4 DEF Fills, Moving, Single
    <3> QED
      BY <2>0, <2>1, <2>4, <3>1, EmptyStep DEF MoveInv, MoveTypeOK
  <2> QED
    BY <1>6, <2>2, <2>3, <2>4 DEF MoveFile
<1>7. ASSUME NEW p \in Movers, Unlink(p) PROVE MoveInv'
  <2>0. mover[p] = "unlink" /\ writing[p] = {} /\ Safe(Db)
    BY <1>7 DEF Unlink, MoveInv, WritesInCopy, RemovesCopied, Fills
  <2>1. UNCHANGED <<old, new, torn, fresh, split, list, writing, faults, found>> /\ single' = FALSE
        /\ Held(old)' = Held(old) /\ Held(new)' = Held(new)
    BY <1>7 DEF Unlink, Held, There
  <2>2. /\ mover' \in [Movers -> MoverSteps] /\ met' \in BOOLEAN /\ (met => met')
        /\ mover'[p] = "open" /\ \A q \in Movers : q # p => mover'[q] = mover[q]
        /\ OneMoves'
    BY <1>0, <1>7, MovesFacts DEF Unlink
  <2>3. MoveTypeOK' /\ PartsExplained'
    BY <2>1, <2>2 DEF MoveInv, MoveTypeOK, PartsExplained
  <2>4. \A f \in Held(old) \cup Single : f \in (Held(old) \cup Single)' \/ Safe(f)'
    BY <2>0, <2>1, <2>2 DEF Single, Safe
  <2> QED
    BY <2>0, <2>1, <2>2, <2>3, <2>4, SteadyStep
<1>8. ASSUME NEW p \in Movers, Fill(p) PROVE MoveInv'
  <2>1. UNCHANGED <<old, single, fresh, split, list, faults, found>> /\ mover[p] \in Fills /\ Held(old)' = Held(old)
    BY <1>8 DEF Fill, Held, There
  <2>2. /\ new' \in SUBSET Files /\ Held(new)' = Held(new) \cup writing[p] /\ torn' = torn \ writing[p]
    <3>1. Held(new) \in SUBSET Files /\ writing[p] \in SUBSET Files
      BY DEF MoveInv, MoveTypeOK
    <3>2. new' \in SUBSET Files
      BY <1>8, <3>1 DEF Fill
    <3> QED
      BY <1>8, <3>2 DEF Fill, Held, There
  <2>3. /\ writing' \in [Movers -> SUBSET Files] /\ writing'[p] = {}
        /\ \A q \in Movers : q # p => writing'[q] = writing[q]
    BY <1>8 DEF Fill, MoveInv, MoveTypeOK
  <2>4. PICK step \in {"copy", "unlink", "idle"} :
          /\ Moves(p, step)
          /\ mover[p] = "write" <=> step = "copy"
          /\ mover[p] = "writeDb" <=> step = "unlink"
    BY <1>8, <2>1 DEF Fill, Fills
  <2>5. /\ mover' \in [Movers -> MoverSteps] /\ met' \in BOOLEAN /\ (met => met')
        /\ mover'[p] = step /\ \A q \in Movers : q # p => mover'[q] = mover[q]
        /\ OneMoves'
    <3>1. step \in MoverSteps
      BY <1>0 DEF Moving
    <3> QED
      BY <2>4, <3>1, MovesFacts
  <2>6. MoveTypeOK'
    BY <2>1, <2>2, <2>3, <2>5 DEF MoveInv, MoveTypeOK
  <2>7. PartsExplained'
    <3> SUFFICES ASSUME NEW f \in torn, f \notin writing[p] PROVE faults > 0 \/ \E q \in Movers : f \in writing'[q]
      BY <2>1, <2>2 DEF PartsExplained
    <3> QED
      BY <2>3 DEF MoveInv, PartsExplained
  <2>8. /\ Held(new) \subseteq Held(new)' /\ torn \subseteq torn' \cup Held(new)' /\ Single' = Single
        /\ \A f : Safe(f) \/ f \in writing[p] => Safe(f)'
    BY <2>1, <2>2, <2>5 DEF Single, Safe
  <2>9. step = "copy" => \A f \in Copied(p)' : Safe(f)' \/ f \in writing'[p]
    BY <2>1, <2>4, <2>8 DEF MoveInv, RemovesCopied, Copied
  <2>10. step = "unlink" => Safe(Db)'
    BY <2>4, <2>8 DEF MoveInv, RemovesCopied
  <2>11. mover'[p] \notin {"write", "remove", "writeDb"} /\ mover'[p] = step
    BY <2>5
  <2> QED
    BY <2>1, <2>3, <2>5, <2>6, <2>7, <2>8, <2>9, <2>10, <2>11, SteadyStep
<1>9. ASSUME NEW p \in Movers, Use(p) \/ AskToCopy(p) PROVE MoveInv'
  <2>1. UNCHANGED <<old, single, torn, split, list, writing, faults, found>> /\ mover[p] = "open"
        /\ fresh' \in BOOLEAN /\ Held(old)' = Held(old)
    BY <1>9 DEF Use, AskToCopy, Held, There, MoveInv, MoveTypeOK
  <2>2. new' \in {Gone} \cup SUBSET Files /\ Held(new)' = Held(new)
    BY <1>9 DEF Use, AskToCopy, Held, There, MoveInv, MoveTypeOK
  <2>3. PICK step \in {"idle", "ask"} : Moves(p, step)
    BY <1>9 DEF Use, AskToCopy
  <2>4. step \in MoverSteps
    BY <1>0 DEF Moving
  <2>5. writing[p] = {}
    BY <2>1 DEF MoveInv, WritesInCopy, Fills
  <2> QED
    BY <2>1, <2>2, <2>3, <2>4, <2>5, QuietMove DEF MoveInv, MoveTypeOK
<1>10. ASSUME NEW p \in Movers, CopyByHand(p) PROVE MoveInv'
  <2>0. mover[p] = "ask" /\ writing[p] = {} /\ Db \in Files
    BY <1>10, FilesAssumption DEF CopyByHand, MoveInv, WritesInCopy, Fills
  <2>1. UNCHANGED <<old, single, split, list, faults, found>> /\ Held(old)' = Held(old)
    BY <1>10 DEF CopyByHand, Held, There
  <2>2. CASE single /\ Empties(p, Db) /\ Moves(p, "writeHand")
    <3>1. "writeHand" \in Fills /\ mover[p] \in Moving \ Fills /\ Db \in Single
      BY <2>0, <2>2 DEF Fills, Moving, Single
    <3> QED
      BY <2>0, <2>1, <2>2, <3>1, EmptyStep DEF MoveInv, MoveTypeOK
  <2>3. CASE Moves(p, "idle") /\ UNCHANGED <<new, torn, fresh, writing>>
    <3>1. Held(new)' = Held(new)
      BY <2>3 DEF Held, There
    <3> QED
      BY <1>0, <2>0, <2>1, <2>3, <3>1, QuietMove DEF MoveInv, MoveTypeOK
  <2> QED
    BY <1>10, <2>2, <2>3 DEF CopyByHand
<1>11. ASSUME NEW p \in Movers, CopyFails(p) \/ StopMover(p) PROVE MoveInv'
  <2>1. UNCHANGED <<old, single, new, torn, fresh, split, list, found>> /\ writing' = [writing EXCEPT ![p] = {}]
        /\ faults' = faults + 1 /\ faults < MaxFaults
    BY <1>11 DEF CopyFails, StopMover
  <2>2. faults' \in 0..MaxFaults /\ faults' >= faults /\ faults' > 0
    BY <2>1, FilesAssumption DEF MoveInv, MoveTypeOK
  <2>3. PICK step \in {"idle", "open"} : Moves(p, step)
    BY <1>11 DEF CopyFails, StopMover
  <2>4. step \in MoverSteps /\ Held(old)' = Held(old) /\ Held(new)' = Held(new)
    BY <1>0, <2>1 DEF Held, There
  <2> QED
    BY <2>1, <2>2, <2>3, <2>4, QuietMove DEF MoveInv, MoveTypeOK
<1> QED
  BY <1>1, <1>2, <1>3, <1>4, <1>5, <1>6, <1>7, <1>8, <1>9, <1>10, <1>11 DEF MoveNext

(* The invariant holds in every reachable state. *)
THEOREM MoveInvariance == MoveSpec => []MoveInv
  BY MoveInitInv, MoveNextInv, PTL DEF MoveSpec

(* Every reachable state of the move is well typed. *)
THEOREM MoveTypeCorrect == MoveSpec => []MoveTypeOK
<1>1. MoveInv => MoveTypeOK
  BY DEF MoveInv
<1> QED
  BY <1>1, MoveInvariance, PTL

(* Whichever copies fail and wherever processes are cut short, a process   *)
(* that moves by itself loses no file; and among however many that move    *)
(* them at once, a file is nowhere whole only while one of them fills it,  *)
(* or after one of them failed or was cut short.                           *)
THEOREM NoFileIsLost == MoveSpec => []NothingIsLost
<1>1. MoveInv => NothingIsLost
  <2> SUFFICES ASSUME MoveInv, NEW f \in Lost
               PROVE  met /\ f \in torn /\ (faults > 0 \/ \E p \in Movers : f \in writing[p])
    BY DEF NothingIsLost
  <2>1. met /\ f \in torn
    BY DEF MoveInv, LostAreSafe, Safe, Lost
  <2> QED
    BY <2>1 DEF MoveInv, PartsExplained
<1> QED
  BY <1>1, MoveInvariance, PTL

-----------------------------------------------------------------------------
(* The servers                                                             *)

LifeSpec == LifeInit /\ [][LifeNext]_lifeVars

(* What is recorded of a server, and of a save. *)
ServerRec == [pc : {"ended", "starting", "deciding", "binding", "bound", "serving",
                    "leaving", "handing", "draining"},
              sync : BOOLEAN, hive : BOOLEAN, stop : BOOLEAN, again : BOOLEAN,
              status : {"idle", "updating", "failed"}, error : BOOLEAN,
              checks : BOOLEAN, scripts : Nat, member : BOOLEAN]
SaveRec == [pc : {"idle", "open", "write", "rename"}, on : Procs \cup {None},
            text : Texts, fd : {"tmp", "file", "lost", "direct", "stale"}]
Listening == {"bound", "serving"}
Decided == {"binding", "bound", "serving", "leaving", "handing", "draining"}

(* A server, wherever it is: an install script runs exactly when its status *)
(* says so, and once it has decided it does not run both modes.             *)
ServerOK(r) ==
    /\ r.scripts = IF r.status = "updating" THEN 1 ELSE 0
    /\ r.pc \in Decided => ~(r.sync /\ r.hive)

(* Who listens has the port. *)
PortIsTheirs == \A p \in Procs : proc[p].pc \in Listening => port = p

(* The inductive invariant, for any number of saves at a time. *)
LifeInv == LifeTypeOK /\ (\A p \in Procs : ServerOK(proc[p])) /\ PortIsTheirs

LEMMA ServerTypes ==
    LifeTypeOK <=>
        /\ file \in Texts \cup {Mixed} /\ tmp \in Texts \cup {Mixed, None}
        /\ saver \in [Savers -> SaveRec] /\ crossed \in BOOLEAN
        /\ override \in BOOLEAN \cup {None} /\ method \in {"script", "cargo"}
        /\ port \in Procs \cup {None} /\ pidfile \in Procs \cup {None}
        /\ proc \in [Procs -> ServerRec]
        /\ killer \in [pc : {"idle", "look", "wait"}, pid : Procs \cup {None}]
        /\ unit \in [main : Procs \cup {None}, again : BOOLEAN]
        /\ ops \in 0..MaxOps /\ asked \subseteq {"user", "unit"}
  BY DEF LifeTypeOK, SaveRec, ServerRec

(* Servers that have ended or begin are as they should be. *)
LEMMA NewServers ==
    /\ Ended \in ServerRec /\ ServerOK(Ended) /\ Ended.pc = "ended"
    /\ \A member \in BOOLEAN :
         /\ Starting(member) \in ServerRec /\ ServerOK(Starting(member))
         /\ Starting(member).pc = "starting"
<1>1. Ended \in ServerRec /\ ServerOK(Ended) /\ Ended.pc = "ended"
  BY DEF Ended, ServerRec, ServerOK, Decided
<1>2. ASSUME NEW member \in BOOLEAN
      PROVE  /\ Starting(member) \in ServerRec /\ ServerOK(Starting(member))
             /\ Starting(member).pc = "starting"
  BY DEF Starting, Ended, ServerRec, ServerOK, Decided
<1> QED
  BY <1>1, <1>2

(* A pid that is given out was nobody's. *)
LEMMA NewPidIsFree == Unremembered # {} => NewPid \in Procs /\ proc[NewPid].pc = "ended"
  BY DEF Unremembered, NewPid, Alive

(* A signal stops a server or asks it to stop. *)
LEMMA SignalledFacts ==
    ASSUME LifeInv, NEW p \in Procs
    PROVE  /\ Signalled(p) \in ServerRec /\ ServerOK(Signalled(p))
           /\ Signalled(p).pc \in {proc[p].pc, "ended"}
<1>1. proc[p] \in ServerRec /\ ServerOK(proc[p])
  BY ServerTypes DEF LifeInv
<1>2. CASE Handles(p)
  <2> DEFINE r == [proc[p] EXCEPT !.stop = TRUE]
  <2>1. r \in ServerRec /\ r.pc = proc[p].pc /\ r.scripts = proc[p].scripts
        /\ r.status = proc[p].status /\ r.sync = proc[p].sync /\ r.hive = proc[p].hive
    BY <1>1 DEF ServerRec
  <2> HIDE DEF r
  <2>2. ServerOK(r)
    BY <1>1, <2>1 DEF ServerOK
  <2>3. Signalled(p) = r
    BY <1>2 DEF Signalled, r
  <2> QED
    BY <2>1, <2>2, <2>3
<1>3. CASE ~Handles(p)
  BY <1>3, NewServers DEF Signalled
<1> QED
  BY <1>2, <1>3

(* A step of one server, which may take or free the port for itself. *)
LEMMA ServerStep ==
    ASSUME LifeInv, NEW p \in Procs, NEW r \in ServerRec, ServerOK(r),
           proc' = [proc EXCEPT ![p] = r],
           r.pc \in Listening => port' = p,
           \A q \in Procs \ {p} : port = q => port' = q
    PROVE  /\ proc' \in [Procs -> ServerRec]
           /\ \A q \in Procs : ServerOK(proc'[q])
           /\ PortIsTheirs'
<1>1. proc \in [Procs -> ServerRec]
  BY ServerTypes DEF LifeInv
<1>2. ASSUME NEW q \in Procs PROVE proc'[q] = IF q = p THEN r ELSE proc[q]
  BY <1>1
<1> QED
  BY <1>1, <1>2 DEF LifeInv, PortIsTheirs

LEMMA LifeInitInv == LifeInit => LifeInv
<1> SUFFICES ASSUME LifeInit PROVE LifeInv
  OBVIOUS
<1>1. file \in Texts \cup {Mixed} /\ tmp \in Texts \cup {Mixed, None}
  BY DEF LifeInit
<1>2. saver \in [Savers -> SaveRec]
  BY DEF LifeInit, NoSave, SaveRec, Blank, Texts
<1>3. proc \in [Procs -> ServerRec] /\ \A p \in Procs : proc[p] = Ended
  BY NewServers DEF LifeInit
<1>4. LifeTypeOK
  <2>1. /\ crossed \in BOOLEAN /\ override \in BOOLEAN \cup {None} /\ method \in {"script", "cargo"}
        /\ port \in Procs \cup {None} /\ pidfile \in Procs \cup {None}
    BY DEF LifeInit
  <2>2. /\ killer \in [pc : {"idle", "look", "wait"}, pid : Procs \cup {None}]
        /\ unit \in [main : Procs \cup {None}, again : BOOLEAN]
        /\ ops \in 0..MaxOps /\ asked \subseteq {"user", "unit"}
    BY ProcsAssumption DEF LifeInit
  <2> QED
    BY <1>1, <1>2, <1>3, <2>1, <2>2, ServerTypes
<1> QED
  BY <1>3, <1>4, NewServers DEF LifeInv, PortIsTheirs, Listening

(* The types of all but the servers. *)
RestOK ==
    /\ file \in Texts \cup {Mixed} /\ tmp \in Texts \cup {Mixed, None}
    /\ saver \in [Savers -> SaveRec] /\ crossed \in BOOLEAN
    /\ override \in BOOLEAN \cup {None} /\ method \in {"script", "cargo"}
    /\ port \in Procs \cup {None} /\ pidfile \in Procs \cup {None}
    /\ killer \in [pc : {"idle", "look", "wait"}, pid : Procs \cup {None}]
    /\ unit \in [main : Procs \cup {None}, again : BOOLEAN]
    /\ ops \in 0..MaxOps /\ asked \subseteq {"user", "unit"}

LEMMA LifeParts ==
    /\ LifeInv => RestOK /\ proc \in [Procs -> ServerRec]
    /\ (/\ RestOK' /\ proc' \in [Procs -> ServerRec]
        /\ \A p \in Procs : ServerOK(proc'[p])
        /\ PortIsTheirs') => LifeInv'
<1>1. LifeInv => RestOK /\ proc \in [Procs -> ServerRec]
  BY ServerTypes DEF LifeInv, RestOK
<1>2. RestOK' /\ proc' \in [Procs -> ServerRec] => LifeTypeOK'
  BY DEF LifeTypeOK, RestOK, SaveRec, ServerRec
<1> QED
  BY <1>1, <1>2 DEF LifeInv

(* What the pieces of the steps leave: a count, the port, the saves. *)
LEMMA CountsOK == RestOK /\ Counts => ops' \in 0..MaxOps
  BY ProcsAssumption DEF RestOK, Counts

LEMMA FreesOK ==
    ASSUME RestOK, NEW p \in Procs, Frees(p)
    PROVE  port' \in Procs \cup {None} /\ \A q \in Procs \ {p} : port = q => port' = q
  BY DEF RestOK, Frees

LEMMA ForgetsOK ==
    ASSUME RestOK, NEW p \in Procs, Forgets(p)
    PROVE  saver' \in [Savers -> SaveRec]
  BY DEF RestOK, Forgets, NoSave, SaveRec, Blank, Texts

LEMMA FailsOK ==
    ASSUME RestOK, NEW p \in Procs, Fails(p)
    PROVE  unit' \in [main : Procs \cup {None}, again : BOOLEAN] /\ proc' = [proc EXCEPT ![p] = Ended]
  BY DEF RestOK, Fails, Becomes

(* A step that leaves the servers and the port alone. *)
LEMMA QuietLifeStep == LifeInv /\ RestOK' /\ UNCHANGED <<proc, port>> => LifeInv'
  BY LifeParts DEF LifeInv, PortIsTheirs

(* A step of one server, with what else it changes. *)
LEMMA OneServerStep ==
    ASSUME LifeInv, RestOK', NEW p \in Procs, NEW r \in ServerRec, ServerOK(r),
           proc' = [proc EXCEPT ![p] = r],
           r.pc \in Listening => port' = p,
           \A q \in Procs \ {p} : port = q => port' = q
    PROVE  LifeInv'
  BY ServerStep, LifeParts

(* What is done to a configuration gives one. *)
LEMMA PatchedIsText == \A text \in Texts, patch \in Patches : Patch(text, patch) \in Texts
  BY DEF Texts, Patches, Patch

(* The steps of saves and logins. *)
SaveStep(w) ==
    \/ MatrixLogin(w) \/ DiscordLogin(w) \/ OpenTmp(w) \/ WriteTmp(w) \/ RenameTmp(w)
    \/ EmptyFile(w) \/ WriteFile(w) \/ \E p \in Procs, patch \in Patches : Save(w, p, patch)

LEMMA SaveStepInv ==
    ASSUME LifeInv, NEW w \in Savers, SaveStep(w)
    PROVE  LifeInv'
<1> USE DEF RestOK, SaveRec
<1>0. RestOK
  BY LifeParts
<1>1. ASSUME NEW fd \in {"tmp", "direct"}, Login(w, fd) PROVE LifeInv'
  BY <1>0, <1>1, CountsOK, QuietLifeStep DEF Login
<1>2. ASSUME NEW p \in Procs, NEW patch \in Patches, Save(w, p, patch) PROVE LifeInv'
  <2>1. Patch(file, patch) \in Texts
    BY <1>0, <1>2, PatchedIsText DEF Save
  <2> QED
    BY <1>0, <1>2, <2>1, CountsOK, QuietLifeStep DEF Save
<1>3. CASE OpenTmp(w)
  BY <1>0, <1>3, QuietLifeStep DEF OpenTmp, Crosses, Opened, Blank, Texts
<1>4. CASE WriteTmp(w) \/ WriteFile(w)
  <2>1. saver' \in [Savers -> SaveRec]
    <3>1. NoSave \in SaveRec
      BY DEF NoSave, Blank, Texts
    <3>2. saver' = [saver EXCEPT ![w].pc = "rename"] \/ saver' = [saver EXCEPT ![w] = NoSave]
      BY <1>4 DEF WriteTmp, WriteFile
    <3>3. [saver[w] EXCEPT !.pc = "rename"] \in SaveRec
      BY <1>0
    <3> QED
      BY <1>0, <3>1, <3>2, <3>3
  <2>2. saver[w].text \in Texts
    BY <1>0
  <2>3. file' \in Texts \cup {Mixed} /\ tmp' \in Texts \cup {Mixed, None}
    BY <1>0, <1>4, <2>2 DEF WriteTmp, WriteFile, Over
  <2> QED
    BY <1>0, <1>4, <2>1, <2>3, QuietLifeStep DEF WriteTmp, WriteFile
<1>5. CASE RenameTmp(w)
  <2>1. NoSave \in SaveRec
    BY DEF NoSave, Blank, Texts
  <2>2. \A v \in Savers : [saver[v] EXCEPT !.fd = Renamed(saver[v].fd)] \in SaveRec
    BY <1>0 DEF Renamed
  <2>3. saver' \in [Savers -> SaveRec]
    BY <1>0, <1>5, <2>1, <2>2 DEF RenameTmp
  <2> QED
    BY <1>0, <1>5, <2>3, QuietLifeStep DEF RenameTmp
<1>6. CASE EmptyFile(w)
  BY <1>0, <1>6, QuietLifeStep DEF EmptyFile, Crosses, Opened, Blank, Texts
<1> QED
  BY <1>1, <1>2, <1>3, <1>4, <1>5, <1>6 DEF SaveStep, MatrixLogin, DiscordLogin

(* What the steps write into a server leaves it as it should be. *)
LEMMA ServerEdits ==
    ASSUME NEW r \in ServerRec, ServerOK(r)
    PROVE  /\ \A at \in Decided : r.pc \in Decided =>
                 /\ [r EXCEPT !.pc = at] \in ServerRec /\ ServerOK([r EXCEPT !.pc = at])
                 /\ [r EXCEPT !.pc = at].pc = at
           /\ /\ [r EXCEPT !.again = TRUE] \in ServerRec /\ ServerOK([r EXCEPT !.again = TRUE])
              /\ [r EXCEPT !.again = TRUE].pc = r.pc
           /\ /\ [r EXCEPT !.checks = TRUE] \in ServerRec /\ ServerOK([r EXCEPT !.checks = TRUE])
              /\ [r EXCEPT !.checks = TRUE].pc = r.pc
           /\ \A failed \in BOOLEAN :
                 /\ [r EXCEPT !.checks = FALSE, !.error = failed] \in ServerRec
                 /\ ServerOK([r EXCEPT !.checks = FALSE, !.error = failed])
                 /\ [r EXCEPT !.checks = FALSE, !.error = failed].pc = r.pc
<1>1. ASSUME NEW e \in ServerRec, e.status = r.status, e.scripts = r.scripts, e.sync = r.sync, e.hive = r.hive,
             e.pc \in Decided => r.pc \in Decided
      PROVE  ServerOK(e)
  BY <1>1 DEF ServerOK
<1>2. ASSUME NEW at \in Decided, r.pc \in Decided
      PROVE  /\ [r EXCEPT !.pc = at] \in ServerRec /\ ServerOK([r EXCEPT !.pc = at])
             /\ [r EXCEPT !.pc = at].pc = at
  <2>1. PICK e \in ServerRec : e = [r EXCEPT !.pc = at]
    BY <1>2 DEF ServerRec, Decided
  <2>2. e.status = r.status /\ e.scripts = r.scripts /\ e.sync = r.sync /\ e.hive = r.hive /\ e.pc = at
    BY <2>1 DEF ServerRec
  <2> QED
    BY <1>1, <1>2, <2>1, <2>2
<1>3. /\ [r EXCEPT !.again = TRUE] \in ServerRec /\ ServerOK([r EXCEPT !.again = TRUE])
      /\ [r EXCEPT !.again = TRUE].pc = r.pc
  <2>1. PICK e \in ServerRec : e = [r EXCEPT !.again = TRUE]
    BY DEF ServerRec
  <2>2. e.status = r.status /\ e.scripts = r.scripts /\ e.sync = r.sync /\ e.hive = r.hive /\ e.pc = r.pc
    BY <2>1 DEF ServerRec
  <2> QED
    BY <1>1, <2>1, <2>2
<1>4. /\ [r EXCEPT !.checks = TRUE] \in ServerRec /\ ServerOK([r EXCEPT !.checks = TRUE])
      /\ [r EXCEPT !.checks = TRUE].pc = r.pc
  <2>1. PICK e \in ServerRec : e = [r EXCEPT !.checks = TRUE]
    BY DEF ServerRec
  <2>2. e.status = r.status /\ e.scripts = r.scripts /\ e.sync = r.sync /\ e.hive = r.hive /\ e.pc = r.pc
    BY <2>1 DEF ServerRec
  <2> QED
    BY <1>1, <2>1, <2>2
<1>5. ASSUME NEW failed \in BOOLEAN
      PROVE  /\ [r EXCEPT !.checks = FALSE, !.error = failed] \in ServerRec
             /\ ServerOK([r EXCEPT !.checks = FALSE, !.error = failed])
             /\ [r EXCEPT !.checks = FALSE, !.error = failed].pc = r.pc
  <2>1. PICK e \in ServerRec : e = [r EXCEPT !.checks = FALSE, !.error = failed]
    BY DEF ServerRec
  <2>2. e.status = r.status /\ e.scripts = r.scripts /\ e.sync = r.sync /\ e.hive = r.hive /\ e.pc = r.pc
    BY <2>1 DEF ServerRec
  <2> QED
    BY <1>1, <2>1, <2>2
<1> QED
  BY <1>2, <1>3, <1>4, <1>5

(* The steps of one server. *)
LEMMA GoesInv ==
    ASSUME LifeInv, NEW p \in Procs, Goes(p)
    PROVE  LifeInv'
<1>0. /\ RestOK /\ proc \in [Procs -> ServerRec] /\ proc[p] \in ServerRec /\ ServerOK(proc[p])
      /\ proc[p].pc \in Listening => port = p
  BY LifeParts DEF LifeInv, PortIsTheirs
<1>1. ASSUME Fails(p), UNCHANGED <<disk, override, method, port, pidfile, killer, ops, asked>>
      PROVE  LifeInv'
  <2>1. unit' \in [main : Procs \cup {None}, again : BOOLEAN] /\ proc' = [proc EXCEPT ![p] = Ended]
    BY <1>0, <1>1, FailsOK
  <2>2. RestOK' /\ port' = port
    BY <1>0, <1>1, <2>1 DEF RestOK, disk
  <2> QED
    BY <2>1, <2>2, NewServers, OneServerStep DEF Listening
<1>2. CASE Load(p)
  <2>1. CASE Loads(file) /\ UNCHANGED unit
            /\ Becomes(p, [proc[p] EXCEPT !.pc = "deciding", !.sync = file.sync, !.hive = file.hive])
    <3>1. PICK sync \in BOOLEAN, hive \in BOOLEAN : sync = file.sync /\ hive = file.hive
      BY <1>0, <2>1 DEF RestOK, Loads, Texts
    <3>2. PICK r \in ServerRec : r = [proc[p] EXCEPT !.pc = "deciding", !.sync = sync, !.hive = hive]
      BY <1>0 DEF ServerRec
    <3>3. proc' = [proc EXCEPT ![p] = r]
      BY <2>1, <3>1, <3>2 DEF Becomes
    <3>4. r.pc = "deciding" /\ r.status = proc[p].status /\ r.scripts = proc[p].scripts
      BY <1>0, <3>2 DEF ServerRec
    <3>5. ServerOK(r)
      BY <1>0, <3>4 DEF ServerOK, Decided
    <3>6. RestOK' /\ port' = port
      BY <1>0, <1>2, <2>1 DEF Load, RestOK, disk
    <3> QED
      BY <3>3, <3>4, <3>5, <3>6, OneServerStep DEF Listening
  <2> QED
    BY <1>1, <1>2, <2>1 DEF Load
<1>3. CASE Decide(p)
  <2>1. PICK key \in BOOLEAN :
          proc' = [proc EXCEPT ![p] = [proc[p] EXCEPT !.pc = "binding", !.hive = Wanted(p) /\ ~proc[p].sync /\ key]]
    BY <1>3 DEF Decide, Becomes, HasKey
  <2>2. PICK hive \in BOOLEAN : hive = (Wanted(p) /\ ~proc[p].sync /\ key)
    OBVIOUS
  <2>3. PICK r \in ServerRec : r = [proc[p] EXCEPT !.pc = "binding", !.hive = hive]
    BY <1>0 DEF ServerRec
  <2>4. proc' = [proc EXCEPT ![p] = r]
    BY <2>1, <2>2, <2>3
  <2>5. /\ r.pc = "binding" /\ r.status = proc[p].status /\ r.scripts = proc[p].scripts
        /\ r.sync = proc[p].sync /\ r.hive = hive
    BY <1>0, <2>3 DEF ServerRec
  <2>6. ServerOK(r)
    BY <1>0, <2>2, <2>5 DEF ServerOK
  <2>7. RestOK' /\ port' = port
    BY <1>0, <1>3 DEF Decide, RestOK, disk
  <2> QED
    BY <2>4, <2>5, <2>6, <2>7, OneServerStep DEF Listening
<1>4. CASE Bind(p)
  <2>1. CASE port = None /\ port' = p /\ Turns(p, "bound") /\ UNCHANGED unit
    <3>1. PICK r \in ServerRec : ServerOK(r) /\ proc' = [proc EXCEPT ![p] = r]
      BY <1>0, <1>4, <2>1, ServerEdits DEF Bind, Turns, Becomes, Decided
    <3>2. \A q \in Procs \ {p} : port # q
      BY <2>1, ProcsAssumption
    <3>3. RestOK'
      BY <1>0, <1>4, <2>1 DEF Bind, RestOK, disk
    <3> QED
      BY <2>1, <3>1, <3>2, <3>3, OneServerStep
  <2> QED
    BY <1>1, <1>4, <2>1 DEF Bind
<1>5. CASE WritePidfile(p)
  <2>1. PICK r \in ServerRec : ServerOK(r) /\ proc' = [proc EXCEPT ![p] = r]
    BY <1>0, <1>5, ServerEdits DEF WritePidfile, Turns, Becomes, Decided
  <2>2. RestOK' /\ port' = port /\ port = p
    BY <1>0, <1>5 DEF WritePidfile, Listening, RestOK, disk
  <2> QED
    BY <2>1, <2>2, OneServerStep
<1>6. CASE Leave(p) \/ HandOver(p) \/ Quit(p)
  <2>1. PICK at \in {"leaving", "handing", "draining"} : Turns(p, at) /\ proc[p].pc \in {"serving", "leaving"}
    BY <1>6 DEF Leave, HandOver, Quit, Serves
  <2>2. PICK r \in ServerRec : ServerOK(r) /\ r.pc = at /\ proc' = [proc EXCEPT ![p] = r]
    <3>1. at \in Decided /\ proc[p].pc \in Decided
      BY <2>1 DEF Decided
    <3>2. proc' = [proc EXCEPT ![p] = [proc[p] EXCEPT !.pc = at]]
      BY <2>1 DEF Turns, Becomes
    <3> QED
      BY <1>0, <3>1, <3>2, ServerEdits
  <2>3. port' = port \/ Frees(p)
    BY <1>6 DEF Leave, HandOver, Quit
  <2>4. port' \in Procs \cup {None} /\ \A q \in Procs \ {p} : port = q => port' = q
    <3>1. port \in Procs \cup {None}
      BY <1>0 DEF RestOK
    <3> QED
      BY <1>0, <2>3, <3>1, FreesOK
  <2>5. RestOK'
    BY <1>0, <1>6, <2>4 DEF Leave, HandOver, Quit, DropGuard, RestOK, disk
  <2> QED
    BY <2>2, <2>4, <2>5, OneServerStep DEF Listening
<1>7. CASE SpawnNext(p)
  <2>1. NewPid \in Procs /\ NewPid # p
    BY <1>7, NewPidIsFree DEF SpawnNext
  <2>2. PICK r \in ServerRec : r = Starting(proc[p].member) /\ ServerOK(r) /\ r.pc = "starting"
    BY <1>0, NewServers DEF ServerRec
  <2>3. proc' = [proc EXCEPT ![p] = Ended, ![NewPid] = r]
    BY <1>7, <2>2 DEF SpawnNext
  <2>4. ASSUME NEW q \in Procs
        PROVE  proc'[q] = IF q = NewPid THEN r ELSE IF q = p THEN Ended ELSE proc[q]
    BY <1>0, <2>1, <2>3
  <2>5. proc' \in [Procs -> ServerRec]
    BY <1>0, <2>1, <2>3, NewServers
  <2>6. \A q \in Procs : ServerOK(proc'[q])
    BY <2>2, <2>4, NewServers DEF LifeInv
  <2>7. saver' \in [Savers -> SaveRec] /\ port' \in Procs \cup {None} /\ \A q \in Procs \ {p} : port = q => port' = q
    BY <1>0, <1>7, FreesOK, ForgetsOK DEF SpawnNext
  <2>9. RestOK'
    BY <1>0, <1>7, <2>7 DEF SpawnNext, RestOK
  <2>8. PortIsTheirs'
    BY <2>2, <2>4, <2>7, NewServers DEF LifeInv, PortIsTheirs, Listening
  <2> QED
    BY <2>5, <2>6, <2>8, <2>9, LifeParts
<1>8. CASE Drained(p)
  <2>1. saver' \in [Savers -> SaveRec]
    BY <1>0, <1>8, ForgetsOK DEF Drained
  <2>2. RestOK' /\ port' = port /\ proc' = [proc EXCEPT ![p] = Ended]
    BY <1>0, <1>8, <2>1 DEF Drained, DropGuard, Becomes, RestOK
  <2> QED
    BY <2>2, NewServers, OneServerStep DEF Listening
<1> QED
  BY <1>2, <1>3, <1>4, <1>5, <1>6, <1>7, <1>8 DEF Goes

(* What is done to a server, or by an update in it. *)
ServerOp(p) ==
    \/ AskRestart(p) \/ TellToStop(p) \/ Apply(p) \/ UpdateFails(p) \/ Exec(p)
    \/ BeginCheck(p) \/ EndCheck(p) \/ \E on \in BOOLEAN : SetHive(p, on)

LEMMA ServerOpInv ==
    ASSUME LifeInv, NEW p \in Procs, ServerOp(p)
    PROVE  LifeInv'
<1>0. RestOK /\ proc[p] \in ServerRec /\ ServerOK(proc[p]) /\ (proc[p].pc \in Listening => port = p)
  BY LifeParts DEF LifeInv, PortIsTheirs
<1>1. CASE AskRestart(p) \/ \E on \in BOOLEAN : SetHive(p, on)
  <2>1. RestOK' /\ port' = port
    BY <1>0, <1>1, CountsOK DEF AskRestart, SetHive, disk, RestOK
  <2>2. PICK r \in ServerRec :
          ServerOK(r) /\ r.pc = proc[p].pc /\ proc' = [proc EXCEPT ![p] = r]
    BY <1>0, <1>1, ServerEdits DEF AskRestart, SetHive, disk, Becomes
  <2> QED
    BY <1>0, <2>1, <2>2, OneServerStep
<1>2. CASE TellToStop(p)
  <2>1. PICK r \in ServerRec : r = Signalled(p) /\ ServerOK(r) /\ r.pc \in {proc[p].pc, "ended"}
    BY SignalledFacts
  <2>2. RestOK' /\ port' = port /\ proc' = [proc EXCEPT ![p] = r]
    BY <1>0, <1>2, <2>1, CountsOK DEF TellToStop, Becomes, RestOK, disk
  <2> QED
    BY <1>0, <2>1, <2>2, OneServerStep DEF Listening
<1>3. CASE Apply(p) \/ UpdateFails(p)
  <2>1. PICK status \in {"updating", "failed"}, error \in BOOLEAN, scripts \in {0, 1} :
          /\ scripts = IF status = "updating" THEN 1 ELSE 0
          /\ Becomes(p, [proc[p] EXCEPT !.status = status, !.error = error, !.scripts = scripts])
    <3>1. proc[p].scripts \in Nat
      BY <1>0 DEF ServerRec
    <3>2. CASE Apply(p)
      <4>1. proc[p].scripts + 1 = 1
        BY <1>0, <3>1, <3>2 DEF Apply, ServerOK
      <4> QED
        BY <3>2, <4>1 DEF Apply
    <3>3. CASE UpdateFails(p)
      <4>1. proc[p].scripts - 1 = 0
        BY <1>0, <3>1, <3>3 DEF UpdateFails, ScriptRuns, ServerOK
      <4> QED
        BY <3>3, <4>1 DEF UpdateFails
    <3> QED
      BY <1>3, <3>2, <3>3
  <2>2. PICK r \in ServerRec : r = [proc[p] EXCEPT !.status = status, !.error = error, !.scripts = scripts]
    <3>1. scripts \in Nat /\ status \in {"idle", "updating", "failed"}
      BY <2>1
    <3>2. [proc[p] EXCEPT !.status = status, !.error = error, !.scripts = scripts] \in ServerRec
      BY <1>0, <3>1 DEF ServerRec
    <3> QED
      BY <3>2
  <2>3. /\ r.pc = proc[p].pc /\ r.sync = proc[p].sync /\ r.hive = proc[p].hive
        /\ r.status = status /\ r.scripts = scripts
    BY <1>0, <2>2 DEF ServerRec
  <2>4. ServerOK(r)
    BY <1>0, <2>1, <2>3 DEF ServerOK
  <2>5. RestOK' /\ port' = port
    BY <1>0, <1>3, CountsOK DEF Apply, UpdateFails, RestOK, disk
  <2>6. proc' = [proc EXCEPT ![p] = r]
    BY <2>1, <2>2 DEF Becomes
  <2> QED
    BY <1>0, <2>3, <2>4, <2>5, <2>6, OneServerStep
<1>5. CASE Exec(p)
  <2>1. PICK r \in ServerRec : r = Starting(proc[p].member) /\ ServerOK(r) /\ r.pc = "starting"
    BY <1>0, NewServers DEF ServerRec
  <2>4. saver' \in [Savers -> SaveRec] /\ port' \in Procs \cup {None} /\ \A q \in Procs \ {p} : port = q => port' = q
    BY <1>0, <1>5, FreesOK, ForgetsOK DEF Exec
  <2>2. RestOK'
    BY <1>0, <1>5, <2>4 DEF Exec, RestOK
  <2>3. proc' = [proc EXCEPT ![p] = r]
    BY <1>5, <2>1 DEF Exec, Becomes
  <2> QED
    BY <2>1, <2>2, <2>3, <2>4, OneServerStep DEF Listening
<1>6. CASE BeginCheck(p)
  <2>1. RestOK' /\ port' = port
    BY <1>0, <1>6, CountsOK DEF BeginCheck, disk, RestOK
  <2>2. PICK r \in ServerRec :
          ServerOK(r) /\ r.pc = proc[p].pc /\ proc' = [proc EXCEPT ![p] = r]
    BY <1>0, <1>6, ServerEdits DEF BeginCheck, disk, Becomes
  <2> QED
    BY <1>0, <2>1, <2>2, OneServerStep
<1>7. CASE EndCheck(p)
  <2>1. RestOK' /\ port' = port
    BY <1>0, <1>7, CountsOK DEF EndCheck, NoAnswer, disk, RestOK
  <2>2. PICK r \in ServerRec :
          ServerOK(r) /\ r.pc = proc[p].pc /\ proc' = [proc EXCEPT ![p] = r]
    BY <1>0, <1>7, ServerEdits DEF EndCheck, NoAnswer, disk, Becomes
  <2> QED
    BY <1>0, <2>1, <2>2, OneServerStep
<1> QED
  BY <1>1, <1>2, <1>3, <1>5, <1>6, <1>7 DEF ServerOp

(* The other steps: starts by hand, `k` in `mynd status`, and the unit. *)
OtherStep ==
    \/ Start \/ KillRead \/ KillSignal \/ KillRemove
    \/ InstallUnit \/ UninstallUnit \/ UnitEnds \/ UnitStarts

LEMMA OtherStepInv == LifeInv /\ OtherStep => LifeInv'
<1> SUFFICES ASSUME LifeInv, OtherStep PROVE LifeInv'
  OBVIOUS
<1>0. RestOK /\ proc \in [Procs -> ServerRec] /\ \A p \in Procs : ServerOK(proc[p])
  BY LifeParts DEF LifeInv
<1>1. ASSUME NEW member \in BOOLEAN, Unremembered # {}, Becomes(NewPid, Starting(member)),
             RestOK', port' = port
      PROVE  LifeInv'
  <2>1. PICK r \in ServerRec : r = Starting(member) /\ ServerOK(r) /\ r.pc = "starting"
    BY NewServers
  <2>2. PICK p \in Procs : p = NewPid
    BY <1>1, NewPidIsFree
  <2>3. proc' = [proc EXCEPT ![p] = r]
    BY <1>1, <2>1, <2>2 DEF Becomes
  <2> QED
    BY <1>1, <2>1, <2>3, OneServerStep DEF Listening
<1>2. CASE Start
  <2>1. RestOK' /\ port' = port
    BY <1>0, <1>2, CountsOK DEF Start, RestOK, disk
  <2> QED
    BY <1>1, <1>2, <2>1 DEF Start
<1>3. CASE UnitStarts
  <2>1. NewPid \in Procs
    BY <1>3, NewPidIsFree DEF UnitStarts
  <2>2. RestOK' /\ port' = port
    BY <1>0, <1>3, <2>1 DEF UnitStarts, RestOK, disk
  <2> QED
    BY <1>1, <1>3, <2>2 DEF UnitStarts
<1>4. CASE KillRead \/ KillRemove
  <2>1. UNCHANGED <<proc, port>>
    BY <1>4 DEF KillRead, KillRemove
  <2>2. RestOK'
    <3>1. CASE KillRead
      <4>1. ops' \in 0..MaxOps
        BY <1>0, <3>1, CountsOK DEF KillRead
      <4> QED
        BY <1>0, <3>1, <4>1 DEF KillRead, RestOK, disk
    <3>2. CASE KillRemove
      BY <1>0, <3>2 DEF KillRemove, DropGuard, RestOK, disk
    <3> QED
      BY <1>4, <3>1, <3>2
  <2> QED
    BY <2>1, <2>2, QuietLifeStep
<1>5. CASE KillSignal
  <2>1. RestOK' /\ port' = port
    BY <1>0, <1>5 DEF KillSignal, DropGuard, RestOK, disk
  <2>2. CASE Alive(killer.pid) /\ killer.pid \in Procs
    <3>1. PICK p \in Procs : p = killer.pid
      BY <2>2
    <3>2. PICK r \in ServerRec : r = Signalled(p) /\ ServerOK(r) /\ r.pc \in {proc[p].pc, "ended"}
      BY SignalledFacts
    <3>3. proc' = [proc EXCEPT ![p] = r]
      BY <1>5, <2>2, <3>1, <3>2 DEF KillSignal, Becomes
    <3>4. r.pc \in Listening => port = p
      BY <3>2 DEF LifeInv, PortIsTheirs, Listening
    <3> QED
      BY <2>1, <3>2, <3>3, <3>4, OneServerStep
  <2>3. CASE proc' = proc
    BY <2>1, <2>3, QuietLifeStep
  <2>4. killer.pid \notin Procs => proc' = proc
    BY <1>0, <1>5 DEF KillSignal, Becomes
  <2> QED
    BY <1>5, <2>2, <2>3, <2>4 DEF KillSignal
<1>6. CASE InstallUnit \/ UninstallUnit \/ UnitEnds
  <2>1. proc' = [p \in Procs |-> IF p \in Members THEN Signalled(p) ELSE proc[p]]
    BY <1>6 DEF InstallUnit, UninstallUnit, UnitEnds, SignalUnit
  <2>2. RestOK' /\ port' = port
    BY <1>0, <1>6, CountsOK DEF InstallUnit, UninstallUnit, UnitEnds, RestOK, disk
  <2>3. ASSUME NEW p \in Procs
        PROVE  proc'[p] \in ServerRec /\ ServerOK(proc'[p]) /\ proc'[p].pc \in {proc[p].pc, "ended"}
    BY <1>0, <2>1, SignalledFacts
  <2>4. proc' \in [Procs -> ServerRec]
    BY <2>1, <2>3
  <2>5. PortIsTheirs'
    BY <2>2, <2>3 DEF LifeInv, PortIsTheirs, Listening
  <2> QED
    BY <2>2, <2>3, <2>4, <2>5, LifeParts
<1> QED
  BY <1>2, <1>3, <1>4, <1>5, <1>6 DEF OtherStep

(* Every step is one of these. *)
LEMMA LifeSteps ==
    LifeNext => \/ \E p \in Procs : Goes(p) \/ ServerOp(p)
                \/ \E w \in Savers : SaveStep(w)
                \/ OtherStep
  BY DEF LifeNext, ServerOp, SaveStep, OtherStep

(* Every step preserves the invariant. *)
LEMMA LifeNextInv == LifeInv /\ [LifeNext]_lifeVars => LifeInv'
<1>1. LifeInv /\ LifeNext => LifeInv'
  BY LifeSteps, GoesInv, ServerOpInv, SaveStepInv, OtherStepInv
<1>2. LifeInv /\ UNCHANGED lifeVars => LifeInv'
  BY LifeParts, QuietLifeStep DEF lifeVars, disk, RestOK
<1> QED
  BY <1>1, <1>2

(* The invariant holds in every reachable state. *)
THEOREM LifeInvariance == LifeSpec => []LifeInv
  BY LifeInitInv, LifeNextInv, PTL DEF LifeSpec

(* Every reachable state of the servers is well typed. *)
THEOREM LifeTypeCorrect == LifeSpec => []LifeTypeOK
<1>1. LifeInv => LifeTypeOK
  BY DEF LifeInv
<1> QED
  BY <1>1, LifeInvariance, PTL

(* However many servers there are and however checks, updates, restarts    *)
(* and ends interleave, a status says truly whether an update is under     *)
(* way, and no update has a second one beside it.                          *)
THEOREM UpdatesAreTold == LifeSpec => []UpdateIsTold
<1>1. LifeInv => UpdateIsTold
  BY DEF LifeInv, ServerOK, UpdateIsTold
<1> QED
  BY <1>1, LifeInvariance, PTL

(* No two servers serve at the same time, whichever way the first one      *)
(* leaves: a restart, an update or an end frees the port for the next one  *)
(* only when the server no longer listens (bind_with_retry, run_up).       *)
OneServer == \A p, q \in Procs : Serves(p) /\ Serves(q) => p = q
THEOREM ServersExclude == LifeSpec => []OneServer
<1>1. LifeInv => OneServer
  BY DEF LifeInv, PortIsTheirs, Listening, Serves, OneServer
<1> QED
  BY <1>1, LifeInvariance, PTL

(* What is on the disk and in the saves.  Every text that is written       *)
(* loads; and unless two saves have written at the same time, at most one  *)
(* has a file open, and who is about to write has just emptied it.         *)
SavesApart ==
    /\ file # Mixed /\ tmp # Mixed
    /\ \A v, w \in Savers : Opened(v) /\ Opened(w) => v = w
    /\ \A w \in Savers :
         /\ saver[w].fd \in {"tmp", "direct"}
         /\ saver[w].pc = "write" => (IF saver[w].fd = "tmp" THEN tmp ELSE file) = Blank
         /\ saver[w].pc = "rename" => saver[w].fd = "tmp"
SavesLoad ==
    /\ file = Mixed \/ Loads(file)
    /\ tmp \in {None, Mixed} \/ Loads(tmp)
    /\ \A w \in Savers : Loads(saver[w].text)
    /\ crossed \/ SavesApart

LEMMA BlankLoads ==
    /\ Blank \in Texts /\ Blank # Mixed /\ Loads(Blank)
    /\ Loads(NoSave.text) /\ NoSave.pc = "idle" /\ NoSave.fd = "tmp" /\ None # Mixed
<1>1. Blank \in Texts
  BY DEF Blank, Texts
<1>2. Blank # Mixed /\ ~Blank.sync
  BY <1>1, ProcsAssumption DEF Blank, Texts
<1>3. NoSave.text = Blank /\ NoSave.pc = "idle" /\ NoSave.fd = "tmp"
  BY DEF NoSave
<1> QED
  BY <1>1, <1>2, <1>3, ProcsAssumption DEF Loads

LEMMA SavesInit == LifeInit => SavesLoad
  BY BlankLoads DEF LifeInit, SavesLoad, SavesApart, Loads, Opened

(* A step that changes nothing on the disk, and at most ends a save. *)
LEMMA SavesKept ==
    ASSUME LifeInv, SavesLoad, UNCHANGED <<file, tmp, crossed>>,
           saver' = saver \/ \E p \in Procs : Forgets(p)
    PROVE  SavesLoad'
<1>1. saver \in [Savers -> SaveRec]
  BY LifeParts DEF RestOK
<1>2. \A w \in Savers : saver'[w] = saver[w] \/ saver'[w] = NoSave
  BY <1>1 DEF Forgets
<1>3. \A w \in Savers : Loads(saver'[w].text)
  BY <1>2, BlankLoads DEF SavesLoad
<1>4. \A w \in Savers : Opened(w)' => saver'[w] = saver[w] /\ Opened(w)
  BY <1>2, BlankLoads DEF Opened
<1>5. SavesApart => SavesApart'
  BY <1>2, <1>4, BlankLoads DEF SavesApart, Opened
<1> QED
  BY <1>3, <1>5 DEF SavesLoad, Loads

LEMMA SavesNext == LifeInv /\ SavesLoad /\ [LifeNext]_lifeVars => SavesLoad'
<1> SUFFICES ASSUME LifeInv, SavesLoad, [LifeNext]_lifeVars PROVE SavesLoad'
  OBVIOUS
<1>0. RestOK
  BY LifeParts
<1>1. CASE UNCHANGED lifeVars
  BY <1>1, SavesKept DEF lifeVars, disk
<1>2. ASSUME NEW p \in Procs, Goes(p) \/ ServerOp(p) PROVE SavesLoad'
  <2>1. CASE Goes(p)
    BY <2>1, SavesKept DEF Goes, Load, Decide, Bind, WritePidfile, Leave, HandOver, SpawnNext, Quit, Drained, disk
  <2>2. CASE ServerOp(p)
    BY <2>2, SavesKept DEF ServerOp, AskRestart, TellToStop, Apply, UpdateFails, Exec, BeginCheck, EndCheck, SetHive, disk
  <2> QED
    BY <1>2, <2>1, <2>2
<1>3. CASE OtherStep
  BY <1>3, SavesKept DEF OtherStep, Start, KillRead, KillSignal, KillRemove, InstallUnit, UninstallUnit,
                         UnitEnds, UnitStarts, disk
<1>4. ASSUME NEW w \in Savers, SaveStep(w) PROVE SavesLoad'
  <2>1. saver[w] \in SaveRec /\ saver \in [Savers -> SaveRec]
    BY <1>0 DEF RestOK
  <2>2. /\ file = Mixed \/ Loads(file)
        /\ tmp \in {None, Mixed} \/ Loads(tmp)
        /\ \A v \in Savers : Loads(saver[v].text)
        /\ crossed \/ SavesApart
    BY DEF SavesLoad
  \* What is left to show of a step: its texts load; and while no two saves
  \* have crossed, the others are as they were, the file too if one of them
  \* has it open, and w is as it should be.
  <2>3. ASSUME file' = Mixed \/ Loads(file'), tmp' \in {None, Mixed} \/ Loads(tmp'),
               \A v \in Savers : Loads(saver'[v].text),
               ~crossed' => /\ ~crossed /\ file' # Mixed /\ tmp' # Mixed
                            /\ \A v \in Savers : v # w => saver'[v] = saver[v]
                            /\ \A v \in Savers : v # w /\ Opened(v) =>
                                 UNCHANGED <<file, tmp>> /\ saver'[w].pc \in {"idle", "open"}
                            /\ saver'[w].fd \in {"tmp", "direct"}
                            /\ saver'[w].pc = "write" => (IF saver'[w].fd = "tmp" THEN tmp' ELSE file') = Blank
                            /\ saver'[w].pc = "rename" => saver'[w].fd = "tmp"
        PROVE  SavesLoad'
    <3>1. ASSUME ~crossed' PROVE SavesApart'
      <4>1. SavesApart
        BY <2>2, <2>3, <3>1
      <4>2. \A v, u \in Savers : Opened(v)' /\ Opened(u)' => v = u
        BY <2>3, <3>1, <4>1 DEF SavesApart, Opened
      <4>3. ASSUME NEW v \in Savers
            PROVE  /\ saver'[v].fd \in {"tmp", "direct"}
                   /\ saver'[v].pc = "write" => (IF saver'[v].fd = "tmp" THEN tmp' ELSE file') = Blank
                   /\ saver'[v].pc = "rename" => saver'[v].fd = "tmp"
        <5>1. CASE v = w
          BY <2>3, <3>1, <5>1
        <5>2. CASE v # w
          <6>1. saver'[v] = saver[v] /\ (saver[v].pc = "write" => UNCHANGED <<file, tmp>>)
            BY <2>3, <3>1, <5>2 DEF Opened
          <6>2. /\ saver[v].fd \in {"tmp", "direct"} /\ (saver[v].pc = "rename" => saver[v].fd = "tmp")
                /\ saver[v].pc = "write" => (IF saver[v].fd = "tmp" THEN tmp ELSE file) = Blank
            BY <4>1 DEF SavesApart
          <6> QED
            BY <6>1, <6>2
        <5> QED
          BY <5>1, <5>2
      <4> QED
        BY <2>3, <3>1, <4>2, <4>3 DEF SavesApart
    <3> QED
      BY <2>3, <3>1 DEF SavesLoad, Loads
  <2>4. \A v \in Savers : v # w /\ Opened(v) /\ Opened(w) => crossed
    BY <2>2 DEF SavesApart
  <2>5. ASSUME NEW fd \in {"tmp", "direct"}, Login(w, fd) PROVE SavesLoad'
    <3>1. /\ saver' = [saver EXCEPT ![w] = [pc |-> "open", on |-> None, text |-> file, fd |-> fd]]
          /\ UNCHANGED <<file, tmp, crossed>> /\ file # Mixed
      BY <2>5 DEF Login
    <3>2. /\ saver'[w] = [pc |-> "open", on |-> None, text |-> file, fd |-> fd]
          /\ \A v \in Savers : v # w => saver'[v] = saver[v]
      BY <2>1, <3>1
    <3>3. \A v \in Savers : Loads(saver'[v].text)
      BY <2>2, <3>1, <3>2
    <3> QED
      BY <2>2, <2>3, <3>1, <3>2, <3>3 DEF SavesApart
  <2>6. ASSUME NEW p \in Procs, NEW patch \in Patches, Save(w, p, patch) PROVE SavesLoad'
    <3>1. PICK text : /\ saver' = [saver EXCEPT ![w] = [pc |-> "open", on |-> p, text |-> text, fd |-> "tmp"]]
                      /\ Loads(text) /\ UNCHANGED <<file, tmp, crossed>>
      BY <2>6 DEF Save
    <3>2. /\ saver'[w] = [pc |-> "open", on |-> p, text |-> text, fd |-> "tmp"]
          /\ \A v \in Savers : v # w => saver'[v] = saver[v]
      BY <2>1, <3>1
    <3>3. \A v \in Savers : Loads(saver'[v].text)
      BY <2>2, <3>1, <3>2
    <3> QED
      BY <2>2, <2>3, <3>1, <3>2, <3>3 DEF SavesApart
  <2>7. CASE OpenTmp(w) \/ EmptyFile(w)
    <3>1. /\ saver'[w].pc = "write" /\ saver'[w].text = saver[w].text /\ saver'[w].fd = saver[w].fd
          /\ \A v \in Savers : v # w => saver'[v] = saver[v]
      BY <2>1, <2>7 DEF OpenTmp, EmptyFile, SaveRec
    <3>2. \/ saver[w].fd = "tmp" /\ tmp' = Blank /\ file' = file
          \/ saver[w].fd = "direct" /\ file' = Blank /\ tmp' = tmp
      BY <2>7 DEF OpenTmp, EmptyFile
    <3>3. ~crossed' => ~crossed /\ \A v \in Savers : v # w => ~Opened(v)
      BY <2>7 DEF OpenTmp, EmptyFile, Crosses
    <3>4. \A v \in Savers : Loads(saver'[v].text)
      BY <2>2, <3>1
    <3>5. (file' = Mixed \/ Loads(file')) /\ (tmp' \in {None, Mixed} \/ Loads(tmp'))
      BY <2>2, <3>2, BlankLoads
    <3> QED
      BY <2>2, <2>3, <3>1, <3>2, <3>3, <3>4, <3>5, BlankLoads DEF SavesApart
  <2>8. CASE WriteTmp(w)
    <3>1. /\ saver[w].pc = "write" /\ crossed' = crossed
          /\ saver'[w].pc = "rename" /\ saver'[w].text = saver[w].text /\ saver'[w].fd = saver[w].fd
          /\ \A v \in Savers : v # w => saver'[v] = saver[v]
      BY <2>1, <2>8 DEF WriteTmp, SaveRec
    <3>2. file' \in {file, saver[w].text, Mixed} /\ tmp' \in {tmp, saver[w].text, Mixed}
      BY <2>8 DEF WriteTmp, Over
    <3>3. ~crossed => saver[w].fd = "tmp" /\ tmp = Blank
      BY <2>2, <2>8, <3>1 DEF WriteTmp, SavesApart
    <3>4. ~crossed => tmp' = saver[w].text /\ file' = file
      BY <2>8, <3>3 DEF WriteTmp, Over
    <3>5. \A v \in Savers : Loads(saver'[v].text)
      BY <2>2, <3>1
    <3>6. ~crossed => \A v \in Savers : v # w => ~Opened(v)
      BY <2>4, <3>1 DEF Opened
    <3> QED
      BY <2>2, <2>3, <3>1, <3>2, <3>3, <3>4, <3>5, <3>6 DEF SavesApart, Loads
  <2>9. CASE RenameTmp(w)
    <3>1. saver[w].pc = "rename" /\ crossed' = crossed /\ saver'[w] = NoSave
      BY <2>1, <2>9 DEF RenameTmp
    <3>2. \A v \in Savers : saver'[v].text = saver[v].text \/ saver'[v] = NoSave
      BY <2>1, <2>9 DEF RenameTmp, SaveRec
    <3>3. (tmp # None /\ file' = tmp /\ tmp' = None) \/ UNCHANGED <<file, tmp>>
      BY <2>9 DEF RenameTmp
    <3>4. ~crossed => \A v \in Savers : v # w => ~Opened(v)
      BY <2>4, <3>1 DEF Opened
    <3>5. ASSUME ~crossed, NEW v \in Savers, v # w PROVE saver'[v] = saver[v]
      BY <2>1, <2>9, <3>4, <3>5 DEF RenameTmp
    <3>6. \A v \in Savers : Loads(saver'[v].text)
      BY <2>2, <3>2, BlankLoads
    <3> QED
      BY <2>2, <2>3, <3>1, <3>3, <3>4, <3>5, <3>6, BlankLoads DEF SavesApart, Loads
  <2>10. CASE WriteFile(w)
    <3>1. /\ saver[w].pc = "write" /\ crossed' = crossed /\ tmp' = tmp /\ saver'[w] = NoSave
          /\ \A v \in Savers : v # w => saver'[v] = saver[v]
      BY <2>1, <2>10 DEF WriteFile
    <3>2. file' \in {file, saver[w].text, Mixed}
      BY <2>10 DEF WriteFile, Over
    <3>3. ~crossed => saver[w].fd = "direct" /\ file = Blank
      BY <2>2, <2>10, <3>1 DEF WriteFile, SavesApart
    <3>4. ~crossed => file' = saver[w].text
      BY <2>10, <3>3 DEF WriteFile, Over
    <3>5. \A v \in Savers : Loads(saver'[v].text)
      BY <2>2, <3>1, BlankLoads
    <3>6. ~crossed => \A v \in Savers : v # w => ~Opened(v)
      BY <2>4, <3>1 DEF Opened
    <3> QED
      BY <2>2, <2>3, <3>1, <3>2, <3>4, <3>5, <3>6, BlankLoads DEF SavesApart, Loads
  <2> QED
    BY <1>4, <2>5, <2>6, <2>7, <2>8, <2>9, <2>10 DEF SaveStep, MatrixLogin, DiscordLogin
<1> QED
  BY <1>1, <1>2, <1>3, <1>4, LifeSteps

(* A server that has started never runs cloud sync and the hive at once,   *)
(* whatever is written to the file and switched in whichever order, by     *)
(* however many saves at a time.                                           *)
NeverBoth == \A p \in Procs : Works(p) => ~(proc[p].sync /\ proc[p].hive)
THEOREM ModesNeverMeet == LifeSpec => []NeverBoth
<1>1. LifeInv => NeverBoth
  BY DEF LifeInv, ServerOK, Decided, NeverBoth, Works, Serves, Lingers
<1> QED
  BY <1>1, LifeInvariance, PTL

(* And the file loads and never asks for both, whoever saves it, unless    *)
(* two saves have written it at the same time.                             *)
THEOREM ModesAreExclusive == LifeSpec => []ModesExclude
<1>1. LifeInv /\ SavesLoad /\ [LifeNext]_lifeVars => SavesLoad'
  BY SavesNext
<1>2. LifeInv /\ SavesLoad => ModesExclude
  BY DEF LifeInv, ServerOK, Decided, ModesExclude, Works, Serves, Lingers, SavesLoad, SavesApart
<1> QED
  BY SavesInit, <1>1, <1>2, LifeInvariance, PTL DEF LifeSpec

(* What a server that goes away leaves behind: the port is somebody's who  *)
(* listens, who drains was told to stop, and who was told to stop by       *)
(* nobody was so by systemd, which is going to start the unit again.       *)
Attending ==
    /\ port # None => port \in Procs /\ proc[port].pc \in Listening
    /\ \A p \in Procs : proc[p].pc = "draining" => proc[p].stop
    /\ asked = {} => \A p \in Procs : proc[p].stop => proc[p].member /\ unit.again

(* A step of one server. *)
LEMMA OneAttends ==
    ASSUME LifeInv, Attending, NEW p \in Procs, NEW r \in ServerRec,
           proc' = [proc EXCEPT ![p] = r],
           r.pc = "draining" => r.stop,
           asked' = {} => /\ asked = {} /\ (unit.again => unit'.again)
                          /\ r.stop => proc[p].stop /\ r.member = proc[p].member,
           \/ port' = None
           \/ port' = port /\ (proc[p].pc \in Listening => port # p \/ r.pc \in Listening)
           \/ port' = p /\ r.pc \in Listening
    PROVE  Attending'
<1>1. \A q \in Procs : proc'[q] = IF q = p THEN r ELSE proc[q]
  BY LifeParts
<1>2. (port # None => port \in Procs /\ proc[port].pc \in Listening)'
  BY <1>1 DEF Attending
<1> QED
  BY <1>1, <1>2 DEF Attending

LEMMA SignalledStops ==
    ASSUME LifeInv, Attending, NEW p \in Procs
    PROVE  /\ Signalled(p).pc = "draining" => Signalled(p).stop
           /\ proc[p].pc \in Listening => Signalled(p).pc \in Listening
           /\ Signalled(p).stop => Signalled(p).member = proc[p].member
<1>1. proc[p] \in ServerRec
  BY LifeParts
<1>2. CASE Handles(p)
  BY <1>1, <1>2 DEF Signalled, ServerRec
<1>3. CASE ~Handles(p)
  BY <1>1, <1>3 DEF Signalled, Ended, Handles, Works, Serves, Listening
<1> QED
  BY <1>2, <1>3

(* What an edit of a server that is none of its place leaves alone. *)
LEMMA EditsKeep ==
    ASSUME NEW s \in ServerRec,
           NEW r, r = [s EXCEPT !.again = TRUE] \/ r = [s EXCEPT !.checks = TRUE]
    PROVE  r \in ServerRec /\ r.stop = s.stop /\ r.member = s.member /\ r.pc = s.pc
<1>1. CASE r = [s EXCEPT !.again = TRUE]
  BY <1>1 DEF ServerRec
<1>2. CASE r = [s EXCEPT !.checks = TRUE]
  BY <1>2 DEF ServerRec
<1> QED
  BY <1>1, <1>2

LEMMA GoesAttends == ASSUME LifeInv, Attending, NEW p \in Procs, Goes(p) PROVE Attending'
<1> DEFINE s == proc[p]
<1>0. /\ s \in ServerRec /\ proc \in [Procs -> ServerRec] /\ (port = p => s.pc \in Listening)
      /\ unit \in [main : Procs \cup {None}, again : BOOLEAN]
      /\ (s.pc = "draining" => s.stop)
  <2>1. proc \in [Procs -> ServerRec] /\ RestOK
    BY LifeParts
  <2>2. unit \in [main : Procs \cup {None}, again : BOOLEAN]
    BY <2>1 DEF RestOK
  <2>3. (port = p => s.pc \in Listening) /\ (s.pc = "draining" => s.stop)
    BY ProcsAssumption DEF Attending
  <2> QED
    BY <2>1, <2>2, <2>3
<1>a. /\ Ended \in ServerRec /\ ~Ended.stop /\ Ended.pc = "ended"
      /\ \A member \in BOOLEAN : Starting(member) \in ServerRec /\ ~Starting(member).stop /\ Starting(member).pc = "starting"
  BY NewServers DEF Starting, Ended
<1>1. ASSUME s.pc \notin Listening, Fails(p), UNCHANGED <<port, asked>> PROVE Attending'
  <2>1. unit.again => unit'.again
    BY <1>0, <1>1 DEF Fails
  <2>2. proc' = [proc EXCEPT ![p] = Ended]
    BY <1>1 DEF Fails, Becomes
  <2> QED
    BY <1>1, <1>a, <2>1, <2>2, OneAttends
<1>2. ASSUME NEW r \in ServerRec, proc' = [proc EXCEPT ![p] = r], r.stop = s.stop, r.member = s.member,
             r.pc = "draining" => s.stop, UNCHANGED <<unit, asked>>,
             \/ port' = port /\ (s.pc \in Listening => r.pc \in Listening)
             \/ Frees(p)
             \/ port' = p /\ r.pc \in Listening
      PROVE  Attending'
  <2>1. Frees(p) => port' = None \/ (port' = port /\ port # p)
    BY DEF Frees
  <2> QED
    BY <1>2, <2>1, OneAttends
<1>3. ASSUME NEW at \in Decided, Turns(p, at)
      PROVE  \E r \in ServerRec : /\ proc' = [proc EXCEPT ![p] = r] /\ r.stop = s.stop
                                  /\ r.member = s.member /\ r.pc = at
  <2>1. [s EXCEPT !.pc = at] \in ServerRec /\ [s EXCEPT !.pc = at].stop = s.stop
        /\ [s EXCEPT !.pc = at].member = s.member /\ [s EXCEPT !.pc = at].pc = at
    BY <1>0 DEF ServerRec, Decided
  <2>2. proc' = [proc EXCEPT ![p] = [s EXCEPT !.pc = at]]
    BY <1>3 DEF Turns, Becomes
  <2> QED
    BY <2>1, <2>2, Zenon
<1>4. CASE Load(p)
  <2>1. s.pc \notin Listening
    BY <1>4 DEF Load, Listening
  <2>2. CASE Loads(file) /\ UNCHANGED unit
             /\ Becomes(p, [proc[p] EXCEPT !.pc = "deciding", !.sync = file.sync, !.hive = file.hive])
    <3>1. PICK sync \in BOOLEAN, hive \in BOOLEAN : sync = file.sync /\ hive = file.hive
      BY <2>2, LifeParts DEF RestOK, Loads, Texts
    <3>2. PICK r \in ServerRec : r = [s EXCEPT !.pc = "deciding", !.sync = sync, !.hive = hive]
      BY <1>0 DEF ServerRec
    <3>3. r.pc = "deciding" /\ r.stop = s.stop /\ r.member = s.member
      BY <1>0, <3>2 DEF ServerRec
    <3>4. proc' = [proc EXCEPT ![p] = r]
      BY <2>2, <3>1, <3>2 DEF Becomes
    <3> QED
      BY <1>2, <1>4, <2>1, <2>2, <3>3, <3>4 DEF Load
  <2> QED
    BY <1>1, <1>4, <2>1, <2>2 DEF Load
<1>5. CASE Decide(p)
  <2>1. PICK key \in BOOLEAN :
          proc' = [proc EXCEPT ![p] = [s EXCEPT !.pc = "binding", !.hive = Wanted(p) /\ ~s.sync /\ key]]
    BY <1>5 DEF Decide, Becomes, HasKey
  <2>2. PICK hive \in BOOLEAN : hive = (Wanted(p) /\ ~s.sync /\ key)
    OBVIOUS
  <2>3. PICK r \in ServerRec : r = [s EXCEPT !.pc = "binding", !.hive = hive]
    BY <1>0 DEF ServerRec
  <2>4. r.pc = "binding" /\ r.stop = s.stop /\ r.member = s.member
    BY <1>0, <2>3 DEF ServerRec
  <2>5. proc' = [proc EXCEPT ![p] = r]
    BY <2>1, <2>2, <2>3
  <2>6. UNCHANGED <<unit, asked, port>> /\ s.pc \notin Listening
    BY <1>5 DEF Decide, Listening
  <2> QED
    BY <1>2, <2>4, <2>5, <2>6
<1>6. CASE Bind(p)
  <2>1. s.pc \notin Listening /\ asked' = asked
    BY <1>6 DEF Bind, Listening
  <2>2. CASE port' = p /\ Turns(p, "bound") /\ UNCHANGED unit
    <3>1. PICK r \in ServerRec : /\ proc' = [proc EXCEPT ![p] = r] /\ r.stop = s.stop
                                 /\ r.member = s.member /\ r.pc = "bound"
      BY <1>3, <2>2 DEF Decided
    <3> QED
      BY <1>2, <2>1, <2>2, <3>1 DEF Listening
  <2> QED
    BY <1>1, <1>6, <2>1, <2>2 DEF Bind
<1>7. CASE WritePidfile(p) \/ Leave(p) \/ HandOver(p) \/ Quit(p)
  <2>1. PICK at \in {"serving", "leaving", "handing", "draining"} :
          /\ Turns(p, at) /\ (at = "draining" => s.stop)
          /\ \/ port' = port /\ (s.pc \in Listening => at \in Listening)
             \/ Frees(p)
    BY <1>7 DEF WritePidfile, Leave, HandOver, Quit, Listening
  <2>2. UNCHANGED <<unit, asked>>
    BY <1>7 DEF WritePidfile, Leave, HandOver, Quit
  <2>3. PICK r \in ServerRec : /\ proc' = [proc EXCEPT ![p] = r] /\ r.stop = s.stop
                               /\ r.member = s.member /\ r.pc = at
    BY <1>3, <2>1 DEF Decided
  <2> QED
    BY <1>2, <2>1, <2>2, <2>3
<1>8. CASE SpawnNext(p)
  <2>1. NewPid \in Procs /\ NewPid # p /\ proc[NewPid].pc = "ended"
    BY <1>8, NewPidIsFree DEF SpawnNext
  <2>2. s.member \in BOOLEAN
    BY <1>0 DEF ServerRec
  <2>3. \A q \in Procs : proc'[q] = IF q = NewPid THEN Starting(s.member) ELSE IF q = p THEN Ended ELSE proc[q]
    BY <1>0, <1>8, <2>1 DEF SpawnNext
  <2>4. UNCHANGED <<unit, asked>> /\ port # p /\ port # NewPid /\ port' = port
    <3>1. port # p
      BY <1>0, <1>8 DEF SpawnNext, Listening
    <3>2. port # NewPid
      BY <2>1, ProcsAssumption DEF Attending, Listening
    <3> QED
      BY <1>8, <3>1, <3>2 DEF SpawnNext, Frees
  <2> QED
    BY <1>a, <2>2, <2>3, <2>4 DEF Attending
<1>9. CASE Drained(p)
  <2>1. proc' = [proc EXCEPT ![p] = Ended] /\ UNCHANGED <<unit, asked, port>> /\ s.pc \notin Listening
    BY <1>9 DEF Drained, Becomes, Listening
  <2> QED
    BY <1>a, <2>1, OneAttends
<1> QED
  BY <1>4, <1>5, <1>6, <1>7, <1>8, <1>9 DEF Goes

LEMMA OpAttends == ASSUME LifeInv, Attending, NEW p \in Procs, ServerOp(p) PROVE Attending'
<1> DEFINE s == proc[p]
<1>0. s \in ServerRec /\ proc \in [Procs -> ServerRec] /\ (s.pc = "draining" => s.stop)
  BY LifeParts DEF Attending
<1>1. ASSUME NEW r \in ServerRec, proc' = [proc EXCEPT ![p] = r], r.stop = s.stop, r.member = s.member,
             r.pc = s.pc, UNCHANGED <<unit, asked, port>>
      PROVE  Attending'
  BY <1>0, <1>1, OneAttends
<1>2. CASE AskRestart(p) \/ \E on \in BOOLEAN : SetHive(p, on)
  <2>1. PICK r \in ServerRec : r = [s EXCEPT !.again = TRUE] /\ r.stop = s.stop /\ r.member = s.member /\ r.pc = s.pc
    BY <1>0, EditsKeep
  <2> QED
    BY <1>1, <1>2, <2>1 DEF AskRestart, SetHive, Becomes
<1>3. CASE TellToStop(p)
  <2>1. PICK r \in ServerRec : r = Signalled(p)
    BY SignalledFacts
  <2>2. asked' # {} /\ port' = port /\ proc' = [proc EXCEPT ![p] = r]
    BY <1>3, <2>1 DEF TellToStop, Becomes
  <2>3. r.pc = "draining" => r.stop
    BY <2>1, SignalledStops
  <2>4. s.pc \in Listening => r.pc \in Listening
    BY <2>1, SignalledStops
  <2> QED
    BY <2>2, <2>3, <2>4, OneAttends
<1>4. CASE Apply(p) \/ UpdateFails(p)
  <2>1. PICK status, error, scripts :
          proc' = [proc EXCEPT ![p] = [s EXCEPT !.status = status, !.error = error, !.scripts = scripts]]
    BY <1>4 DEF Apply, UpdateFails, Becomes
  <2>2. proc' \in [Procs -> ServerRec]
    BY <1>4, ServerOpInv, LifeParts DEF ServerOp, LifeInv, LifeTypeOK, ServerRec
  <2>3. PICK r \in ServerRec : r = [s EXCEPT !.status = status, !.error = error, !.scripts = scripts]
    BY <1>0, <2>1, <2>2
  <2>4. r.stop = s.stop /\ r.member = s.member /\ r.pc = s.pc
    BY <1>0, <2>3 DEF ServerRec
  <2> QED
    BY <1>1, <1>4, <2>1, <2>3, <2>4 DEF Apply, UpdateFails
<1>5. CASE Exec(p)
  <2>1. s.member \in BOOLEAN
    BY <1>0 DEF ServerRec
  <2>2. PICK r \in ServerRec : r = Starting(s.member) /\ ~r.stop /\ r.pc = "starting"
    BY <2>1, NewServers DEF Starting, Ended
  <2>3. proc' = [proc EXCEPT ![p] = r] /\ UNCHANGED <<unit, asked>>
    BY <1>5, <2>2 DEF Exec, Becomes
  <2>4. port' = None \/ (port' = port /\ port # p)
    BY <1>5 DEF Exec, Frees
  <2> QED
    BY <2>2, <2>3, <2>4, OneAttends
<1>6. CASE BeginCheck(p)
  <2>1. PICK r \in ServerRec : r = [s EXCEPT !.checks = TRUE] /\ r.stop = s.stop /\ r.member = s.member /\ r.pc = s.pc
    BY <1>0, EditsKeep
  <2> QED
    BY <1>1, <1>6, <2>1 DEF BeginCheck, Becomes
<1>7. CASE EndCheck(p)
  <2>1. PICK failed \in BOOLEAN : Becomes(p, [s EXCEPT !.checks = FALSE, !.error = failed])
    BY <1>7 DEF EndCheck, NoAnswer
  <2>0. /\ [s EXCEPT !.checks = FALSE, !.error = failed] \in ServerRec
        /\ [s EXCEPT !.checks = FALSE, !.error = failed].stop = s.stop
        /\ [s EXCEPT !.checks = FALSE, !.error = failed].member = s.member
        /\ [s EXCEPT !.checks = FALSE, !.error = failed].pc = s.pc
    BY <1>0, <2>1 DEF ServerRec
  <2>2. PICK r \in ServerRec : /\ r = [s EXCEPT !.checks = FALSE, !.error = failed]
                               /\ r.stop = s.stop /\ r.member = s.member /\ r.pc = s.pc
    BY <2>0, Zenon
  <2> QED
    BY <1>1, <1>7, <2>1, <2>2 DEF EndCheck, Becomes
<1> QED
  BY <1>2, <1>3, <1>4, <1>5, <1>6, <1>7 DEF ServerOp

LEMMA OtherAttends == LifeInv /\ Attending /\ OtherStep => Attending'
<1> SUFFICES ASSUME LifeInv, Attending, OtherStep PROVE Attending'
  OBVIOUS
<1>0. /\ proc \in [Procs -> ServerRec] /\ killer.pid \in Procs \cup {None}
      /\ unit \in [main : Procs \cup {None}, again : BOOLEAN]
  BY LifeParts DEF RestOK
<1>1. ASSUME NEW member \in BOOLEAN, Unremembered # {}, Becomes(NewPid, Starting(member)), UNCHANGED <<port, asked>>,
             asked = {} => unit'.again = unit.again \/ \A p \in Procs : ~proc[p].stop
      PROVE  Attending'
  <2>1. NewPid \in Procs /\ proc[NewPid].pc = "ended"
    BY <1>1, NewPidIsFree
  <2>2. Starting(member).pc = "starting" /\ ~Starting(member).stop
    BY DEF Starting, Ended
  <2>3. \A q \in Procs : proc'[q] = IF q = NewPid THEN Starting(member) ELSE proc[q]
    BY <1>0, <1>1, <2>1 DEF Becomes
  <2>4. port # NewPid
    BY <2>1, ProcsAssumption DEF Attending, Listening
  <2> QED
    BY <1>1, <2>2, <2>3, <2>4 DEF Attending
<1>2. CASE Start
  BY <1>1, <1>2 DEF Start
<1>3. CASE UnitStarts
  <2>1. asked = {} => \A p \in Procs : ~proc[p].stop
    BY <1>3 DEF UnitStarts, Members, Attending
  <2> QED
    BY <1>1, <1>3, <2>1 DEF UnitStarts
<1>4. CASE KillRead \/ KillRemove
  BY <1>4 DEF KillRead, KillRemove, Attending
<1>5. CASE KillSignal
  <2>1. CASE Alive(killer.pid) /\ killer.pid \in Procs
    <3>1. PICK p \in Procs : p = killer.pid
      BY <2>1
    <3>2. PICK r \in ServerRec : r = Signalled(p)
      BY SignalledFacts
    <3>3. asked' # {} /\ port' = port /\ proc' = [proc EXCEPT ![p] = r]
      BY <1>5, <2>1, <3>1, <3>2 DEF KillSignal, Becomes
    <3>4. r.pc = "draining" => r.stop
      BY <3>2, SignalledStops
    <3>5. proc[p].pc \in Listening => r.pc \in Listening
      BY <3>2, SignalledStops
    <3> QED
      BY <3>3, <3>4, <3>5, OneAttends
  <2>2. CASE killer.pid \notin Procs /\ Alive(killer.pid)
    <3>1. proc' = proc /\ asked' # {} /\ port' = port
      BY <1>0, <1>5, <2>2 DEF KillSignal, Becomes
    <3> QED
      BY <3>1 DEF Attending
  <2>3. CASE ~Alive(killer.pid)
    BY <1>5, <2>3 DEF KillSignal, Attending
  <2> QED
    BY <1>0, <2>1, <2>2, <2>3
<1>6. CASE InstallUnit \/ UninstallUnit \/ UnitEnds
  <2>1. \A p \in Procs : proc'[p] = IF p \in Members THEN Signalled(p) ELSE proc[p]
    BY <1>6 DEF InstallUnit, UninstallUnit, UnitEnds, SignalUnit
  <2>2. port' = port
    BY <1>6 DEF InstallUnit, UninstallUnit, UnitEnds
  <2>3. ASSUME NEW p \in Procs
        PROVE  /\ proc'[p].pc = "draining" => proc'[p].stop
               /\ proc[p].pc \in Listening => proc'[p].pc \in Listening
    BY <2>1, <2>3, SignalledStops DEF Attending
  <2>4. ASSUME asked' = {}, NEW p \in Procs, proc'[p].stop PROVE proc'[p].member /\ unit'.again
    <3>1. CASE InstallUnit
      <4>1. unit'.again /\ asked = {}
        BY <1>0, <2>4, <3>1 DEF InstallUnit
      <4>2. CASE p \in Members
        <5>1. proc[p].member /\ proc'[p] = Signalled(p)
          BY <2>1, <4>2 DEF Members
        <5> QED
          BY <2>4, <4>1, <5>1, SignalledStops
      <4>3. CASE p \notin Members
        BY <2>1, <2>4, <4>1, <4>3 DEF Attending
      <4> QED
        BY <4>2, <4>3
    <3>2. CASE UninstallUnit
      BY <2>4, <3>2 DEF UninstallUnit
    <3>3. CASE UnitEnds
      <4>1. Members = {} /\ asked = {} /\ unit'.again = unit.again
        BY <1>0, <2>4, <3>3 DEF UnitEnds
      <4> QED
        BY <2>1, <2>4, <4>1 DEF Attending
    <3> QED
      BY <1>6, <3>1, <3>2, <3>3
  <2> QED
    BY <2>2, <2>3, <2>4 DEF Attending
<1> QED
  BY <1>2, <1>3, <1>4, <1>5, <1>6 DEF OtherStep

LEMMA AttendingStep == LifeInv /\ Attending /\ [LifeNext]_lifeVars => Attending'
<1>1. ASSUME Attending, UNCHANGED <<port, proc, asked, unit>> PROVE Attending'
  BY <1>1 DEF Attending
<1>2. ASSUME NEW w \in Savers, SaveStep(w) PROVE UNCHANGED <<port, proc, asked, unit>>
  BY <1>2 DEF SaveStep, MatrixLogin, DiscordLogin, Login, OpenTmp, WriteTmp, RenameTmp, EmptyFile, WriteFile, Save
<1>3. UNCHANGED lifeVars => UNCHANGED <<port, proc, asked, unit>>
  BY DEF lifeVars
<1> QED
  BY <1>1, <1>2, <1>3, LifeSteps, GoesAttends, OpAttends, OtherAttends

(* The safety half of ServerComesBack: where a server runs, or systemd is  *)
(* going to start one, it stays so through every restart, update, failed   *)
(* start and second start by hand, until somebody tells a server to stop.  *)
(* The file has to load, and so not to have been written by two at once.   *)
Remains == (\E p \in Procs : Alive(p)) \/ unit.again
ServersRemain == [][Remains /\ asked' = {} /\ ~crossed => Remains']_lifeVars

LEMMA RemainsStep ==
    ASSUME LifeInv, SavesLoad, Attending, LifeNext, Remains, asked' = {}, ~crossed
    PROVE  Remains'
<1>0. proc \in [Procs -> ServerRec] /\ unit \in [main : Procs \cup {None}, again : BOOLEAN]
  BY LifeParts DEF RestOK
<1>1. ASSUME NEW p \in Procs, NEW r, proc' = [proc EXCEPT ![p] = r], r.pc # "ended" PROVE Remains'
  <2>1. proc'[p] = r
    BY <1>0, <1>1
  <2> QED
    BY <1>1, <2>1 DEF Remains, Alive
<1>2. ASSUME UNCHANGED <<proc, unit>> PROVE Remains'
  BY <1>2 DEF Remains, Alive
<1>3. ASSUME NEW member, Unremembered # {}, Becomes(NewPid, Starting(member)) PROVE Remains'
  <2>1. NewPid \in Procs /\ Starting(member).pc = "starting"
    BY <1>3, NewPidIsFree DEF Starting, Ended
  <2> QED
    BY <1>1, <1>3, <2>1 DEF Becomes
<1>4. ASSUME NEW p \in Procs, Goes(p) PROVE Remains'
  <2>0. proc[p] \in ServerRec
    BY <1>0
  <2>1. ASSUME NEW at, Turns(p, at), at # "ended" PROVE Remains'
    <3>1. [proc[p] EXCEPT !.pc = at].pc = at
      BY <2>0 DEF ServerRec
    <3> QED
      BY <1>1, <2>1, <3>1 DEF Turns, Becomes
  <2>2. CASE Load(p)
    <3>1. Becomes(p, [proc[p] EXCEPT !.pc = "deciding", !.sync = file.sync, !.hive = file.hive])
      BY <2>2 DEF Load, SavesLoad, SavesApart
    <3>2. [proc[p] EXCEPT !.pc = "deciding", !.sync = file.sync, !.hive = file.hive].pc = "deciding"
      BY <2>0 DEF ServerRec
    <3> QED
      BY <1>1, <3>1, <3>2 DEF Becomes
  <2>3. CASE Decide(p)
    <3>1. PICK hive : proc' = [proc EXCEPT ![p] = [proc[p] EXCEPT !.pc = "binding", !.hive = hive]]
      BY <2>3 DEF Decide, Becomes
    <3>2. [proc[p] EXCEPT !.pc = "binding", !.hive = hive].pc = "binding"
      BY <2>0 DEF ServerRec
    <3> QED
      BY <1>1, <3>1, <3>2
  <2>4. CASE Bind(p)
    <3>1. CASE Turns(p, "bound")
      BY <2>1, <3>1
    <3>2. CASE port # None /\ Fails(p)
      <4>1. port \in Procs /\ proc[port].pc \in Listening /\ port # p
        BY <2>4, <3>2 DEF Attending, Bind, Listening
      <4>2. proc'[port] = proc[port]
        BY <1>0, <3>2, <4>1 DEF Fails, Becomes
      <4> QED
        BY <4>1, <4>2 DEF Remains, Alive, Listening
    <3> QED
      BY <2>4, <3>1, <3>2 DEF Bind
  <2>5. CASE WritePidfile(p) \/ Leave(p) \/ HandOver(p) \/ Quit(p)
    BY <2>1, <2>5 DEF WritePidfile, Leave, HandOver, Quit
  <2>6. CASE SpawnNext(p)
    <3>1. NewPid \in Procs /\ Starting(proc[p].member).pc = "starting"
      BY <2>6, NewPidIsFree DEF SpawnNext, Starting, Ended
    <3>2. proc'[NewPid] = Starting(proc[p].member)
      BY <1>0, <2>6, <3>1 DEF SpawnNext
    <3> QED
      BY <3>1, <3>2 DEF Remains, Alive
  <2>7. CASE Drained(p)
    BY <2>7 DEF Drained, Attending, Remains
  <2> QED
    BY <1>4, <2>2, <2>3, <2>4, <2>5, <2>6, <2>7 DEF Goes
<1>5. ASSUME NEW p \in Procs, ServerOp(p) PROVE Remains'
  <2>0. proc[p] \in ServerRec
    BY <1>0
  <2>1. CASE TellToStop(p)
    BY <2>1 DEF TellToStop
  <2>2. CASE Exec(p)
    <3>1. Starting(proc[p].member).pc = "starting"
      BY DEF Starting, Ended
    <3> QED
      BY <1>1, <2>2, <3>1 DEF Exec, Becomes
  <2>3. CASE AskRestart(p) \/ Apply(p) \/ UpdateFails(p) \/ BeginCheck(p) \/ EndCheck(p)
             \/ \E on \in BOOLEAN : SetHive(p, on)
    <3>1. proc[p].pc # "ended"
      BY <2>3 DEF AskRestart, Apply, UpdateFails, ScriptRuns, BeginCheck, EndCheck, SetHive, Works, Serves, Lingers
    <3>2. proc'[p].pc = proc[p].pc
      <4>1. CASE AskRestart(p) \/ \E on \in BOOLEAN : SetHive(p, on)
        BY <1>0, <4>1 DEF AskRestart, SetHive, Becomes, ServerRec
      <4>2. CASE Apply(p)
        BY <1>0, <4>2 DEF Apply, Becomes, ServerRec
      <4>3. CASE UpdateFails(p)
        BY <1>0, <4>3 DEF UpdateFails, Becomes, ServerRec
      <4>4. CASE BeginCheck(p)
        BY <1>0, <4>4 DEF BeginCheck, Becomes, ServerRec
      <4>5. CASE EndCheck(p)
        <5>1. PICK failed : Becomes(p, [proc[p] EXCEPT !.checks = FALSE, !.error = failed])
          BY <4>5 DEF EndCheck
        <5> QED
          BY <1>0, <5>1 DEF Becomes, ServerRec
      <4> QED
        BY <2>3, <4>1, <4>2, <4>3, <4>4, <4>5
    <3> QED
      BY <3>1, <3>2 DEF Remains, Alive
  <2> QED
    BY <1>5, <2>1, <2>2, <2>3 DEF ServerOp
<1>6. CASE OtherStep
  <2>1. CASE Start
    BY <1>3, <2>1 DEF Start
  <2>2. CASE UnitStarts
    BY <1>3, <2>2 DEF UnitStarts
  <2>3. CASE KillRead \/ KillRemove \/ KillSignal
    BY <1>2, <2>3 DEF KillRead, KillRemove, KillSignal
  <2>4. CASE InstallUnit
    BY <1>0, <2>4 DEF InstallUnit, Remains
  <2>5. CASE UninstallUnit
    BY <2>5 DEF UninstallUnit
  <2>6. CASE UnitEnds
    <3>1. Members = {} /\ unit'.again = unit.again
      BY <1>0, <2>6 DEF UnitEnds
    <3>2. \A p \in Procs : proc'[p] = proc[p]
      BY <2>6, <3>1 DEF UnitEnds, SignalUnit
    <3> QED
      BY <3>1, <3>2 DEF Remains, Alive
  <2> QED
    BY <1>6, <2>1, <2>2, <2>3, <2>4, <2>5, <2>6 DEF OtherStep
<1>7. ASSUME NEW w \in Savers, SaveStep(w) PROVE Remains'
  <2>1. UNCHANGED <<proc, unit>>
    BY <1>7 DEF SaveStep, MatrixLogin, DiscordLogin, Login, OpenTmp, WriteTmp, RenameTmp, EmptyFile, WriteFile, Save
  <2> QED
    BY <1>2, <2>1
<1> QED
  BY <1>4, <1>5, <1>6, <1>7, LifeSteps

THEOREM ServersStay == LifeSpec => ServersRemain
<1>1. LifeInit => SavesLoad /\ Attending
  BY SavesInit DEF LifeInit, Attending, Ended
<1>2. LifeInv /\ SavesLoad /\ Attending /\ [LifeNext]_lifeVars => (SavesLoad /\ Attending)'
  BY SavesNext, AttendingStep
<1>3. LifeInv /\ SavesLoad /\ Attending /\ [LifeNext]_lifeVars => [Remains /\ asked' = {} /\ ~crossed => Remains']_lifeVars
  BY RemainsStep
<1> QED
  BY <1>1, <1>2, <1>3, LifeInvariance, PTL DEF LifeSpec, ServersRemain

-----------------------------------------------------------------------------
(* The pairing windows                                                     *)

(* A code that is still in the store has let nobody in. *)
UnspentOK == \A c \in Codes : /\ c \in outstanding => admitted[c] = 0
                              /\ admitted[c] <= 1

(* A window outlives its code, and only a window that has run out is shut  *)
(* down; a handler that is about to open one finds none for its code.      *)
WindowOK == \A c \in Codes :
    /\ window[c].pc # "none" => left[c] <= window[c].left
    /\ window[c].timer # "none" => window[c].pc # "none"
    /\ window[c].pc \in {"stopping", "closed"} => window[c].left = 0
    /\ c \in opening => window[c] = NoWindow

(* The inductive invariant. *)
PairInv == PairTypeOK /\ OneWindow /\ UnspentOK /\ WindowOK

(* What the steps of a window write is a window. *)
LEMMA WindowEdits ==
    ASSUME NEW w \in Window, NEW s \in {"starting", "bound", "failed", "stopping", "closed"},
           NEW t \in {"none", "running", "fired"}
    PROVE  /\ [w EXCEPT !.pc = s] \in Window
           /\ [w EXCEPT !.timer = t] \in Window
           /\ [w EXCEPT !.timer = t, !.pc = s] \in Window
           /\ w.left > 0 => [w EXCEPT !.left = @ - 1] \in Window
<1>1. [w EXCEPT !.pc = s] \in Window
  BY DEF Window
<1>2. [w EXCEPT !.timer = t] \in Window
  BY DEF Window
<1>3. [w EXCEPT !.timer = t, !.pc = s] \in Window
  BY DEF Window
<1>4. ASSUME w.left > 0 PROVE [w EXCEPT !.left = @ - 1] \in Window
  <2>1. w.left - 1 \in 0..TTL
    BY <1>4, PairAssumption DEF Window
  <2> QED
    BY <2>1 DEF Window
<1> QED
  BY <1>1, <1>2, <1>3, <1>4

(* The initial state satisfies the invariant. *)
LEMMA PairInitInv == PairInit => PairInv
  BY PairAssumption
  DEF PairInit, PairInv, PairTypeOK, OneWindow, UnspentOK, WindowOK, Window, NoWindow

(* A step that changes only the window of c, and keeps it a window. *)
LEMMA WindowChange ==
    ASSUME PairInv, NEW c \in Codes, NEW w \in Window,
           window' = [window EXCEPT ![c] = w],
           UNCHANGED <<outstanding, left, opening, admitted>>,
           w.left = window[c].left, c \notin opening, w.pc # "none", window[c].pc # "none",
           w.pc \in {"stopping", "closed"} => w.left = 0
    PROVE  /\ UnspentOK' /\ WindowOK'
           /\ outstanding' \in SUBSET Codes /\ left' \in [Codes -> 0..TTL]
           /\ opening' \in SUBSET Codes /\ window' \in [Codes -> Window]
           /\ admitted' \in [Codes -> Nat]
  BY DEF PairInv, PairTypeOK, UnspentOK, WindowOK

(* Every step preserves the invariant. *)
LEMMA PairNextInv == PairInv /\ [PairNext]_pairVars => PairInv'
<1> SUFFICES ASSUME PairInv, [PairNext]_pairVars PROVE PairInv'
  OBVIOUS
<1> USE PairAssumption
<1>1. CASE Tick
  <2>1. ASSUME NEW c \in Codes
        PROVE  [window[c] EXCEPT !.left = @ - 1] \in Window \/ ~(window[c].left > 0)
    BY WindowEdits DEF PairInv, PairTypeOK
  <2>2. window' \in [Codes -> Window]
    BY <1>1, <2>1 DEF PairInv, PairTypeOK, Tick
  <2>3. left' \in [Codes -> 0..TTL]
    BY <1>1 DEF PairInv, PairTypeOK, Tick
  <2>4. PairTypeOK'
    BY <1>1, <2>2, <2>3 DEF PairInv, PairTypeOK, Tick
  <2>5. ASSUME NEW c \in Codes
        PROVE  /\ window'[c].pc = window[c].pc /\ window'[c].timer = window[c].timer
               /\ window'[c].left = IF window[c].left > 0 THEN window[c].left - 1
                                    ELSE window[c].left
               /\ window[c].left = 0 => window'[c] = window[c]
    BY <1>1 DEF PairInv, PairTypeOK, Tick, Window
  <2>6. OneWindow'
    BY <1>1, <2>5 DEF PairInv, OneWindow, Tick
  <2>7. WindowOK'
    <3> SUFFICES ASSUME NEW c \in Codes
                 PROVE  /\ window'[c].pc # "none" => left'[c] <= window'[c].left
                        /\ window'[c].timer # "none" => window'[c].pc # "none"
                        /\ window'[c].pc \in {"stopping", "closed"} => window'[c].left = 0
                        /\ c \in opening' => window'[c] = NoWindow
      BY DEF WindowOK
    <3>1. left[c] \in Nat /\ window[c].left \in Nat
      BY DEF PairInv, PairTypeOK, Window
    <3>2. left'[c] = IF left[c] > 0 THEN left[c] - 1 ELSE 0
      BY <1>1 DEF Tick, PairInv, PairTypeOK
    <3>3. opening' = opening
      BY <1>1 DEF Tick
    <3>4. NoWindow.left = 0
      BY DEF NoWindow
    <3> QED
      BY <2>5, <3>1, <3>2, <3>3, <3>4 DEF PairInv, WindowOK
  <2>8. UnspentOK'
    BY <1>1 DEF PairInv, UnspentOK, Tick
  <2> QED
    BY <2>4, <2>6, <2>7, <2>8 DEF PairInv
<1>2. ASSUME NEW c \in Codes, Issue(c) PROVE PairInv'
  <2>1. NoWindow \in Window
    BY DEF Window, NoWindow
  <2>2. PairTypeOK'
    BY <1>2, <2>1 DEF Issue, PairInv, PairTypeOK
  <2>3. OneWindow'
    BY <1>2 DEF Issue, PairInv, PairTypeOK, OneWindow, IsSpent, NoWindow
  <2>4. UnspentOK'
    BY <1>2 DEF Issue, PairInv, PairTypeOK, UnspentOK
  <2>5. WindowOK'
    BY <1>2 DEF Issue, PairInv, PairTypeOK, WindowOK, NoWindow
  <2> QED
    BY <2>2, <2>3, <2>4, <2>5 DEF PairInv
<1>3. ASSUME NEW c \in Codes, OpenWindow(c) PROVE PairInv'
  <2>1. [pc |-> "starting", left |-> TTL, timer |-> "running"] \in Window
    BY DEF Window
  <2>2. PairTypeOK'
    BY <1>3, <2>1 DEF OpenWindow, PairInv, PairTypeOK
  <2>3. OneWindow'
    BY <1>3 DEF OpenWindow, PairInv, PairTypeOK, OneWindow
  <2>4. UnspentOK'
    BY <1>3 DEF OpenWindow, PairInv, UnspentOK
  <2>5. WindowOK'
    BY <1>3 DEF OpenWindow, PairInv, PairTypeOK, WindowOK
  <2> QED
    BY <2>2, <2>3, <2>4, <2>5 DEF PairInv
<1>4. ASSUME NEW c \in Codes, BindWindow(c) PROVE PairInv'
  <2> DEFINE s == IF \E o \in Codes \ {c} : HoldsPort(o) THEN "failed" ELSE "bound"
             w == [window[c] EXCEPT !.pc = s]
  <2>1. window[c] \in Window /\ window[c].pc = "starting"
    BY <1>4 DEF BindWindow, PairInv, PairTypeOK
  <2>2. s \in {"failed", "bound"}
    OBVIOUS
  <2>3. w \in Window
    BY <2>1, <2>2, WindowEdits
  <2>4. w.left = window[c].left /\ w.pc = s /\ w.timer = window[c].timer
    BY <2>1 DEF Window
  <2>5. window' = [window EXCEPT ![c] = w]
    BY <1>4 DEF BindWindow
  <2> HIDE DEF w
  <2>6. c \notin opening
    BY <2>1 DEF PairInv, WindowOK, NoWindow
  <2>7. active' = active /\ UNCHANGED <<outstanding, left, opening, admitted>>
    BY <1>4 DEF BindWindow
  <2>8. OneWindow'
    BY <2>4, <2>5, <2>7 DEF PairInv, PairTypeOK, OneWindow
  <2> QED
    BY <2>1, <2>2, <2>3, <2>4, <2>5, <2>6, <2>7, <2>8, WindowChange DEF PairInv, PairTypeOK
<1>5. ASSUME NEW c \in Codes, StopWindow(c) PROVE PairInv'
  <2> DEFINE w == [window[c] EXCEPT !.pc = "closed"]
  <2>1. window[c] \in Window /\ window[c].pc = "stopping"
    BY <1>5 DEF StopWindow, PairInv, PairTypeOK
  <2>2. w \in Window
    BY <2>1, WindowEdits
  <2>3. w.left = window[c].left /\ w.pc = "closed" /\ w.timer = window[c].timer
    BY <2>1 DEF Window
  <2>4. window' = [window EXCEPT ![c] = w]
    BY <1>5 DEF StopWindow
  <2> HIDE DEF w
  <2>5. c \notin opening
    BY <2>1 DEF PairInv, WindowOK, NoWindow
  <2>6. w.left = 0
    BY <2>1, <2>3 DEF PairInv, WindowOK
  <2>7. active' = active /\ UNCHANGED <<outstanding, left, opening, admitted>>
    BY <1>5 DEF StopWindow
  <2>8. OneWindow'
    BY <2>3, <2>4, <2>7 DEF PairInv, PairTypeOK, OneWindow
  <2> QED
    BY <2>1, <2>2, <2>3, <2>4, <2>5, <2>6, <2>7, <2>8, WindowChange DEF PairInv, PairTypeOK
<1>6. ASSUME NEW c \in Codes, Shutdown(c) PROVE PairInv'
  <2> DEFINE s == IF window[c].pc = "bound" THEN "stopping" ELSE "closed"
             w == [window[c] EXCEPT !.timer = "fired", !.pc = s]
  <2>1. window[c] \in Window /\ window[c].timer = "running" /\ window[c].left = 0
    <3>1. window[c].timer = "running" /\ window[c].left = 0
      BY <1>6 DEF Shutdown
    <3> QED
      BY <3>1 DEF PairInv, PairTypeOK
  <2>2. s \in {"stopping", "closed"}
    OBVIOUS
  <2>3. w \in Window
    BY <2>1, <2>2, WindowEdits
  <2>4. w.left = window[c].left /\ w.pc = s /\ w.timer = "fired"
    BY <2>1 DEF Window
  <2>5. window' = [window EXCEPT ![c] = w]
    BY <1>6, <2>1 DEF Shutdown, Window
  <2> HIDE DEF w
  <2>6. active' = active /\ UNCHANGED <<outstanding, left, opening, admitted>>
    BY <1>6 DEF Shutdown
  <2>7. c \notin opening
    BY <2>1 DEF PairInv, WindowOK, NoWindow
  <2>8. OneWindow'
    BY <2>1, <2>4, <2>5, <2>6 DEF PairInv, PairTypeOK, OneWindow
  <2>9. WindowOK'
    BY <2>1, <2>2, <2>4, <2>5, <2>6, <2>7 DEF PairInv, PairTypeOK, WindowOK, Window
  <2>10. UnspentOK' /\ PairTypeOK'
    BY <2>3, <2>5, <2>6 DEF PairInv, UnspentOK, PairTypeOK
  <2> QED
    BY <2>8, <2>9, <2>10 DEF PairInv
<1>7. ASSUME NEW c \in Codes, ClearHandle(c) PROVE PairInv'
  <2> DEFINE w == [window[c] EXCEPT !.timer = "none"]
  <2>1. window[c] \in Window /\ window[c].timer = "fired"
    <3>1. window[c].timer = "fired"
      BY <1>7 DEF ClearHandle
    <3> QED
      BY <3>1 DEF PairInv, PairTypeOK
  <2>2. w \in Window
    BY <2>1, WindowEdits
  <2>3. w.left = window[c].left /\ w.pc = window[c].pc /\ w.timer = "none"
    BY <2>1 DEF Window
  <2>4. window' = [window EXCEPT ![c] = w]
    BY <1>7 DEF ClearHandle
  <2> HIDE DEF w
  <2>5. active' = NoCode /\ UNCHANGED <<outstanding, left, opening, admitted>>
    BY <1>7 DEF ClearHandle
  <2>6. c \notin opening
    BY <2>1 DEF PairInv, WindowOK, NoWindow
  <2>7. OneWindow'
    BY <2>1, <2>3, <2>4, <2>5 DEF PairInv, PairTypeOK, OneWindow
  <2>8. WindowOK'
    BY <2>3, <2>4, <2>5, <2>6 DEF PairInv, PairTypeOK, WindowOK
  <2>9. UnspentOK' /\ PairTypeOK'
    BY <2>2, <2>4, <2>5 DEF PairInv, UnspentOK, PairTypeOK
  <2> QED
    BY <2>7, <2>8, <2>9 DEF PairInv
<1>8. ASSUME NEW c \in Codes, Redeem(c) PROVE PairInv'
  BY <1>8 DEF Redeem, PairInv, PairTypeOK, OneWindow, UnspentOK, WindowOK
<1>9. CASE UNCHANGED pairVars
  BY <1>9 DEF pairVars, PairInv, PairTypeOK, OneWindow, UnspentOK, WindowOK
<1> QED
  BY <1>1, <1>2, <1>3, <1>4, <1>5, <1>6, <1>7, <1>8, <1>9 DEF PairNext, WindowStep

(* The invariant holds in every reachable state. *)
THEOREM PairInvariance == PairSpec => []PairInv
  BY PairInitInv, PairNextInv, PTL DEF PairSpec

(* Every reachable state of the pairing windows is well typed. *)
THEOREM PairTypeCorrect == PairSpec => []PairTypeOK
<1>1. PairInv => PairTypeOK
  BY DEF PairInv
<1> QED
  BY <1>1, PairInvariance, PTL

(* No code ever lets two joiners in. *)
THEOREM CodesAreSingleUse == PairSpec => []SingleUse
<1>1. PairInv => SingleUse
  BY DEF PairInv, UnspentOK, SingleUse
<1> QED
  BY <1>1, PairInvariance, PTL

(* Windows never stack, and no timeout clears another window's handle. *)
THEOREM WindowsDoNotStack == PairSpec => []OneWindow
<1>1. PairInv => OneWindow
  BY DEF PairInv
<1> QED
  BY <1>1, PairInvariance, PTL

(* A window is never shut down while the code it was opened for is valid. *)
THEOREM WindowOutlivesCode == PairSpec => []OpenerIsServed
<1>1. PairInv => OpenerIsServed
  <2> SUFFICES ASSUME PairInv, NEW c \in Codes, Valid(c),
                      window[c].pc \in {"stopping", "closed"}
               PROVE  FALSE
    BY DEF OpenerIsServed
  <2> QED
    BY DEF PairInv, PairTypeOK, WindowOK, Valid
<1> QED
  BY <1>1, PairInvariance, PTL

(* A window that has not been shut down has a timeout that will do it, and  *)
(* so has the handle.                                                       *)
TimedOK ==
    /\ \A c \in Codes : window[c].pc \in {"starting", "bound"} => window[c].timer = "running"
    /\ active # NoCode => window[active].timer # "none"

LEMMA TimedStep == PairInv /\ TimedOK /\ [PairNext]_pairVars => TimedOK'
<1> SUFFICES ASSUME PairInv, TimedOK, [PairNext]_pairVars PROVE TimedOK'
  OBVIOUS
<1> USE PairAssumption
<1>1. CASE Tick
  <2>1. active' = active /\ \A c \in Codes : window'[c].pc = window[c].pc /\ window'[c].timer = window[c].timer
    BY <1>1 DEF PairInv, PairTypeOK, Tick, Window
  <2> QED
    BY <2>1 DEF TimedOK, PairInv, PairTypeOK
<1>2. ASSUME NEW c \in Codes, Issue(c) PROVE TimedOK'
  BY <1>2 DEF Issue, PairInv, PairTypeOK, TimedOK, IsSpent, NoWindow
<1>3. ASSUME NEW c \in Codes, OpenWindow(c) PROVE TimedOK'
  BY <1>3 DEF OpenWindow, PairInv, PairTypeOK, TimedOK
<1>4. ASSUME NEW c \in Codes, NEW w \in Window, window' = [window EXCEPT ![c] = w],
             w.timer # "none" \/ (w.timer = window[c].timer), active' = active,
             w.pc \in {"starting", "bound"} => w.timer = "running"
      PROVE  TimedOK'
  BY <1>4 DEF PairInv, PairTypeOK, TimedOK
<1>5. ASSUME NEW c \in Codes, BindWindow(c) PROVE TimedOK'
  <2>1. PICK s \in {"failed", "bound"} : window' = [window EXCEPT ![c].pc = s]
    BY <1>5 DEF BindWindow
  <2> DEFINE w == [window[c] EXCEPT !.pc = s]
  <2>2. window[c] \in Window /\ window[c].timer = "running"
    BY <1>5 DEF BindWindow, PairInv, PairTypeOK, TimedOK
  <2>3. w \in Window /\ w.timer = "running" /\ window' = [window EXCEPT ![c] = w]
    BY <2>1, <2>2 DEF Window
  <2> QED
    BY <1>4, <1>5, <2>3 DEF BindWindow
<1>6. ASSUME NEW c \in Codes, StopWindow(c) \/ Shutdown(c) PROVE TimedOK'
  <2>1. PICK s \in {"stopping", "closed"}, t \in {window[c].timer, "fired"} :
           window' = [window EXCEPT ![c] = [@ EXCEPT !.timer = t, !.pc = s]]
    BY <1>6 DEF StopWindow, Shutdown, PairInv, PairTypeOK, Window
  <2> DEFINE w == [window[c] EXCEPT !.timer = t, !.pc = s]
  <2>2. window[c] \in Window
    BY DEF PairInv, PairTypeOK
  <2>3. w \in Window /\ w.timer = t /\ w.pc = s /\ window' = [window EXCEPT ![c] = w]
    BY <2>1, <2>2 DEF Window
  <2> QED
    BY <1>4, <1>6, <2>3 DEF StopWindow, Shutdown
<1>7. ASSUME NEW c \in Codes, ClearHandle(c) PROVE TimedOK'
  BY <1>7 DEF ClearHandle, PairInv, PairTypeOK, TimedOK, Window
<1>8. ASSUME NEW c \in Codes, Redeem(c) PROVE TimedOK'
  BY <1>8 DEF Redeem, TimedOK
<1>9. CASE UNCHANGED pairVars
  BY <1>9 DEF pairVars, TimedOK
<1> QED
  BY <1>1, <1>2, <1>3, <1>5, <1>6, <1>7, <1>8, <1>9 DEF PairNext, WindowStep

(* The safety half of WindowsClose: whatever codes are issued and redeemed  *)
(* meanwhile, a listener without client authentication takes requests only  *)
(* in the one window that active_handle names, for no longer than a code    *)
(* lives, and while a timeout runs that will shut it down; and no handle is *)
(* left without one that will clear it.                                     *)
StrangersAreTimed ==
    /\ \A c \in Codes : Serving(c) => active = c /\ window[c].timer = "running" /\ window[c].left \in 0..TTL
    /\ active # NoCode => window[active].timer # "none"
THEOREM NoWindowIsForgotten == PairSpec => []StrangersAreTimed
<1>1. PairInit => TimedOK
  BY DEF PairInit, TimedOK, NoWindow
<1>2. PairInv /\ TimedOK => StrangersAreTimed
  BY DEF PairInv, PairTypeOK, OneWindow, TimedOK, Serving, Window, StrangersAreTimed
<1> QED
  BY <1>1, <1>2, TimedStep, PairInvariance, PTL DEF PairSpec

-----------------------------------------------------------------------------
(* The registry of tag namespaces                                          *)

SetSpec == SetInit /\ [][SetNext]_setVars

(* What is stored from elsewhere is stored by a push or a pull. *)
Arrivals == {"push", "pull"}
Storing == [pc : {"idle", "fetch", "value", "stamp"}, value : Registries, stamp : Nat, from : Devices \cup {NoOne}]

(* A save has its registry from the start, only a pull fetches one, and    *)
(* every stamp there is was given by a save.                               *)
StoresOK ==
    \A d \in Devices :
      /\ store[d]["save"].pc \in {"idle", "stamp"}
      /\ store[d]["push"].pc # "fetch"
      /\ store[d]["pull"].pc = "fetch" => store[d]["pull"].from \in Devices
Given(s) == s \in used \cup {0}
StampsOK ==
    /\ \A d \in Devices : Given(stamp[d]) /\ \A k \in Stores : Given(store[d][k].stamp)
    /\ \A m \in sent : Given(m.stamp)

(* val says which registry a stamp names.  What goes under a stamp is that *)
(* registry, on a device, on its way or about to be stored, unless the     *)
(* stamp is mixed.                                                         *)
Obeys(val, value, s) == s \in mixed \/ value = val[s]
Names(val) ==
    /\ \A d \in Devices : Settled(d) => Obeys(val, registry[d], stamp[d])
    /\ \A d \in Devices, k \in Arrivals :
         /\ store[d][k].pc = "value" => Obeys(val, store[d][k].value, store[d][k].stamp)
         /\ store[d][k].pc = "stamp" => Obeys(val, registry[d], store[d][k].stamp)
    /\ \A m \in sent : Obeys(val, m.value, m.stamp)

(* The inductive invariant. *)
SetInv == SetTypeOK /\ StoresOK /\ StampsOK /\ \E val \in [Nat -> Registries] : Names(val)

(* The initial state satisfies the invariant. *)
LEMMA SetInitInv == SetInit => SetInv
<1> SUFFICES ASSUME SetInit PROVE SetInv
  OBVIOUS
<1> USE RegistriesAssumption
<1>1. SetTypeOK
  BY DEF SetInit, SetTypeOK, Nothing, NoPush, Stores
<1>2. StoresOK /\ StampsOK
  BY DEF SetInit, StoresOK, StampsOK, Given, Nothing, Stores
<1>3. Names([s \in Nat |-> Default])
  BY DEF SetInit, Names, Obeys, Nothing, Stores, Arrivals
<1>4. [s \in Nat |-> Default] \in [Nat -> Registries]
  OBVIOUS
<1> QED
  BY <1>1, <1>2, <1>3, <1>4 DEF SetInv

(* What a device stores changes at one place. *)
LEMMA DoesChange ==
    ASSUME SetTypeOK, NEW d \in Devices, NEW k \in Stores, NEW r \in Storing, Does(d, k, r)
    PROVE  /\ store' \in [Devices -> [Stores -> Storing]]
           /\ store'[d][k] = r
           /\ \A e \in Devices, j \in Stores : e # d \/ j # k => store'[e][j] = store[e][j]
  BY DEF SetTypeOK, Does, Storing

(* The records a device may come to store. *)
LEMMA StoringRecords ==
    /\ Nothing \in Storing
    /\ [Nothing EXCEPT !.pc = "stamp"] \in Storing
    /\ \A s \in Nat : [Nothing EXCEPT !.pc = "stamp", !.stamp = s] \in Storing
    /\ \A v \in Registries, s \in Nat : [Nothing EXCEPT !.pc = "value", !.value = v, !.stamp = s] \in Storing
    /\ \A s \in Nat, e \in Devices : [Nothing EXCEPT !.pc = "fetch", !.stamp = s, !.from = e] \in Storing
  BY RegistriesAssumption DEF Nothing, Storing

(* What holds between the two statements of somebody else is not lost by a *)
(* step that leaves the registries, the stamps and the messages, and       *)
(* stores only what goes under its stamp.                                  *)
LEMMA StoreOnly ==
    ASSUME SetInv, NEW d \in Devices, NEW k \in Arrivals, NEW r \in Storing, Does(d, k, r),
           NEW stamps \in SUBSET ({0} \cup Stamps), Mixes(stamps),
           pusher' \in [Devices -> [pc : {"idle", "due", "read"}, value : Registries]],
           sent' \subseteq sent, saves' = saves, used' = used, UNCHANGED <<registry, stamp>>,
           store[d][k].pc # "stamp", r.pc # "stamp", Given(r.stamp),
           r.pc = "fetch" => k = "pull" /\ r.from \in Devices,
           \A val \in [Nat -> Registries] :
             Names(val) /\ r.pc = "value" => r.stamp \in mixed' \/ r.value = val[r.stamp]
    PROVE  SetInv'
<1>1. PICK val \in [Nat -> Registries] : Names(val)
  BY DEF SetInv
<1>2. k \in Stores /\ SetTypeOK
  BY DEF Arrivals, Stores, SetInv
<1>3. /\ store' \in [Devices -> [Stores -> Storing]] /\ store'[d][k] = r
      /\ \A e \in Devices, j \in Stores : e # d \/ j # k => store'[e][j] = store[e][j]
  BY <1>2, DoesChange
<1>4. SetTypeOK'
  BY <1>2, <1>3 DEF SetTypeOK, Storing, Mixes
<1>5. StoresOK' /\ StampsOK'
  <2>1. ASSUME NEW e \in Devices, NEW j \in Stores
        PROVE  store'[e][j] = store[e][j] \/ (e = d /\ j = k /\ store'[e][j] = r)
    BY <1>3
  <2>2. StoresOK'
    <3>1. "save" \in Stores /\ "push" \in Stores /\ "pull" \in Stores /\ k # "save"
      BY DEF Stores, Arrivals
    <3>2. StoresOK
      BY DEF SetInv
    <3> QED
      BY <2>1, <3>1, <3>2 DEF StoresOK
  <2>3. StampsOK /\ \A s : Given(s)' <=> Given(s)
    BY DEF SetInv, Given
  <2>4. StampsOK'
    BY <2>1, <2>3 DEF StampsOK
  <2> QED
    BY <2>2, <2>4
<1>6. \A e \in Devices : Settled(e)' = Settled(e)
  BY <1>2, <1>3 DEF Settled
<1>7. Names(val)'
  <2>1. \A v, s : Obeys(val, v, s) => Obeys(val, v, s)'
    BY DEF Obeys, Mixes
  <2>2. ASSUME NEW e \in Devices, NEW j \in Arrivals
        PROVE  store'[e][j] = store[e][j] \/ (e = d /\ j = k /\ store'[e][j] = r)
    BY <1>3 DEF Arrivals, Stores
  <2>3. \A e \in Devices : Settled(e)' => Obeys(val, registry[e], stamp[e])'
    BY <1>1, <1>6, <2>1 DEF Names
  <2>4. r.pc = "value" => Obeys(val, r.value, r.stamp)'
    BY <1>1 DEF Obeys
  <2>5. ASSUME NEW e \in Devices, NEW j \in Arrivals
        PROVE  /\ store'[e][j].pc = "value" => Obeys(val, store[e][j].value, store[e][j].stamp)'
               /\ store'[e][j].pc = "stamp" => Obeys(val, registry[e], store[e][j].stamp)'
    <3>1. CASE store'[e][j] = store[e][j]
      BY <1>1, <2>1, <3>1 DEF Names
    <3>2. CASE store'[e][j] = r
      BY <2>4, <3>2
    <3> QED
      BY <2>2, <3>1, <3>2
  <2>6. \A m \in sent' : Obeys(val, m.value, m.stamp)'
    BY <1>1, <2>1 DEF Names
  <2> QED
    BY <2>3, <2>5, <2>6 DEF Names
<1> QED
  BY <1>1, <1>4, <1>5, <1>7 DEF SetInv

(* Every step preserves the invariant. *)
LEMMA ReceiveInv == ASSUME SetInv, NEW d \in Devices, Receive(d) PROVE SetInv'
<1>1. PICK m \in sent :
        /\ m.to = d /\ sent' = sent \ {m}
        /\ IF Newer(m.stamp, d)
           THEN Does(d, "push", [Nothing EXCEPT !.pc = "value", !.value = m.value, !.stamp = m.stamp])
           ELSE UNCHANGED store
  BY DEF Receive
<1>2. m.stamp \in Nat /\ m.value \in Registries /\ Given(m.stamp)
  BY DEF SetInv, SetTypeOK, StampsOK
<1>3. CASE Newer(m.stamp, d)
  <2> DEFINE r == [Nothing EXCEPT !.pc = "value", !.value = m.value, !.stamp = m.stamp]
  <2>1. r \in Storing /\ r.pc = "value" /\ r.value = m.value /\ r.stamp = m.stamp
    BY <1>2, StoringRecords DEF Nothing
  <2>2. \A val \in [Nat -> Registries] : Names(val) => m.stamp \in mixed \/ m.value = val[m.stamp]
    BY DEF Names, Obeys
  <2>3. Does(d, "push", r) /\ Mixes({}) /\ store[d]["push"].pc # "stamp"
    BY <1>1, <1>3 DEF Receive, Mixes
  <2> HIDE DEF r
  <2>4. UNCHANGED <<registry, stamp, pusher, saves, used, mixed>> /\ sent' \subseteq sent
    BY <1>1 DEF Receive
  <2>5. pusher' \in [Devices -> [pc : {"idle", "due", "read"}, value : Registries]]
    BY <2>4 DEF SetInv, SetTypeOK
  <2>6. "push" \in Arrivals /\ {} \in SUBSET ({0} \cup Stamps)
    BY DEF Arrivals
  <2> QED
    BY <1>2, <2>1, <2>2, <2>3, <2>4, <2>5, <2>6, StoreOnly
<1>4. CASE ~Newer(m.stamp, d)
  <2>1. UNCHANGED <<registry, stamp, store, pusher, saves, used, mixed>> /\ sent' \subseteq sent
    BY <1>1, <1>4 DEF Receive
  <2>2. \A e \in Devices : Settled(e)' = Settled(e)
    BY <2>1 DEF Settled
  <2>3. \A val \in [Nat -> Registries] : Names(val) => Names(val)'
    BY <2>1, <2>2 DEF Names, Obeys
  <2> QED
    BY <2>1, <2>3 DEF SetInv, SetTypeOK, StoresOK, StampsOK, Given
<1> QED
  BY <1>3, <1>4

LEMMA PullInv == ASSUME SetInv, NEW d \in Devices, NEW e \in Devices, Pull(d, e) PROVE SetInv'
<1> DEFINE r == [Nothing EXCEPT !.pc = "fetch", !.stamp = stamp[e], !.from = e]
<1>1. stamp[e] \in Nat /\ Given(stamp[e])
  BY DEF SetInv, SetTypeOK, StampsOK
<1>2. r \in Storing /\ r.pc = "fetch" /\ r.stamp = stamp[e] /\ r.from = e
  BY <1>1, StoringRecords DEF Nothing
<1>3. Does(d, "pull", r) /\ Mixes({}) /\ store[d]["pull"].pc # "stamp"
  BY DEF Pull, Mixes
<1> HIDE DEF r
<1> QED
  BY <1>1, <1>2, <1>3, StoreOnly DEF Pull, SetInv, SetTypeOK, Arrivals

LEMMA FetchInv == ASSUME SetInv, NEW d \in Devices, Fetch(d) PROVE SetInv'
<1> DEFINE pull == store[d]["pull"]
           r == [Nothing EXCEPT !.pc = "value", !.value = registry[pull.from], !.stamp = pull.stamp]
           stamps == IF Settled(pull.from) /\ stamp[pull.from] = pull.stamp THEN {} ELSE {pull.stamp}
<1>1. pull.stamp \in Nat /\ Given(pull.stamp) /\ pull.from \in Devices /\ registry[pull.from] \in Registries
  BY DEF SetInv, SetTypeOK, StampsOK, StoresOK, Stores, Fetch
<1>2. r \in Storing /\ r.pc = "value" /\ r.stamp = pull.stamp /\ r.value = registry[pull.from]
  BY <1>1, StoringRecords DEF Nothing
<1>3. Does(d, "pull", r) /\ Mixes(stamps) /\ pull.pc # "stamp"
  BY DEF Fetch
<1>4. stamps \in SUBSET ({0} \cup Stamps)
  BY <1>1 DEF Given, SetInv, SetTypeOK
<1>5. \A val \in [Nat -> Registries] : Names(val) => r.stamp \in mixed' \/ r.value = val[r.stamp]
  BY <1>1, <1>2, <1>3 DEF Names, Obeys, Mixes
<1> HIDE DEF r, stamps, pull
<1>6. UNCHANGED <<registry, stamp, pusher, sent, saves, used>>
  BY DEF Fetch
<1> QED
  BY <1>1, <1>2, <1>3, <1>4, <1>5, <1>6, StoreOnly DEF SetInv, SetTypeOK, Arrivals, pull

LEMMA FetchFailsInv == ASSUME SetInv, NEW d \in Devices, FetchFails(d) PROVE SetInv'
<1>1. Nothing \in Storing /\ Nothing.pc = "idle" /\ Nothing.stamp = 0
  BY StoringRecords DEF Nothing
<1>2. Does(d, "pull", Nothing) /\ Mixes({}) /\ store[d]["pull"].pc # "stamp"
  BY DEF FetchFails, Mixes
<1> QED
  BY <1>1, <1>2, StoreOnly DEF FetchFails, SetInv, SetTypeOK, Arrivals, Given

LEMMA PushInv == ASSUME SetInv, NEW d \in Devices, PushRead(d) \/ PushSend(d) PROVE SetInv'
<1>1. \A e \in Devices : Settled(e)' = Settled(e)
  BY DEF PushRead, PushSend, Settled
<1>2. CASE PushRead(d)
  <2>1. SetTypeOK' /\ StoresOK' /\ StampsOK'
    BY <1>2 DEF PushRead, SetInv, SetTypeOK, StoresOK, StampsOK, Given
  <2>2. \A val \in [Nat -> Registries] : Names(val) => Names(val)'
    BY <1>1, <1>2 DEF PushRead, Names, Obeys
  <2> QED
    BY <2>1, <2>2 DEF SetInv
<1>3. CASE PushSend(d)
  <2>1. PICK online \in SUBSET (Devices \ {d}) :
          sent' = sent \cup {[to |-> e, value |-> pusher[d].value, stamp |-> stamp[d]] : e \in online}
    BY <1>3 DEF PushSend
  <2>2. stamp[d] \in {0} \cup Stamps /\ Given(stamp[d])
    BY DEF SetInv, SetTypeOK, StampsOK, Given
  <2>3. SetTypeOK'
    <3>1. sent' \subseteq [to : Devices, value : Registries, stamp : Nat]
      BY <2>1 DEF SetInv, SetTypeOK
    <3>2. NoPush \in [pc : {"idle", "due", "read"}, value : Registries]
      BY RegistriesAssumption DEF NoPush
    <3>3. pusher' \in [Devices -> [pc : {"idle", "due", "read"}, value : Registries]]
      BY <1>3, <3>2 DEF PushSend, SetInv, SetTypeOK
    <3>4. mixed' \subseteq {0} \cup Stamps
      BY <1>3, <2>2 DEF PushSend, SetInv, SetTypeOK, Mixes
    <3> QED
      BY <1>3, <3>1, <3>3, <3>4 DEF PushSend, SetInv, SetTypeOK
  <2>4. StoresOK' /\ StampsOK'
    BY <1>3, <2>1, <2>2 DEF PushSend, SetInv, StoresOK, StampsOK, Given
  <2>5. ASSUME NEW val \in [Nat -> Registries], Names(val) PROVE Names(val)'
    <3>1. pusher[d].value \in Registries /\ UNCHANGED <<registry, stamp, store>> /\ mixed \subseteq mixed'
      BY <1>3 DEF PushSend, Mixes, SetInv, SetTypeOK
    <3>2. stamp[d] \in mixed' \/ pusher[d].value = val[stamp[d]]
      BY <1>3, <2>5 DEF PushSend, Mixes, Names, Obeys
    <3> QED
      BY <1>1, <2>1, <2>5, <3>1, <3>2 DEF Names, Obeys
  <2> QED
    BY <2>3, <2>4, <2>5 DEF SetInv
<1> QED
  BY <1>2, <1>3

(* A registry is replaced on a device: by a save, by what arrived, or by    *)
(* hand.  What others have yet to put under their stamps there is mixed.    *)
LEMMA RegistryChange ==
    ASSUME SetInv, NEW d \in Devices, NEW k \in Stores, NEW r \in Storing, Does(d, k, r),
           NEW value \in Registries, registry' = [registry EXCEPT ![d] = value],
           NEW stamps \in SUBSET ({0} \cup Stamps), Mixes(stamps), Pledged(d, k) \subseteq stamps,
           UNCHANGED <<stamp, pusher, sent, used>>, saves' \in 0..MaxSaves,
           r.pc \in {"idle", "stamp"}, Given(r.stamp), r.pc = "stamp" \/ stamp[d] \in stamps,
           \A val \in [Nat -> Registries] :
             Names(val) /\ k \in Arrivals /\ r.pc = "stamp" => r.stamp \in mixed' \/ value = val[r.stamp]
    PROVE  SetInv'
<1>1. PICK val \in [Nat -> Registries] : Names(val)
  BY DEF SetInv
<1>2. SetTypeOK /\ StoresOK /\ StampsOK
  BY DEF SetInv
<1>3. /\ store' \in [Devices -> [Stores -> Storing]] /\ store'[d][k] = r
      /\ \A e \in Devices, j \in Stores : e # d \/ j # k => store'[e][j] = store[e][j]
  BY <1>2, DoesChange
<1>4. /\ registry' \in [Devices -> Registries] /\ registry'[d] = value
      /\ \A e \in Devices : e # d => registry'[e] = registry[e]
  BY <1>2 DEF SetTypeOK
<1>5. SetTypeOK'
  BY <1>2, <1>3, <1>4 DEF SetTypeOK, Storing, Mixes
<1>6. StoresOK' /\ StampsOK'
  <2>1. ASSUME NEW e \in Devices, NEW j \in Stores
        PROVE  store'[e][j] = store[e][j] \/ (e = d /\ j = k /\ store'[e][j] = r)
    BY <1>3
  <2>2. "save" \in Stores /\ "push" \in Stores /\ "pull" \in Stores
    BY DEF Stores
  <2>3. StoresOK'
    BY <1>2, <2>1, <2>2 DEF StoresOK
  <2>4. \A s : Given(s)' <=> Given(s)
    BY DEF Given
  <2>5. StampsOK'
    BY <1>2, <2>1, <2>4 DEF StampsOK
  <2> QED
    BY <2>3, <2>5
<1>7. \A e \in Devices : e # d => Settled(e)' = Settled(e)
  BY <1>3 DEF Settled
<1>8. Settled(d)' => r.pc # "stamp"
  BY <1>3 DEF Settled
<1>9. mixed' = mixed \cup stamps
  BY DEF Mixes
<1>10. ASSUME NEW e \in Devices, Settled(e)' PROVE Obeys(val, registry[e], stamp[e])'
  BY <1>1, <1>4, <1>7, <1>8, <1>9, <1>10 DEF Names, Obeys
<1>11. ASSUME NEW e \in Devices, NEW j \in Arrivals
       PROVE  /\ (store[e][j].pc = "value" => Obeys(val, store[e][j].value, store[e][j].stamp))'
              /\ (store[e][j].pc = "stamp" => Obeys(val, registry[e], store[e][j].stamp))'
  <2>1. j \in Stores /\ j # "save"
    BY DEF Arrivals, Stores
  <2>2. CASE e = d /\ j = k
    BY <1>1, <1>3, <1>4, <1>9, <2>1, <2>2 DEF Obeys
  <2>3. CASE e = d /\ j # k
    <3>1. store'[e][j] = store[e][j]
      BY <1>3, <2>1, <2>3
    <3>2. store[e][j].pc = "stamp" => store[e][j].stamp \in mixed'
      BY <1>9, <2>1, <2>3 DEF Pledged
    <3> QED
      BY <1>1, <1>9, <3>1, <3>2 DEF Names, Obeys
  <2>4. CASE e # d
    BY <1>1, <1>3, <1>4, <1>9, <2>1, <2>4 DEF Names, Obeys
  <2> QED
    BY <2>2, <2>3, <2>4
<1>12. \A m \in sent : Obeys(val, m.value, m.stamp)'
  BY <1>1, <1>9 DEF Names, Obeys
<1>13. Names(val)'
  BY <1>10, <1>11, <1>12 DEF Names
<1> QED
  BY <1>1, <1>5, <1>6, <1>13 DEF SetInv

(* The stamps of what is under way were given. *)
LEMMA PledgedGiven == ASSUME SetInv, NEW d \in Devices, NEW k \in Stores PROVE Pledged(d, k) \in SUBSET ({0} \cup Stamps)
  BY DEF SetInv, SetTypeOK, StampsOK, Given, Pledged

LEMMA SaveRegistryInv == ASSUME SetInv, NEW d \in Devices, NEW value \in Bodies, SaveRegistry(d, value) PROVE SetInv'
<1> DEFINE r == [Nothing EXCEPT !.pc = "stamp"]
<1>1. r \in Storing /\ r.pc = "stamp" /\ r.stamp = 0
  BY StoringRecords DEF Nothing
<1>2. /\ value \in Registries /\ registry' = [registry EXCEPT ![d] = value] /\ Does(d, "save", r)
      /\ Mixes(Pledged(d, "save")) /\ UNCHANGED <<stamp, pusher, sent, used>>
  BY DEF SaveRegistry, WellFormed
<1>3. saves' \in 0..MaxSaves
  BY RegistriesAssumption DEF SaveRegistry, SetInv, SetTypeOK
<1>4. "save" \in Stores /\ "save" \notin Arrivals /\ Given(0)
  BY DEF Stores, Arrivals, Given
<1> HIDE DEF r
<1> QED
  BY <1>1, <1>2, <1>3, <1>4, PledgedGiven, RegistryChange

LEMMA StoreValueInv == ASSUME SetInv, NEW d \in Devices, NEW k \in Stores, StoreValue(d, k) PROVE SetInv'
<1> DEFINE r == [Nothing EXCEPT !.pc = "stamp", !.stamp = store[d][k].stamp]
           value == store[d][k].value
<1>1. k \in Arrivals /\ value \in Registries /\ store[d][k].stamp \in Nat /\ Given(store[d][k].stamp)
  BY DEF StoreValue, SetInv, SetTypeOK, StoresOK, StampsOK, Stores, Arrivals
<1>2. r \in Storing /\ r.pc = "stamp" /\ r.stamp = store[d][k].stamp
  BY <1>1, StoringRecords DEF Nothing
<1>3. /\ registry' = [registry EXCEPT ![d] = value] /\ Does(d, k, r)
      /\ Mixes(Pledged(d, k)) /\ UNCHANGED <<stamp, pusher, sent, used>> /\ saves' \in 0..MaxSaves
  BY DEF StoreValue, SetInv, SetTypeOK
<1>4. \A val \in [Nat -> Registries] : Names(val) => r.stamp \in mixed' \/ value = val[r.stamp]
  BY <1>1, <1>2, <1>3 DEF Names, Obeys, Mixes, StoreValue
<1>5. Pledged(d, k) \in SUBSET ({0} \cup Stamps) /\ Given(r.stamp) /\ r.pc \in {"idle", "stamp"}
  BY <1>1, <1>2, PledgedGiven
<1> DEFINE stamps == Pledged(d, k)
<1>6. stamps \in SUBSET ({0} \cup Stamps) /\ Mixes(stamps) /\ Pledged(d, k) \subseteq stamps
  BY <1>3, <1>5
<1>7. r \in Storing /\ value \in Registries /\ r.pc = "stamp"
  BY <1>1, <1>2
<1> HIDE DEF r, value, stamps
<1>8. \A val \in [Nat -> Registries] :
        Names(val) /\ k \in Arrivals /\ r.pc = "stamp" => r.stamp \in mixed' \/ value = val[r.stamp]
  BY <1>4
<1> QED
  BY <1>3, <1>5, <1>6, <1>7, <1>8, RegistryChange

LEMMA CliEditInv == ASSUME SetInv, NEW d \in Devices, NEW value \in Bodies, CliEdit(d, value) PROVE SetInv'
<1> DEFINE r == store[d]["save"]
           stamps == {stamp[d]} \cup Pledged(d, "save")
<1>1. "save" \in Stores /\ "save" \notin Arrivals
  BY DEF Stores, Arrivals
<1>2. r \in Storing /\ r.pc \in {"idle", "stamp"} /\ Given(r.stamp)
  BY <1>1 DEF SetInv, SetTypeOK, StoresOK, StampsOK, Storing
<1>3. Does(d, "save", r)
  BY <1>1 DEF CliEdit, Does, SetInv, SetTypeOK
<1>4. /\ value \in Registries /\ registry' = [registry EXCEPT ![d] = value]
      /\ Mixes(stamps) /\ UNCHANGED <<stamp, pusher, sent, used>>
  BY DEF CliEdit, CliAllowed, WellFormed
<1>5. saves' \in 0..MaxSaves
  BY RegistriesAssumption DEF CliEdit, SetInv, SetTypeOK
<1>6. stamps \in SUBSET ({0} \cup Stamps) /\ Pledged(d, "save") \subseteq stamps /\ stamp[d] \in stamps
  BY <1>1, PledgedGiven DEF SetInv, SetTypeOK, StampsOK, Given
<1> HIDE DEF r, stamps
<1> QED
  BY <1>1, <1>2, <1>3, <1>4, <1>5, <1>6, RegistryChange

LEMMA StoreStampInv == ASSUME SetInv, NEW d \in Devices, NEW k \in Stores, StoreStamp(d, k) PROVE SetInv'
<1>1. PICK val \in [Nat -> Registries] : Names(val)
  BY DEF SetInv
<1>2. SetTypeOK /\ StoresOK /\ StampsOK /\ Nothing \in Storing /\ Nothing.pc = "idle" /\ Nothing.stamp = 0
  BY StoringRecords DEF SetInv, Nothing
<1>3. /\ store' \in [Devices -> [Stores -> Storing]] /\ store'[d][k] = Nothing
      /\ \A e \in Devices, j \in Stores : e # d \/ j # k => store'[e][j] = store[e][j]
  BY <1>2, DoesChange DEF StoreStamp
<1>4. k \in Arrivals /\ store[d][k].pc = "stamp" /\ store[d][k].stamp \in Nat /\ Given(store[d][k].stamp)
  BY <1>2 DEF StoreStamp, Arrivals, Stores, SetTypeOK, StampsOK
<1>5. /\ stamp' \in [Devices -> Nat] /\ stamp'[d] = store[d][k].stamp
      /\ \A e \in Devices : e # d => stamp'[e] = stamp[e]
  BY <1>2, <1>4 DEF StoreStamp, SetTypeOK
<1>6. UNCHANGED <<registry, pusher, sent, saves, used, mixed>>
  BY DEF StoreStamp
<1>7. SetTypeOK'
  BY <1>2, <1>3, <1>5, <1>6 DEF SetTypeOK, Storing
<1>8. ASSUME NEW e \in Devices, NEW j \in Stores
      PROVE  store'[e][j] = store[e][j] \/ (e = d /\ j = k /\ store'[e][j] = Nothing)
  BY <1>3
<1>9. StoresOK'
  <2>1. "save" \in Stores /\ "push" \in Stores /\ "pull" \in Stores
    BY DEF Stores
  <2> QED
    BY <1>2, <1>8, <2>1 DEF StoresOK
<1>10. StampsOK'
  <2>1. (\A s : Given(s)' <=> Given(s)) /\ Given(0)
    BY <1>6 DEF Given
  <2> QED
    BY <1>2, <1>4, <1>5, <1>6, <1>8, <2>1 DEF StampsOK
<1>11. Names(val)'
  <2>1. \A e \in Devices : e # d => Settled(e)' = Settled(e)
    BY <1>3 DEF Settled
  <2>2. ASSUME NEW e \in Devices, Settled(e)' PROVE Obeys(val, registry[e], stamp[e])'
    BY <1>1, <1>4, <1>5, <1>6, <2>1, <2>2 DEF Names, Obeys
  <2>3. ASSUME NEW e \in Devices, NEW j \in Arrivals
        PROVE  /\ (store[e][j].pc = "value" => Obeys(val, store[e][j].value, store[e][j].stamp))'
               /\ (store[e][j].pc = "stamp" => Obeys(val, registry[e], store[e][j].stamp))'
    BY <1>1, <1>2, <1>6, <1>8 DEF Names, Obeys, Arrivals, Stores
  <2>4. \A m \in sent : Obeys(val, m.value, m.stamp)'
    BY <1>1, <1>6 DEF Names, Obeys
  <2> QED
    BY <1>6, <2>2, <2>3, <2>4 DEF Names
<1> QED
  BY <1>1, <1>7, <1>9, <1>10, <1>11 DEF SetInv

(* The time of a save, if it is a new one, comes to name its registry.      *)
LEMMA SaveStampInv == ASSUME SetInv, NEW d \in Devices, SaveStamp(d) PROVE SetInv'
<1>1. PICK val \in [Nat -> Registries] : Names(val)
  BY DEF SetInv
<1>2. PICK now \in Stamps : stamp' = [stamp EXCEPT ![d] = now] /\ used' = used \cup {now} /\ Mixes({now} \cap used)
  BY DEF SaveStamp
<1>3. /\ SetTypeOK /\ StoresOK /\ StampsOK /\ "save" \in Stores
      /\ Nothing \in Storing /\ Nothing.pc = "idle" /\ Nothing.stamp = 0
      /\ now \in Nat \ {0}
  <2>1. Nothing.pc = "idle" /\ Nothing.stamp = 0
    BY DEF Nothing
  <2>2. now \in Nat \ {0}
    BY RegistriesAssumption DEF Stamps
  <2> QED
    BY <2>1, <2>2, StoringRecords DEF SetInv, Stores
<1>4. /\ store' \in [Devices -> [Stores -> Storing]] /\ store'[d]["save"] = Nothing
      /\ \A e \in Devices, j \in Stores : e # d \/ j # "save" => store'[e][j] = store[e][j]
  BY <1>3, DoesChange DEF SaveStamp
<1>5. /\ stamp' \in [Devices -> Nat] /\ stamp'[d] = now
      /\ \A e \in Devices : e # d => stamp'[e] = stamp[e]
  BY <1>2, <1>3 DEF SetTypeOK
<1>6. /\ UNCHANGED <<registry, sent, saves>> /\ mixed' = mixed \cup ({now} \cap used)
      /\ pusher' \in [Devices -> [pc : {"idle", "due", "read"}, value : Registries]]
  <2>1. pusher' = [pusher EXCEPT ![d].pc = "due"]
    BY DEF SaveStamp
  <2>2. pusher' \in [Devices -> [pc : {"idle", "due", "read"}, value : Registries]]
    BY <1>3, <2>1 DEF SetTypeOK
  <2> QED
    BY <1>2, <2>2 DEF SaveStamp, Mixes
<1>7. SetTypeOK'
  BY <1>2, <1>3, <1>4, <1>5, <1>6 DEF SetTypeOK, Storing
<1>8. ASSUME NEW e \in Devices, NEW j \in Stores
      PROVE  store'[e][j] = store[e][j] \/ (e = d /\ j = "save" /\ store'[e][j] = Nothing)
  BY <1>4
<1>9. StoresOK'
  <2>1. "push" \in Stores /\ "pull" \in Stores
    BY DEF Stores
  <2> QED
    BY <1>3, <1>8, <2>1 DEF StoresOK
<1>10. StampsOK'
  <2>1. (\A s : Given(s) => Given(s)') /\ Given(0)' /\ Given(now)'
    BY <1>2 DEF Given
  <2> QED
    BY <1>3, <1>5, <1>6, <1>8, <2>1 DEF StampsOK
<1>11. PICK says \in [Nat -> Registries] :
         /\ now \in mixed' \/ registry[d] = says[now]
         /\ \A s \in Nat : Given(s) => says[s] = val[s]
  <2>1. CASE now \in used
    BY <1>6, <2>1
  <2>2. CASE now \notin used
    <3> DEFINE says == [val EXCEPT ![now] = registry[d]]
    <3>1. registry[d] \in Registries /\ ~Given(now)
      BY <1>3, <2>2 DEF SetTypeOK, Given
    <3>2. says \in [Nat -> Registries] /\ registry[d] = says[now] /\ \A s \in Nat : Given(s) => says[s] = val[s]
      BY <1>3, <3>1
    <3> QED
      BY <3>2
  <2> QED
    BY <2>1, <2>2
<1>12. ASSUME NEW value, NEW s \in Nat, Given(s), Obeys(val, value, s)
       PROVE  s \in mixed' \/ value = says[s]
  BY <1>6, <1>11, <1>12 DEF Obeys
<1>13. Names(says)'
  <2>1. \A e \in Devices : e # d => Settled(e)' = Settled(e)
    BY <1>4 DEF Settled
  <2>2. ASSUME NEW e \in Devices, Settled(e)' PROVE Obeys(says, registry[e], stamp[e])'
    <3>1. CASE e = d
      BY <1>5, <1>6, <1>11, <3>1 DEF Obeys
    <3>2. CASE e # d
      <4>1. stamp[e] \in Nat /\ Given(stamp[e]) /\ Obeys(val, registry[e], stamp[e])
        BY <1>1, <1>3, <2>1, <2>2, <3>2 DEF Names, SetTypeOK, StampsOK
      <4> QED
        BY <1>5, <1>6, <1>12, <3>2, <4>1 DEF Obeys
    <3> QED
      BY <3>1, <3>2
  <2>3. ASSUME NEW e \in Devices, NEW j \in Arrivals
        PROVE  /\ (store[e][j].pc = "value" => Obeys(says, store[e][j].value, store[e][j].stamp))'
               /\ (store[e][j].pc = "stamp" => Obeys(says, registry[e], store[e][j].stamp))'
    <3>1. j \in Stores /\ j # "save"
      BY DEF Arrivals, Stores
    <3>2. store'[e][j] = store[e][j] /\ store[e][j].stamp \in Nat /\ Given(store[e][j].stamp)
      BY <1>3, <1>4, <3>1 DEF SetTypeOK, StampsOK
    <3>3. /\ store[e][j].pc = "value" => Obeys(val, store[e][j].value, store[e][j].stamp)
          /\ store[e][j].pc = "stamp" => Obeys(val, registry[e], store[e][j].stamp)
      BY <1>1 DEF Names
    <3> QED
      BY <1>6, <1>12, <3>2, <3>3 DEF Obeys
  <2>4. ASSUME NEW m \in sent PROVE Obeys(says, m.value, m.stamp)'
    <3>1. m.stamp \in Nat /\ Given(m.stamp) /\ Obeys(val, m.value, m.stamp)
      BY <1>1, <1>3 DEF Names, SetTypeOK, StampsOK
    <3> QED
      BY <1>12, <3>1 DEF Obeys
  <2> QED
    BY <1>6, <2>2, <2>3, <2>4 DEF Names
<1> QED
  BY <1>7, <1>9, <1>10, <1>11, <1>13 DEF SetInv

LEMMA SetNextInv == SetInv /\ [SetNext]_setVars => SetInv'
<1>1. ASSUME SetInv, SetNext PROVE SetInv'
  BY <1>1, ReceiveInv, PullInv, FetchInv, FetchFailsInv, PushInv, SaveRegistryInv, StoreValueInv, CliEditInv,
     StoreStampInv, SaveStampInv DEF SetNext, Proceeds
<1>2. ASSUME SetInv, UNCHANGED setVars PROVE SetInv'
  <2>1. UNCHANGED <<registry, stamp, store, pusher, sent, saves, used, mixed>>
    BY <1>2 DEF setVars
  <2>2. SetTypeOK' /\ StoresOK' /\ StampsOK'
    BY <1>2, <2>1 DEF SetInv, SetTypeOK, StoresOK, StampsOK, Given
  <2>3. \A e \in Devices : Settled(e)' = Settled(e)
    BY <2>1 DEF Settled
  <2>4. \A val \in [Nat -> Registries] : Names(val) => Names(val)'
    BY <2>1, <2>3 DEF Names, Obeys
  <2> QED
    BY <1>2, <2>2, <2>4 DEF SetInv
<1> QED
  BY <1>1, <1>2

(* The invariant holds in every reachable state. *)
THEOREM SetInvariance == SetSpec => []SetInv
  BY SetInitInv, SetNextInv, PTL DEF SetSpec

(* Every reachable state of the registries is well typed. *)
THEOREM SetTypeCorrect == SetSpec => []SetTypeOK
<1>1. SetInv => SetTypeOK
  BY DEF SetInv
<1> QED
  BY <1>1, SetInvariance, PTL

(* Two devices with the same stamp, neither of which is between its two    *)
(* statements, have the same registry, unless the stamp is one of those    *)
(* that may go with several.                                               *)
StampNamesRegistry ==
    \A d, e \in Devices :
      Settled(d) /\ Settled(e) /\ stamp[d] = stamp[e] => stamp[d] \in mixed \/ registry[d] = registry[e]
THEOREM StampsNameRegistries == SetSpec => []StampNamesRegistry
<1>1. SetInv => StampNamesRegistry
  BY DEF SetInv, Names, Obeys, StampNamesRegistry
<1> QED
  BY <1>1, SetInvariance, PTL

(* So the devices agree as soon as nobody is between the two statements    *)
(* and nobody finds a later stamp with a peer: what RegistriesMeet takes   *)
(* beyond that is that they get there.                                     *)
AtRest == \A d \in Devices : Settled(d) /\ \A e \in Devices : ~Newer(stamp[e], d)
THEOREM RegistriesAgreeAtRest == SetSpec => [](AtRest => Agree)
<1>1. SetInv /\ StampNamesRegistry => (AtRest => Agree)
  <2> SUFFICES ASSUME SetInv, StampNamesRegistry, AtRest PROVE Agree
    OBVIOUS
  <2>1. \A d, e \in Devices : stamp[d] = stamp[e]
    <3> SUFFICES ASSUME NEW d \in Devices, NEW e \in Devices PROVE stamp[d] = stamp[e]
      OBVIOUS
    <3>1. ~(stamp[e] > stamp[d]) /\ ~(stamp[d] > stamp[e])
      BY DEF AtRest, Newer
    <3>2. stamp[d] \in Nat /\ stamp[e] \in Nat
      BY DEF SetInv, SetTypeOK
    <3> QED
      BY <3>1, <3>2
  <2>2. \A d \in Devices : Latest(d)
    BY <2>1 DEF Latest, SetInv, SetTypeOK
  <2> QED
    BY <2>1, <2>2 DEF StampNamesRegistry, AtRest, Agree
<1> QED
  BY <1>1, SetInvariance, StampsNameRegistries, PTL

-----------------------------------------------------------------------------
(* The tasks that write the store: what write_lock guarantees to those     *)
(* that take it, beside those that do not, whatever the number of tasks    *)
(* and statements and whatever is dropped or crashes when.                 *)

(* Type correctness needs the statements of a call to be counted once.     *)
CountedOnce == \A t \in Tasks : todo[t] + staged[t] + durable[t] <= Statements
(* Who holds the lock or a transaction is inside a call. *)
Inside(t) == pc[t] \in {"ready", "writing"}
HoldersOnly == \A t \in Tasks : Inside(t) /\ op[t] \in Locked => holder = t
OwnersOnly == \A t \in Tasks : owner = t <=> pc[t] = "writing" /\ op[t] \in Transactional
Pending == \A t \in Tasks : pc[t] # "idle" => result[t] = "none" /\ op[t] \in Ops
WellTyped == WritersTypeOK /\ CountedOnce /\ HoldersOnly /\ OwnersOnly /\ Pending

(* What is staged is the owner's or has been noted; what has been noted    *)
(* has a function of the hive on one side; and the counts are exact for    *)
(* who ran into nobody, and for every owner of a transaction.              *)
Staged(t) == staged[t] > 0 => owner = t \/ (op[t] \notin Transactional /\ owner \in Tasks /\ op[owner] \in within[t])
Noted(t) == (within[t] # {} => MeetsHive(t)) /\ (result[t] = "error" => within[t] # {})
Counted(t) ==
    /\ pc[t] \in {"waiting", "ready"} => todo[t] = Statements /\ durable[t] = 0 /\ within[t] = {}
    /\ pc[t] = "writing" /\ (within[t] = {} \/ op[t] \in Transactional) =>
         todo[t] + staged[t] + durable[t] = Statements
    /\ op[t] \in Transactional /\ result[t] # "ok" => durable[t] = 0
    /\ result[t] = "ok" /\ durable[t] # Statements => op[t] \notin Transactional /\ within[t] # {}

Disciplined == WellTyped /\ \A t \in Tasks : Staged(t) /\ Noted(t) /\ Counted(t)

(* A function in use is the hive's or takes the lock, so of two calls that *)
(* are inside at the same time one is the hive's.                          *)
LEMMA TwoInside ==
    ASSUME WellTyped, NEW t \in Tasks, NEW u \in Tasks, t # u, Inside(t), Inside(u)
    PROVE  {op[t], op[u]} \cap HiveWrites # {}
<1>1. op[t] \in AllOps /\ op[u] \in AllOps
  BY OpsAssumption DEF WellTyped, Pending, Inside
<1>2. ~(op[t] \in Locked /\ op[u] \in Locked)
  BY DEF WellTyped, HoldersOnly
<1> QED
  BY <1>1, <1>2 DEF AllOps, Locked, HiveWrites

LEMMA WritersTypeInit == WritersInit => WellTyped
BY ConstantsAssumption
   DEF WritersInit, WellTyped, WritersTypeOK, CountedOnce, HoldersOnly, Inside, OwnersOnly, Pending, NoStatements

LEMMA WritersTypeStep == WellTyped /\ [WritersNext]_writersVars => WellTyped'
<1> SUFFICES ASSUME WellTyped, [WritersNext]_writersVars PROVE WellTyped'
  OBVIOUS
<1> USE ConstantsAssumption
    DEF WellTyped, WritersTypeOK, CountedOnce, HoldersOnly, Inside, OwnersOnly, Pending
<1>1. ASSUME NEW t \in Tasks, NEW o \in Ops, Call(t, o) PROVE WellTyped'
  BY <1>1 DEF Call
<1>2. ASSUME NEW t \in Tasks, Lock(t) PROVE WellTyped'
  BY <1>2 DEF Lock, Unqueue
<1>3. ASSUME NEW t \in Tasks, BeginTransaction(t) PROVE WellTyped'
  BY <1>3 DEF BeginTransaction, Return, RunsInto
<1>4. ASSUME NEW t \in Tasks, Proceed(t) PROVE WellTyped'
  BY <1>4 DEF Proceed
<1>5. ASSUME NEW t \in Tasks, Execute(t) PROVE WellTyped'
  BY <1>5 DEF Execute, RunsInto
<1>6. ASSUME NEW t \in Tasks, Commit(t) PROVE WellTyped'
  BY <1>6 DEF Commit, Return, NoStatements
<1>7. ASSUME NEW t \in Tasks, Finish(t) PROVE WellTyped'
  BY <1>7 DEF Finish, Return
<1>8. ASSUME NEW t \in Tasks, Abandon(t) PROVE WellTyped'
  BY <1>8 DEF Abandon, Return, Unqueue, NoStatements
<1>9. CASE Crash
  BY <1>9 DEF Crash, NoStatements
<1>10. CASE UNCHANGED writersVars
  BY <1>10 DEF writersVars
<1> QED
  BY <1>1, <1>2, <1>3, <1>4, <1>5, <1>6, <1>7, <1>8, <1>9, <1>10 DEF WritersNext, Go

(* Every reachable state is well typed.                                    *)
THEOREM WritersTypeCorrect == WritersSpec => []WritersTypeOK
<1>1. WellTyped => WritersTypeOK
  BY DEF WellTyped
<1> QED
  BY <1>1, WritersTypeInit, WritersTypeStep, PTL DEF WritersSpec

LEMMA DisciplinedInit == WritersInit => Disciplined
<1> SUFFICES ASSUME WritersInit PROVE Disciplined
  OBVIOUS
<1>1. WellTyped
  BY WritersTypeInit
<1> QED
  BY <1>1, ConstantsAssumption
     DEF WritersInit, Disciplined, Staged, Noted, Counted, NoStatements

LEMMA DisciplinedStep == Disciplined /\ [WritersNext]_writersVars => Disciplined'
<1> SUFFICES ASSUME Disciplined, [WritersNext]_writersVars PROVE Disciplined'
  OBVIOUS
<1>0. WellTyped'
  BY WritersTypeStep DEF Disciplined
<1> SUFFICES ASSUME NEW u \in Tasks PROVE (Staged(u) /\ Noted(u) /\ Counted(u))'
  BY <1>0 DEF Disciplined
<1> USE ConstantsAssumption
    DEF WellTyped, WritersTypeOK, CountedOnce, OwnersOnly, Pending
<1>a. WellTyped /\ Staged(u) /\ Noted(u) /\ Counted(u)
  BY DEF Disciplined
<1>1. ASSUME NEW t \in Tasks, NEW o \in Ops, Call(t, o) PROVE (Staged(u) /\ Noted(u) /\ Counted(u))'
  <2>1. Staged(u)'
    BY <1>a, <1>1 DEF Call, Staged
  <2>2. (Noted(u) /\ Counted(u))'
    BY <1>a, <1>1 DEF Call, Noted, MeetsHive, Counted
  <2> QED
    BY <2>1, <2>2
<1>2. ASSUME NEW t \in Tasks, Lock(t) PROVE (Staged(u) /\ Noted(u) /\ Counted(u))'
  <2>1. Staged(u)'
    BY <1>a, <1>2 DEF Lock, Staged
  <2>2. Noted(u)'
    BY <1>a, <1>2 DEF Lock, Noted, MeetsHive
  <2>3. Counted(u)'
    BY <1>a, <1>2 DEF Lock, Counted, Staged
  <2> QED
    BY <2>1, <2>2, <2>3
<1>3. ASSUME NEW t \in Tasks, BeginTransaction(t) PROVE (Staged(u) /\ Noted(u) /\ Counted(u))'
  <2>0. owner \notin {t, Nobody} /\ pc[t] = "ready" => {op[t], op[owner]} \cap HiveWrites # {}
    BY <1>a, TwoInside DEF Inside
  <2>1. Staged(u)'
    BY <1>a, <1>3 DEF BeginTransaction, Return, RunsInto, Staged
  <2>2. Noted(u)'
    <3>1. /\ pc[t] = "ready" /\ op' = op /\ RunsInto(t)
          /\ result'[u] = result[u] \/ (u = t /\ owner # Nobody /\ result'[u] = "error")
      BY <1>a, <1>3 DEF BeginTransaction, Return
    <3>2. pc[t] = "ready" => owner # t
      BY <1>a
    <3>3. within'[u] = IF u = t /\ owner \notin {t, Nobody} THEN within[u] \cup {op[owner]} ELSE within[u]
      BY <1>a, <3>1 DEF RunsInto
    <3>4. CASE u = t /\ owner \notin {t, Nobody}
      <4>1. op[owner] \in within'[u] /\ {op[u], op[owner]} \cap HiveWrites # {}
        BY <2>0, <3>1, <3>3, <3>4
      <4>2. MeetsHive(u)'
        BY <3>1, <4>1 DEF MeetsHive
      <4> QED
        BY <4>1, <4>2 DEF Noted
    <3>5. CASE ~(u = t /\ owner \notin {t, Nobody})
      <4>1. within'[u] = within[u] /\ result'[u] = result[u]
        BY <3>1, <3>2, <3>3, <3>5
      <4> QED
        BY <1>a, <3>1, <4>1 DEF Noted, MeetsHive
    <3> QED
      BY <3>4, <3>5
  <2>3. Counted(u)'
    BY <1>a, <1>3 DEF BeginTransaction, Return, RunsInto, Counted, Staged
  <2> QED
    BY <2>1, <2>2, <2>3
<1>4. ASSUME NEW t \in Tasks, Proceed(t) PROVE (Staged(u) /\ Noted(u) /\ Counted(u))'
  <2>1. Staged(u)'
    BY <1>a, <1>4 DEF Proceed, Staged
  <2>2. Noted(u)'
    BY <1>a, <1>4 DEF Proceed, Noted, MeetsHive
  <2>3. Counted(u)'
    BY <1>a, <1>4 DEF Proceed, Counted, Staged
  <2> QED
    BY <2>1, <2>2, <2>3
<1>5. ASSUME NEW t \in Tasks, Execute(t) PROVE (Staged(u) /\ Noted(u) /\ Counted(u))'
  <2>0. owner \notin {t, Nobody} /\ pc[t] = "writing" => {op[t], op[owner]} \cap HiveWrites # {}
    BY <1>a, TwoInside DEF Inside
  <2>1. Staged(u)'
    BY <1>a, <1>5 DEF Execute, RunsInto, Staged
  <2>2. Noted(u)'
    BY <1>a, <1>5, <2>0 DEF Execute, RunsInto, Noted, MeetsHive
  <2>3. Counted(u)'
    <3>1. /\ pc[t] = "writing" /\ todo[t] > 0 /\ pc' = pc /\ op' = op /\ result' = result
          /\ todo' = [todo EXCEPT ![t] = @ - 1]
          /\ \/ durable' = [durable EXCEPT ![t] = @ + 1] /\ staged' = staged /\ owner = Nobody
             \/ staged' = [staged EXCEPT ![t] = @ + 1] /\ durable' = durable
      BY <1>5 DEF Execute
    <3>2. within[u] \subseteq within'[u] /\ (u # t => within'[u] = within[u])
      BY <1>a, <1>5 DEF Execute, RunsInto
    <3>3. CASE u = t
      <4>1. op[t] \in Transactional => owner = t
        BY <1>a, <3>1
      <4> QED
        BY <1>a, <3>1, <3>2, <3>3, <4>1 DEF Counted
    <3>4. CASE u # t
      BY <1>a, <3>1, <3>2, <3>4 DEF Counted
    <3> QED
      BY <3>3, <3>4
  <2> QED
    BY <2>1, <2>2, <2>3
<1>6. ASSUME NEW t \in Tasks, Commit(t) PROVE (Staged(u) /\ Noted(u) /\ Counted(u))'
  <2>1. Staged(u)'
    BY <1>a, <1>6 DEF Commit, Return, NoStatements, Staged
  <2>2. Noted(u)'
    BY <1>a, <1>6 DEF Commit, Return, NoStatements, Noted, MeetsHive
  <2>3. Counted(u)'
    <3>1. /\ pc[t] = "writing" /\ todo[t] = 0 /\ owner = t /\ op' = op /\ todo' = todo /\ within' = within
          /\ pc' = [pc EXCEPT ![t] = "idle"] /\ result' = [result EXCEPT ![t] = "ok"]
          /\ durable'[u] = durable[u] + staged[u] /\ staged'[u] = 0
      BY <1>a, <1>6 DEF Commit, Return, NoStatements
    <3>2. CASE u = t
      BY <1>a, <3>1, <3>2 DEF Counted
    <3>3. CASE u # t
      <4>1. owner # u
        BY <3>1, <3>3
      <4>2. staged[u] > 0 => within[u] # {}
        BY <1>a, <4>1 DEF Staged
      <4>3. op[u] \in Transactional => pc[u] # "writing"
        BY <1>a, <4>1
      <4>4. op[u] \in Transactional => staged[u] = 0
        BY <1>a, <4>1 DEF Staged
      <4> QED
        BY <1>a, <3>1, <3>3, <4>2, <4>3, <4>4 DEF Counted
    <3> QED
      BY <3>2, <3>3
  <2> QED
    BY <2>1, <2>2, <2>3
<1>7. ASSUME NEW t \in Tasks, Finish(t) PROVE (Staged(u) /\ Noted(u) /\ Counted(u))'
  <2>1. Staged(u)'
    BY <1>a, <1>7 DEF Finish, Return, Staged
  <2>2. Noted(u)'
    BY <1>a, <1>7 DEF Finish, Return, Noted, MeetsHive
  <2>3. Counted(u)'
    BY <1>a, <1>7 DEF Finish, Return, Counted, Staged
  <2> QED
    BY <2>1, <2>2, <2>3
<1>8. ASSUME NEW t \in Tasks, Abandon(t) PROVE (Staged(u) /\ Noted(u) /\ Counted(u))'
  <2>1. Staged(u)'
    BY <1>a, <1>8 DEF Abandon, Return, NoStatements, Staged
  <2>2. Noted(u)'
    BY <1>a, <1>8 DEF Abandon, Return, NoStatements, Noted, MeetsHive
  <2>3. Counted(u)'
    BY <1>a, <1>8 DEF Abandon, Return, NoStatements, Counted, Staged
  <2> QED
    BY <2>1, <2>2, <2>3
<1>9. CASE Crash
  BY <1>a, <1>9 DEF Crash, NoStatements, Staged, Noted, MeetsHive, Counted
<1>10. CASE UNCHANGED writersVars
  BY <1>a, <1>10 DEF writersVars, Staged, Noted, MeetsHive, Counted
<1> QED
  BY <1>1, <1>2, <1>3, <1>4, <1>5, <1>6, <1>7, <1>8, <1>9, <1>10 DEF WritersNext, Go

LEMMA Discipline == WritersSpec => []Disciplined
  BY DisciplinedInit, DisciplinedStep, PTL DEF WritersSpec

(* Whichever functions are in use, a call fails for another task's         *)
(* transaction, or executes inside it, only if one of the two is the       *)
(* hive's.                                                                 *)
THEOREM NoCollision == WritersSpec => []WritersNeverCollide
<1>1. Disciplined => WritersNeverCollide
  BY DEF Disciplined, Staged, Noted, WritersNeverCollide
<1> QED
  BY <1>1, Discipline, PTL

(* What a successful call wrote is committed, but for a statement that the *)
(* hive had a hand in.                                                     *)
THEOREM SuccessIsDurable == WritersSpec => []AcknowledgedIsDurable
<1>1. Disciplined => AcknowledgedIsDurable
  BY DEF Disciplined, Counted, Noted, AcknowledgedIsDurable
<1> QED
  BY <1>1, Discipline, PTL

(* A call with a transaction takes effect as a whole or not at all, also   *)
(* one of the hive's, and whatever becomes part of it.                     *)
THEOREM Atomicity == WritersSpec => []AllOrNothing
<1>1. Disciplined => AllOrNothing
  BY DEF Disciplined, Counted, AllOrNothing, Transactional
<1> QED
  BY <1>1, Discipline, PTL

-----------------------------------------------------------------------------
(* The lock itself.                                                        *)

Attended ==
    /\ holder # Nobody => Inside(holder) /\ op[holder] \in Locked
    /\ owner # Nobody => pc[owner] = "writing" /\ op[owner] \in Transactional
    /\ \A t \in Tasks : pc[t] = "waiting" => op[t] \in Locked
    /\ \A t \in Tasks : \A u \in ahead[t] : pc[u] = "waiting" /\ u # t /\ t \notin ahead[u]

LEMMA AttendedStep == WellTyped /\ Attended /\ [WritersNext]_writersVars => Attended'
<1> SUFFICES ASSUME WellTyped, Attended, [WritersNext]_writersVars PROVE Attended'
  OBVIOUS
<1> USE ConstantsAssumption DEF WellTyped, WritersTypeOK, Attended, Inside
<1>1. ASSUME NEW t \in Tasks, NEW o \in Ops, Call(t, o) PROVE Attended'
  BY <1>1 DEF Call
<1>2. ASSUME NEW t \in Tasks, Lock(t) PROVE Attended'
  BY <1>2 DEF Lock, Unqueue
<1>3. ASSUME NEW t \in Tasks, BeginTransaction(t) PROVE Attended'
  BY <1>3 DEF BeginTransaction, Return
<1>4. ASSUME NEW t \in Tasks, Proceed(t) PROVE Attended'
  BY <1>4 DEF Proceed
<1>5. ASSUME NEW t \in Tasks, Execute(t) PROVE Attended'
  BY <1>5 DEF Execute
<1>6. ASSUME NEW t \in Tasks, Commit(t) PROVE Attended'
  BY <1>6 DEF Commit, Return
<1>7. ASSUME NEW t \in Tasks, Finish(t) PROVE Attended'
  BY <1>7 DEF Finish, Return
<1>8. ASSUME NEW t \in Tasks, Abandon(t) PROVE Attended'
  BY <1>8 DEF Abandon, Return, Unqueue
<1>9. CASE Crash
  BY <1>9 DEF Crash
<1>10. CASE UNCHANGED writersVars
  BY <1>10 DEF writersVars
<1> QED
  BY <1>1, <1>2, <1>3, <1>4, <1>5, <1>6, <1>7, <1>8, <1>9, <1>10 DEF WritersNext, Go

(* The safety half of WritersAreServed: no return, error, dropped handler  *)
(* or crash leaves the lock or a transaction behind.  Who holds either is  *)
(* a call that is under way and will end; who is in the queue waits, and no *)
(* two wait for each other.                                                *)
NothingIsLeftBehind ==
    /\ holder # Nobody => pc[holder] \in {"ready", "writing"}
    /\ owner # Nobody => pc[owner] = "writing"
    /\ \A t \in Tasks : \A u \in ahead[t] : pc[u] = "waiting" /\ t \notin ahead[u]
THEOREM LocksAreAttended == WritersSpec => []NothingIsLeftBehind
<1>1. WritersInit => Attended
  BY DEF WritersInit, Attended
<1>2. Attended => NothingIsLeftBehind
  BY DEF Attended, Inside, NothingIsLeftBehind
<1> QED
  BY <1>1, <1>2, AttendedStep, WritersTypeInit, WritersTypeStep, PTL DEF WritersSpec

-----------------------------------------------------------------------------
(* The machine                                                             *)

(* Every behaviour of the machine is one of each of its parts, so that     *)
(* what is proved of a part holds of the whole.                            *)
THEOREM MachineIsItsParts ==
    Spec => SchemaSpec /\ WritersSpec /\ MoveSpec /\ LifeSpec /\ SetSpec /\ PairSpec /\ ChatSpec
<1>1. Init => SchemaInit /\ WritersInit /\ MoveInit /\ LifeInit /\ SetInit /\ PairInit /\ ChatInit
  BY DEF Init
<1>2. [Next]_vars => [SchemaNext]_schemaVars /\ [WritersNext]_writersVars
                   /\ [MoveNext]_moveVars /\ [LifeNext]_lifeVars
                   /\ [SetNext]_setVars /\ [PairNext]_pairVars /\ [ChatNext]_chatVars
  BY DEF Next, vars, SchemaStep, WriteStep, MoveStep, LifeStep, SetStep, PairStep, ChatStep
<1> QED
  BY <1>1, <1>2, PTL DEF Spec, SchemaSpec, WritersSpec, MoveSpec, LifeSpec, SetSpec, PairSpec, ChatSpec

(* The machine has the properties of its parts.                            *)
THEOREM MachineIsSafe ==
    Spec => [](RecordedHasRun /\ WritersNeverCollide /\ AcknowledgedIsDurable /\ AllOrNothing
                      /\ NothingIsLost /\ ModesExclude /\ UpdateIsTold
                      /\ StampNamesRegistry /\ SingleUse /\ OpenerIsServed)
  BY MachineIsItsParts, RecordedMigrationsHaveRun, NoCollision, SuccessIsDurable, Atomicity, NoFileIsLost, ModesAreExclusive, UpdatesAreTold,
     StampsNameRegistries, CodesAreSingleUse, WindowOutlivesCode, PTL
=============================================================================
