----------------------------- MODULE Conflicts -----------------------------
(* Conflicts of a store: how the sync loop of a cloud replica (sync.rs)    *)
(* finds them, how the hive records those of its peers, and how people     *)
(* resolve them, beside everything MemoryStore has.                        *)
(*                                                                         *)
(* A replica that is synced shows what another device wrote last; the      *)
(* journal of this device's writes is compared with it.                    *)
EXTENDS MemoryStore

CONSTANTS
    Peers,          \* hive devices whose conflicts are counted
    Modes,          \* what the device may be configured to: "cloud", "hive" or "alone"
    MaxConflicts,   \* bound on conflicts ever recorded
    MaxSyncs        \* bound on cycles of the sync loop

ASSUME ConflictsAssumption ==
    /\ Modes \subseteq {"alone", "cloud", "hive"} /\ MaxConflicts \in Nat /\ MaxSyncs \in Nat
    /\ None \notin Peers

VARIABLES
    mode,
    conflicts,      \* the table: number n stands for the id, peer for source_device_id
    recorded,       \* conflicts so far
    count,          \* hive_peer_status.pending_conflict_count
    resolving,      \* resolve_conflict under way, by client
    loop,           \* the sync loop: the await it is at, what is left of the journal it took
    syncs,          \* cycles so far
    owed,           \* history: journal rows of this cycle that the sync overwrote
    disturbed,      \* history: memories written here since the loop took the journal
    miscounted      \* history: peers whose conflicts were not changed one at a time

syncVars == <<conflicts, recorded, count, resolving, loop, syncs, owed, disturbed, miscounted>>
allVars == <<vars, mode, syncVars>>

Asleep == [pc |-> "asleep", todo |-> {}, row |-> None, theirs |-> None]

Pending(p) == {x \in conflicts : x.peer = p /\ x.pending}

-----------------------------------------------------------------------------
(* A memory that is deleted takes its conflicts with it; the count of      *)
(* their peers stays.                                                      *)
ConflictsGo ==
    /\ conflicts' = {x \in conflicts : rows'[x.id] # None}
    /\ miscounted' = miscounted \cup {x.peer : x \in {y \in conflicts \ conflicts' : y.pending}}

LocalStep ==
    /\ RowStep \/ EdgeStep \/ \E c \in Clients : CallStep(c)
    \* a client that resolves a conflict makes no other call meanwhile
    /\ \A c \in Clients : resolving[c] # None /\ call[c].pc = "idle" => call'[c] = call[c]
    /\ ConflictsGo
    /\ disturbed' = disturbed \cup
         {i \in Ids : loop.pc # "asleep" /\ (rows'[i] # rows[i] \/ journal'[i] # journal[i])}
    /\ UNCHANGED <<mode, recorded, count, resolving, loop, syncs, owed>>

\* After a crash the loop starts anew, with the journal as it is.
Restarted ==
    /\ resolving' = [c \in Clients |-> None] /\ loop' = Asleep
    /\ owed' = {} /\ disturbed' = {}

CrashStep == Crash /\ Restarted /\ UNCHANGED <<mode, conflicts, recorded, count, syncs, miscounted>>

-----------------------------------------------------------------------------
(* One cycle of the sync loop, for a replica.                              *)

Cycle(l) == loop' = l
SameMarks == UNCHANGED <<owed, disturbed>>
CycleEnds == loop' = Asleep /\ owed' = {} /\ disturbed' = {}
SameStore == UNCHANGED <<vars, mode, conflicts, recorded, count, resolving, miscounted>>

\* A journal that cannot be read counts as empty.
TakeJournal ==
    /\ mode = "cloud" /\ loop.pc = "asleep" /\ syncs < MaxSyncs
    /\ \E todo \in {{}, {<<i, journal[i]>> : i \in {j \in Ids : journal[j] # None}}} :
         Cycle([Asleep EXCEPT !.pc = "syncing", !.todo = todo])
    /\ syncs' = syncs + 1
    /\ SameStore /\ SameMarks

SyncFails ==
    /\ loop.pc = "syncing"
    /\ CycleEnds
    /\ SameStore /\ UNCHANGED syncs

\* What another device wrote last, with the journal row of that write or,
\* if it has been compared already, without.
Synced(i, c) ==
    /\ rows[i] # None
    /\ rows' = [rows EXCEPT ![i].content = c, ![i].hash = [Memory(rows[i]) EXCEPT !.content = c]]
    /\ \E j \in {c, None} : journal' = [journal EXCEPT ![i] = j]
    /\ edges' = SyncEdges(edges, i, c, Live)
    /\ loose' = loose \ ({i} \X Live)
    /\ stale' = stale \ {i}
    /\ owed' = {j \in loop.todo : j[1] = i /\ j[2] # c}
    /\ UNCHANGED <<tombs, feedback, call, flagging, batch, ops, slipped>>

\* A memory that another device stored or deleted last. What was written
\* here to one that is deleted is not there to be compared.
SyncedNew(i, m) ==
    /\ rows[i] = None /\ Storable(m)
    /\ Put(i, m)
    /\ owed' = {j \in loop.todo : j[1] = i /\ j[2] # m.content}
    /\ UNCHANGED <<batch, ops>>

SyncedAway(i) ==
    /\ rows[i] # None
    /\ Remove({i})
    /\ \E j \in {journal[i], None} : journal' = [journal EXCEPT ![i] = j]
    /\ loose' = loose /\ owed' = {}
    /\ UNCHANGED <<call, flagging, batch, ops>>

DbSync ==
    /\ loop.pc = "syncing"
    /\ Cycle([loop EXCEPT !.pc = "detect"])
    /\ \/ \E i \in Ids, c \in Contents : Synced(i, c)
       \/ \E i \in Ids, m \in Drafts : SyncedNew(i, m)
       \/ \E i \in Ids : SyncedAway(i)
       \/ UNCHANGED vars /\ owed' = {}
    /\ ConflictsGo
    /\ UNCHANGED <<mode, recorded, count, resolving, syncs, disturbed>>

\* Mutant: a memory whose journal row has changed since is passed over.
CompareUnlessRewritten ==
    /\ loop.pc = "detect"
    /\ \E j \in loop.todo :
         LET cur == rows[j[1]] IN
         IF cur # None /\ cur.content # j[2] /\ journal[j[1]] = j[2]
         THEN Cycle([loop EXCEPT !.pc = "record", !.row = j, !.theirs = cur.content])
         ELSE Cycle([loop EXCEPT !.pc = "drop", !.row = j])
    /\ SameStore /\ SameMarks /\ UNCHANGED syncs

\* detect_conflicts looks at the memory, records what differs, then drops
\* the journal row, whatever it says by then.
Compare ==
    /\ loop.pc = "detect"
    /\ \E j \in loop.todo :
         LET cur == rows[j[1]] IN
         IF cur # None /\ cur.content # j[2]
         THEN Cycle([loop EXCEPT !.pc = "record", !.row = j, !.theirs = cur.content])
         ELSE Cycle([loop EXCEPT !.pc = "drop", !.row = j])
    /\ SameStore /\ SameMarks /\ UNCHANGED syncs

NewConflict(i, theirs, ours, p) ==
    /\ recorded < MaxConflicts
    /\ recorded' = recorded + 1
    /\ conflicts' = conflicts \cup
         {[n |-> recorded, id |-> i, remote |-> theirs, local |-> ours, peer |-> p, pending |-> TRUE]}

\* The memory may be gone: the foreign key refuses, and the cycle ends with
\* the rest of the journal as it was.
RecordConflict ==
    /\ loop.pc = "record"
    /\ IF rows[loop.row[1]] = None
       THEN CycleEnds /\ UNCHANGED <<conflicts, recorded>>
       ELSE /\ NewConflict(loop.row[1], loop.theirs, loop.row[2], None)
            /\ Cycle([loop EXCEPT !.pc = "drop"])
            /\ owed' = owed \ {loop.row} /\ UNCHANGED disturbed
    /\ UNCHANGED <<vars, mode, count, resolving, syncs, miscounted>>

DropJournal ==
    /\ loop.pc = "drop"
    /\ journal' = [journal EXCEPT ![loop.row[1]] = None]
    /\ Cycle([Asleep EXCEPT !.pc = "detect", !.todo = loop.todo \ {loop.row}])
    /\ UNCHANGED <<rows, tombs, edges, feedback, call, flagging, batch, ops, marks>>
    /\ UNCHANGED <<mode, conflicts, recorded, count, resolving, syncs, owed, disturbed, miscounted>>

EndCycle ==
    /\ loop.pc = "detect" /\ loop.todo = {}
    /\ CycleEnds
    /\ SameStore /\ UNCHANGED syncs

-----------------------------------------------------------------------------
(* write_conflict for a version of a peer: two statements under the lock.  *)

\* Mutant: the conflict is not counted.
RecordFromPeerUncounted(i, p, theirs) ==
    /\ mode = "hive" /\ rows[i] # None /\ theirs # rows[i].content
    /\ NewConflict(i, theirs, rows[i].content, p)
    /\ UNCHANGED <<vars, mode, count, resolving, loop, syncs, owed, disturbed, miscounted>>

RecordFromPeer(i, p, theirs) ==
    /\ mode = "hive" /\ rows[i] # None /\ theirs # rows[i].content
    /\ NewConflict(i, theirs, rows[i].content, p)
    /\ count' = [count EXCEPT ![p] = @ + 1]
    /\ UNCHANGED <<vars, mode, resolving, loop, syncs, owed, disturbed, miscounted>>

\* The process ends between the two, and with it everything under way.
CrashWhileRecording(i, p, theirs) ==
    /\ mode = "hive" /\ rows[i] # None /\ theirs # rows[i].content
    /\ NewConflict(i, theirs, rows[i].content, p)
    /\ Crash /\ Restarted
    /\ miscounted' = miscounted \cup {p}
    /\ UNCHANGED <<mode, count, syncs>>

-----------------------------------------------------------------------------
(* resolve_conflict: the status is tested first, then the memory updated,  *)
(* then the status set.                                                    *)

BeginResolve(c, x, keepLocal) ==
    /\ resolving[c] = None /\ call[c].pc = "idle"
    /\ x \in conflicts /\ x.pending
    /\ resolving' = [resolving EXCEPT ![c] = [conflict |-> x, updates |-> keepLocal]]
    /\ IF keepLocal
       THEN LET r == rows[x.id] IN
            BeginPatch(c, x.id, [title |-> {r.title}, content |-> {x.local}, tags |-> {r.tags}])
       ELSE /\ Request
            /\ UNCHANGED <<rows, tombs, journal, edges, feedback, call, flagging, batch, marks>>
    /\ UNCHANGED <<mode, conflicts, recorded, count, loop, syncs, owed, disturbed, miscounted>>

\* An error of the update leaves the conflict as it is.
EndResolve(c) ==
    LET x == resolving[c].conflict
        failed == resolving[c].updates /\ call[c].answer = "error"
    IN
    /\ resolving[c] # None /\ call[c].pc = "idle"
    /\ resolving' = [resolving EXCEPT ![c] = None]
    /\ \/ /\ failed \/ \A y \in conflicts : y.n # x.n
          /\ UNCHANGED <<conflicts, count, miscounted>>
       \/ /\ ~failed
          /\ \E y \in conflicts :
               /\ y.n = x.n
               /\ conflicts' = (conflicts \ {y}) \cup {[y EXCEPT !.pending = FALSE]}
               /\ miscounted' = IF y.pending THEN miscounted ELSE miscounted \cup {y.peer}
          /\ count' = [p \in Peers |-> IF p = x.peer /\ count[p] > 0 THEN count[p] - 1 ELSE count[p]]
    /\ UNCHANGED <<vars, mode, recorded, loop, syncs, owed, disturbed>>

-----------------------------------------------------------------------------

SyncInit ==
    /\ Init
    /\ mode \in Modes
    /\ conflicts = {} /\ recorded = 0 /\ count = [p \in Peers |-> 0]
    /\ resolving = [c \in Clients |-> None]
    /\ loop = Asleep /\ syncs = 0
    /\ owed = {} /\ disturbed = {} /\ miscounted = {}

LoopStep == TakeJournal \/ SyncFails \/ DbSync \/ Compare \/ RecordConflict \/ DropJournal \/ EndCycle

ConflictStep ==
    \/ \E i \in Ids, p \in Peers, t \in Contents : RecordFromPeer(i, p, t) \/ CrashWhileRecording(i, p, t)
    \/ \E c \in Clients : EndResolve(c) \/ \E x \in conflicts, k \in BOOLEAN : BeginResolve(c, x, k)

SyncNext == LocalStep \/ CrashStep \/ LoopStep \/ ConflictStep

SyncSpec == SyncInit /\ [][SyncNext]_allVars

-----------------------------------------------------------------------------
(* Properties.                                                             *)

Conflict == [n : Nat, id : Ids, remote : Contents, local : Contents,
             peer : Peers \cup {None}, pending : BOOLEAN]
JournalRow == Ids \X Contents

SyncTypeOK ==
    /\ TypeOK
    /\ mode \in Modes
    /\ conflicts \subseteq Conflict
    /\ recorded \in 0..MaxConflicts
    /\ count \in [Peers -> Nat]
    /\ resolving \in [Clients -> [conflict : Conflict, updates : BOOLEAN] \cup {None}]
    /\ loop \in [pc : {"asleep", "syncing", "detect", "record", "drop"}, todo : SUBSET JournalRow,
                 row : JournalRow \cup {None}, theirs : Contents \cup {None}]
    /\ loop.pc \in {"record", "drop"} => loop.row \in loop.todo
    /\ loop.pc = "record" => loop.theirs # None
    /\ syncs \in 0..MaxSyncs
    /\ owed \subseteq JournalRow /\ disturbed \subseteq Ids
    /\ miscounted \subseteq Peers \cup {None}

(* The number the dashboard shows for a peer is that of its pending        *)
(* conflicts, whichever way they are resolved, unless a crash fell between *)
(* the two statements that record one, two people resolved one at the same *)
(* time, or a memory was deleted with its conflicts.                       *)
CountIsPending == \A p \in Peers \ miscounted : count[p] = Cardinality(Pending(p))

(* A cycle raises a conflict exactly for what this device had written and  *)
(* the sync overwrote: not for its own later writes, and without leaving   *)
(* one out, unless the memory was written here again during the cycle, or  *)
(* its journal row was that of a stale write.                              *)
OverwritesAreRaised ==
    [][/\ (loop.pc = "record" /\ conflicts' # conflicts /\ loop.row[1] \notin disturbed \cup stale)
              => loop.row \in owed
       /\ (loop.pc = "detect" /\ loop.todo = {} /\ loop'.pc = "asleep")
              => \A o \in owed : o[1] \in disturbed \/ rows[o[1]] = None]_allVars
=============================================================================
