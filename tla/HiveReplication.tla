-------------------------- MODULE HiveReplication --------------------------
(***************************************************************************)
(* Memory replication between the devices of a hive.  Every device keeps   *)
(* the memories and the tombstones of its own SQLite store, pulls from one *)
(* peer after another (hive/sync_loop.rs) and receives best-effort pushes  *)
(* (api/hive.rs).  An incoming memory or tombstone is applied in several   *)
(* store calls with nothing held between them (store.rs), so local writes  *)
(* and the other worker of the same device interleave with each of them.   *)
(*                                                                         *)
(* A content stands for everything hive_content_hash covers (title, text,  *)
(* tags, layer, type), and for its hash.  The column of that name is a     *)
(* column of its own: what a call hashed may not be what the row says by   *)
(* the time it is written.                                                 *)
(***************************************************************************)
EXTENDS Naturals, FiniteSets

CONSTANTS
    Devices,    \* paired devices, all Active in each other's roster
    Online,     \* those of them a pusher may believe to be online
    Reach,      \* <<d, p>>: d has discovered an address of p
    Ids,        \* memory ids
    Contents,   \* what a memory can say
    NoContent,  \* the content of an id that has no row
    Skew,       \* how far each device's clock is ahead of true time
    Tolerance,  \* HIVE_CLOCK_SKEW_TOLERANCE_SECONDS
    MaxTime,    \* bound: last second of the run
    MaxEdits,   \* bound: local writes, over all devices
    MaxFaults   \* bound: requests that fail

ASSUME ConstantsAssumption ==
    /\ Ids # {}
    /\ NoContent \notin Contents
    /\ Online \subseteq Devices
    /\ Reach \subseteq Devices \X Devices
    /\ Skew \in [Devices -> Nat]
    /\ Tolerance \in Nat
    /\ MaxTime \in Nat
    /\ MaxEdits \in Nat
    /\ MaxFaults \in Nat

VARIABLES
    time,       \* true time, in seconds
    edits,      \* local writes so far
    faults,     \* failed requests so far
    mem,        \* mem[d][i]: the row of table memories
    hash,       \* hash[d][i]: its column hive_content_hash
    tomb,       \* tomb[d][i]: deleted_at in hive_tombstones, 0 for no row
    conflicts,  \* conflicts[d]: pending rows of table conflicts
    pull,       \* pull[d]: the pull the sync loop of d is in the middle of
    apply,      \* apply[d][w]: the apply_incoming_memory call worker w is in
    pending,    \* pending[d]: spawned pushes that have not read their payload
    net         \* pushed memories still on their way

vars == <<time, edits, faults, mem, hash, tomb, conflicts, pull, apply, pending, net>>
tables == <<mem, hash, tomb, conflicts>>
bounds == <<time, edits, faults>>

Workers == {"pull", "push"}
Saying == Contents \cup {NoContent}
Row == [content: Saying, ts: Nat]
NoRow == [content |-> NoContent, ts |-> 0]

AnyId == CHOOSE i \in Ids : TRUE

Conflict == [id: Ids, theirs: Saying, ours: Saying]
Message == [to: Devices, id: Ids, row: Row]

\* stamp is the updated_at the row would be stored with; local and tomb are
\* what the call has seen of the tables.
Task == [pc: {"idle", "tombstone", "row", "store", "conflict"}, id: Ids,
         inc: Row, stamp: Nat, local: Row, tomb: Nat]
NoTask == [pc |-> "idle", id |-> AnyId, inc |-> NoRow, stamp |-> 0,
           local |-> NoRow, tomb |-> 0]

\* peers: the peers of this sync round still to visit; rows and tombs: the
\* manifest, where rows are hashes; todo: differing ids still to fetch.
Pull == [pc: {"idle", "manifest", "diff", "memories", "tombstones", "bury"},
         peers: SUBSET Devices, peer: Devices, rows: [Ids -> Saying],
         tombs: [Ids -> Nat], todo: SUBSET Ids, dead: Ids]

TypeOK ==
    /\ time \in 0..MaxTime
    /\ edits \in 0..MaxEdits
    /\ faults \in 0..MaxFaults
    /\ mem \in [Devices -> [Ids -> Row]]
    /\ hash \in [Devices -> [Ids -> Saying]]
    /\ tomb \in [Devices -> [Ids -> Nat]]
    /\ conflicts \in [Devices -> SUBSET Conflict]
    /\ pull \in [Devices -> Pull]
    /\ apply \in [Devices -> [Workers -> Task]]
    /\ pending \in [Devices -> SUBSET Ids]
    /\ net \in SUBSET Message

NoContents == [i \in Ids |-> NoContent]
NoTombs == [i \in Ids |-> 0]

Init ==
    /\ time = 0 /\ edits = 0 /\ faults = 0
    /\ mem = [d \in Devices |-> [i \in Ids |-> NoRow]]
    /\ hash = [d \in Devices |-> NoContents]
    /\ tomb = [d \in Devices |-> NoTombs]
    /\ conflicts = [d \in Devices |-> {}]
    /\ pull = [d \in Devices |-> [pc |-> "idle", peers |-> {}, peer |-> d,
                  rows |-> NoContents, tombs |-> NoTombs, todo |-> {}, dead |-> AnyId]]
    /\ apply = [d \in Devices |-> [w \in Workers |-> NoTask]]
    /\ pending = [d \in Devices |-> {}]
    /\ net = {}

\* chrono_now() on device d.  Second 0 is never shown: 0 means "no tombstone".
Clock(d) == time + Skew[d] + 1
Plausible(d, ts) == ts <= Clock(d) + Tolerance
Live(d, i) == mem[d][i].content # NoContent

-----------------------------------------------------------------------------
(* Writes of the device's own user: REST, MCP, CLI and import.             *)

\* A row is written with its hash.
SetRow(d, i, row) ==
    /\ mem' = [mem EXCEPT ![d][i] = row]
    /\ hash' = [hash EXCEPT ![d][i] = row.content]
SetTomb(d, i, ts) == tomb' = [tomb EXCEPT ![d][i] = ts]

\* Foreign keys cascade from memories to conflicts.
DropConflicts(d, ids) ==
    conflicts' = [conflicts EXCEPT ![d] = {c \in @ : c.id \notin ids}]

LocalWrite ==
    /\ edits < MaxEdits
    /\ edits' = edits + 1
    /\ UNCHANGED <<time, faults, pull, apply, net>>

\* store(): a new memory, or an import that reuses the id it was exported with.
Store(d, i, c) ==
    /\ LocalWrite
    /\ SetRow(d, i, [content |-> c, ts |-> Clock(d)])
    /\ SetTomb(d, i, 0)
    /\ pending' = [pending EXCEPT ![d] = @ \cup {i}]
    /\ UNCHANGED conflicts

\* update(), and the row change of add_tags() and remove_tags().
Update(d, i, c) ==
    /\ LocalWrite
    /\ Live(d, i)
    /\ SetRow(d, i, [content |-> c, ts |-> Clock(d)])
    /\ pending' = [pending EXCEPT ![d] = @ \cup {i}]
    /\ UNCHANGED <<tomb, conflicts>>

\* Tags are added to a row, or taken from it, that somebody else has written
\* since the call read it: the hash is that of what would have come of the
\* row as it was read.
Retag(d, i, c, read) ==
    /\ LocalWrite
    /\ Live(d, i)
    /\ mem' = [mem EXCEPT ![d][i] = [content |-> c, ts |-> Clock(d)]]
    /\ hash' = [hash EXCEPT ![d][i] = read]
    /\ pending' = [pending EXCEPT ![d] = @ \cup {i}]
    /\ UNCHANGED <<tomb, conflicts>>

\* delete(): no push is sent for a deletion.
Delete(d, i) ==
    /\ LocalWrite
    /\ Live(d, i)
    /\ SetRow(d, i, NoRow)
    /\ SetTomb(d, i, Clock(d))
    /\ DropConflicts(d, {i})
    /\ UNCHANGED pending

\* delete_all(): every row goes and leaves a tombstone.
DeleteAll(d) ==
    LET live == {i \in Ids : Live(d, i)} IN
    /\ LocalWrite
    /\ live # {}
    /\ mem' = [mem EXCEPT ![d] = [i \in Ids |-> NoRow]]
    /\ hash' = [hash EXCEPT ![d] = NoContents]
    /\ tomb' = [tomb EXCEPT ![d] = [i \in Ids |-> IF i \in live THEN Clock(d) ELSE @[i]]]
    /\ DropConflicts(d, live)
    /\ UNCHANGED pending

-----------------------------------------------------------------------------
(* apply_incoming_memory, one step per store call.                         *)

SetTask(d, w, task) == apply' = [apply EXCEPT ![d][w] = task]
SetPull(d, p) == pull' = [pull EXCEPT ![d] = p]

Received(i, row) == [NoTask EXCEPT !.pc = "tombstone", !.id = i, !.inc = row]

\* Mutant of CheckTombstone: a version as old as the deletion undoes it.
CheckTombstoneStrictly(d, w) ==
    LET t == apply[d][w]
        dead == tomb[d][t.id]
    IN  /\ t.pc = "tombstone"
        /\ SetTask(d, w, IF dead # 0 /\ t.inc.ts < dead
                         THEN NoTask
                         ELSE [t EXCEPT !.pc = "row", !.tomb = dead])
        /\ UNCHANGED <<bounds, tables, pull, pending, net>>

\* hive_tombstone_for: a deletion at least as new as the version wins.
CheckTombstone(d, w) ==
    LET t == apply[d][w]
        dead == tomb[d][t.id]
    IN  /\ t.pc = "tombstone"
        /\ SetTask(d, w, IF dead # 0 /\ t.inc.ts <= dead
                         THEN NoTask
                         ELSE [t EXCEPT !.pc = "row", !.tomb = dead])
        /\ UNCHANGED <<bounds, tables, pull, pending, net>>

\* What the call decides once it has read the local row.
Verdict(d, inc, local) ==
    CASE local.content = inc.content -> "idle"
      [] local.content = NoContent /\ local.content # inc.content -> "store"
      [] OTHER -> IF ~Plausible(d, inc.ts) \/ inc.ts = local.ts THEN "conflict"
                  ELSE IF inc.ts > local.ts THEN "store" ELSE "idle"

\* Mutant of Stamp: the sender's timestamp is kept, however far ahead it is.
StampAsSent(d, inc) == inc.ts

\* A memory new to the device is stamped now if its own timestamp is implausible.
Stamp(d, inc) == IF Plausible(d, inc.ts) THEN inc.ts ELSE Clock(d)

ReadRow(d, w) ==
    LET t == apply[d][w]
        local == mem[d][t.id]
        verdict == Verdict(d, t.inc, local)
    IN  /\ t.pc = "row"
        /\ SetTask(d, w, IF verdict = "idle"
                         THEN NoTask
                         ELSE [t EXCEPT !.pc = verdict, !.local = local,
                                        !.stamp = Stamp(d, t.inc)])
        /\ UNCHANGED <<bounds, tables, pull, pending, net>>

\* Mutant of StoreIncoming: the tombstone stays beside the row.
StoreIncomingKeepingTombstone(d, w) ==
    LET t == apply[d][w] IN
    /\ t.pc = "store"
    /\ SetRow(d, t.id, [content |-> t.inc.content, ts |-> t.stamp])
    /\ SetTask(d, w, NoTask)
    /\ UNCHANGED <<bounds, tomb, conflicts, pull, pending, net>>

\* store_with_timestamp overwrites whatever the row has become since.
StoreIncoming(d, w) ==
    LET t == apply[d][w] IN
    /\ t.pc = "store"
    /\ SetRow(d, t.id, [content |-> t.inc.content, ts |-> t.stamp])
    /\ SetTomb(d, t.id, 0)
    /\ SetTask(d, w, NoTask)
    /\ UNCHANGED <<bounds, conflicts, pull, pending, net>>

\* The rest of a pull is dropped: every error in it returns to sync_once.
AbandonPull(d) == SetPull(d, [pull[d] EXCEPT !.pc = "idle", !.todo = {},
                                             !.rows = NoContents, !.tombs = NoTombs])

\* write_conflict: the row references the memory, so the insert fails if the
\* memory was deleted in the meantime, and the failure ends the pull.
WriteConflict(d, w) ==
    LET t == apply[d][w] IN
    /\ t.pc = "conflict"
    /\ SetTask(d, w, NoTask)
    /\ IF Live(d, t.id)
       THEN /\ conflicts' = [conflicts EXCEPT ![d] = @ \cup
                   {[id |-> t.id, theirs |-> t.inc.content, ours |-> t.local.content]}]
            /\ UNCHANGED pull
       ELSE /\ IF w = "pull" THEN AbandonPull(d) ELSE UNCHANGED pull
            /\ UNCHANGED conflicts
    /\ UNCHANGED <<bounds, mem, hash, tomb, pending, net>>

-----------------------------------------------------------------------------
(* pull_from_peer, run by the sync loop of d for one peer after another.   *)

\* Active peers other than d that have a known address.
Peers(d) == {p \in Devices \ {d} : <<d, p>> \in Reach}

\* A round visits every such peer once; the manifest lists the rows first.
PullManifest(d, p) ==
    LET peers == IF pull[d].peers = {} THEN Peers(d) ELSE pull[d].peers IN
    /\ pull[d].pc = "idle"
    /\ p \in peers
    /\ SetPull(d, [pull[d] EXCEPT !.pc = "manifest", !.peers = peers \ {p}, !.peer = p,
                                  !.rows = hash[p]])
    /\ UNCHANGED <<bounds, tables, apply, pending, net>>

\* ... and the tombstones in a second query.
PullManifestTombstones(d) ==
    /\ pull[d].pc = "manifest"
    /\ SetPull(d, [pull[d] EXCEPT !.pc = "diff", !.tombs = tomb[pull[d].peer]])
    /\ UNCHANGED <<bounds, tables, apply, pending, net>>

\* Mutant of PullDiff: only memories the device lacks are fetched.
PullDiffMissingOnly(d) ==
    /\ pull[d].pc = "diff"
    /\ SetPull(d, [pull[d] EXCEPT !.pc = "memories", !.rows = NoContents,
                      !.todo = {i \in Ids : pull[d].rows[i] # NoContent /\ ~Live(d, i)}])
    /\ UNCHANGED <<bounds, tables, apply, pending, net>>

\* The local manifest is read once, before anything is applied.
PullDiff(d) ==
    /\ pull[d].pc = "diff"
    /\ SetPull(d, [pull[d] EXCEPT !.pc = "memories", !.rows = NoContents,
                      !.todo = {i \in Ids : /\ pull[d].rows[i] # NoContent
                                            /\ pull[d].rows[i] # hash[d][i]}])
    /\ UNCHANGED <<bounds, tables, apply, pending, net>>

Fetching(d) == pull[d].pc = "memories" /\ apply[d]["pull"].pc = "idle"

\* GET /hive/memories/{id}: the row as it is now; a 404 is skipped.
PullFetch(d, i) ==
    LET row == mem[pull[d].peer][i] IN
    /\ Fetching(d)
    /\ i \in pull[d].todo
    /\ SetPull(d, [pull[d] EXCEPT !.todo = @ \ {i}])
    /\ IF row.content = NoContent
       THEN UNCHANGED apply
       ELSE SetTask(d, "pull", Received(i, row))
    /\ UNCHANGED <<bounds, tables, pending, net>>

PullTombstones(d) ==
    /\ Fetching(d)
    /\ pull[d].todo = {}
    /\ SetPull(d, [pull[d] EXCEPT !.pc = "tombstones"])
    /\ UNCHANGED <<bounds, tables, apply, pending, net>>

\* apply_incoming_tombstone reads the row and gives up if it is not older.
PullTombstone(d, i) ==
    LET dead == pull[d].tombs[i] IN
    /\ pull[d].pc = "tombstones"
    /\ dead # 0
    /\ SetPull(d, IF ~Plausible(d, dead) \/ (Live(d, i) /\ mem[d][i].ts >= dead)
                  THEN [pull[d] EXCEPT !.tombs[i] = 0]
                  ELSE [pull[d] EXCEPT !.pc = "bury", !.dead = i])
    /\ UNCHANGED <<bounds, tables, apply, pending, net>>

\* Its transaction deletes the row, whatever it is by now.
PullBury(d) ==
    LET i == pull[d].dead
        dead == pull[d].tombs[i]
    IN  /\ pull[d].pc = "bury"
        /\ SetRow(d, i, NoRow)
        /\ SetTomb(d, i, IF dead > tomb[d][i] THEN dead ELSE tomb[d][i])
        /\ DropConflicts(d, {i})
        /\ SetPull(d, [pull[d] EXCEPT !.pc = "tombstones", !.tombs[i] = 0])
        /\ UNCHANGED <<bounds, apply, pending, net>>

PullDone(d) ==
    /\ pull[d].pc = "tombstones"
    /\ pull[d].tombs = NoTombs
    /\ SetPull(d, [pull[d] EXCEPT !.pc = "idle"])
    /\ UNCHANGED <<bounds, tables, apply, pending, net>>

Fault ==
    /\ faults < MaxFaults
    /\ faults' = faults + 1
    /\ UNCHANGED <<time, edits, tables, apply, pending, net>>

\* A request that cannot be made ends the pull of this peer.
PullFails(d) ==
    /\ Fault
    /\ pull[d].pc \in {"manifest", "diff"} \/ (Fetching(d) /\ pull[d].todo # {})
    /\ AbandonPull(d)

\* An error status for one memory skips that memory only.
PullSkips(d, i) ==
    /\ Fault
    /\ Fetching(d) /\ i \in pull[d].todo
    /\ SetPull(d, [pull[d] EXCEPT !.todo = @ \ {i}])

-----------------------------------------------------------------------------
(* Push on change.  A message that is never delivered is a lost one.       *)

\* The spawned task reads the row and then posts it to the peers it believes
\* are online, any of them.
PushRead(d, i, to) ==
    /\ i \in pending[d]
    /\ pending' = [pending EXCEPT ![d] = @ \ {i}]
    /\ net' = IF Live(d, i)
              THEN net \cup {[to |-> p, id |-> i, row |-> mem[d][i]] : p \in to}
              ELSE net
    /\ UNCHANGED <<bounds, tables, pull, apply>>

\* hive_push: bound, one push handler at a time on a device.
PushDeliver(m) ==
    /\ m \in net
    /\ apply[m.to]["push"].pc = "idle"
    /\ net' = net \ {m}
    /\ SetTask(m.to, "push", Received(m.id, m.row))
    /\ UNCHANGED <<bounds, tables, pull, pending>>

Tick ==
    /\ time < MaxTime
    /\ time' = time + 1
    /\ UNCHANGED <<edits, faults, tables, pull, apply, pending, net>>

-----------------------------------------------------------------------------
UserStep(d) ==
    \/ \E i \in Ids, c \in Contents : Store(d, i, c) \/ Update(d, i, c)
    \/ \E i \in Ids, c, read \in Contents : Retag(d, i, c, read)
    \/ \E i \in Ids : Delete(d, i)
    \/ DeleteAll(d)

ApplyStep(d, w) ==
    CheckTombstone(d, w) \/ ReadRow(d, w) \/ StoreIncoming(d, w) \/ WriteConflict(d, w)

PullStep(d) ==
    \/ \E p \in Peers(d) : PullManifest(d, p)
    \/ PullManifestTombstones(d) \/ PullDiff(d)
    \/ \E i \in Ids : PullFetch(d, i) \/ PullTombstone(d, i)
    \/ PullTombstones(d) \/ PullBury(d) \/ PullDone(d)

FaultStep(d) == PullFails(d) \/ \E i \in Ids : PullSkips(d, i)

PushStep ==
    \/ \E d \in Devices, i \in Ids : \E to \in SUBSET (Online \ {d}) : PushRead(d, i, to)
    \/ \E m \in net : PushDeliver(m)

Next ==
    \/ \E d \in Devices : UserStep(d) \/ PullStep(d) \/ FaultStep(d)
    \/ \E d \in Devices, w \in Workers : ApplyStep(d, w)
    \/ PushStep
    \/ Tick

\* The sync loop and the calls it is in the middle of always go on; users,
\* clocks, pushes and faults do as they like.
Fairness ==
    \A d \in Devices : WF_vars(PullStep(d)) /\ \A w \in Workers : WF_vars(ApplyStep(d, w))

Spec == Init /\ [][Next]_vars
FairSpec == Spec /\ Fairness

-----------------------------------------------------------------------------
(* Properties.                                                             *)

(* An id is never both alive and deleted in one store: store() drops the   *)
(* tombstone in the transaction that writes the row, and a deletion, local *)
(* or incoming, drops the row in the transaction that records it, however  *)
(* the transactions of several workers follow one another.                 *)
LiveXorTombstone == \A d \in Devices, i \in Ids : Live(d, i) => tomb[d][i] = 0

(* A peer's fast clock cannot wedge a record: whatever a device stores or  *)
(* buries, from a pull or a push, at most Tolerance separates it from the  *)
(* device's own clock, so an edit made that much later wins again.         *)
NoWedgedRecord ==
    \A d \in Devices, i \in Ids : Plausible(d, mem[d][i].ts) /\ Plausible(d, tomb[d][i])

(* When nothing else touched the memory since the call looked at it, a     *)
(* call of apply_incoming_memory that stores leaves a version newer than   *)
(* the row it replaces and than the deletion it undoes.                    *)
UndisturbedApplyIsNewer ==
    [][\A d \in Devices, w \in Workers :
         LET t == apply[d][w] IN
         (/\ t.pc = "store" /\ apply'[d][w].pc = "idle"
          /\ mem[d][t.id] = t.local /\ tomb[d][t.id] = t.tomb)
         => /\ t.inc.ts > tomb[d][t.id]
            /\ mem'[d][t.id].ts > mem[d][t.id].ts]_vars

(* How two devices that stay different may do so.                          *)
Agree(d, e, i) == mem[d][i].content = mem[e][i].content
Surfaced(d, e, i) ==
    \/ [id |-> i, theirs |-> mem[e][i].content, ours |-> mem[d][i].content] \in conflicts[d]
    \/ [id |-> i, theirs |-> mem[d][i].content, ours |-> mem[e][i].content] \in conflicts[e]
\* Neither sees in the manifest of the other that their rows differ.
SameHash(d, e, i) == hash[d][i] = hash[e][i]
DeleteTie(d, e, i) ==
    \/ ~Live(d, i) /\ Live(e, i) /\ tomb[d][i] = mem[e][i].ts
    \/ ~Live(e, i) /\ Live(d, i) /\ tomb[e][i] = mem[d][i].ts

(* Once the users stop writing, every two devices end up saying the same   *)
(* of every memory, or have the tie between their versions recorded as a   *)
(* conflict, or disagree about a memory deleted in the second it was       *)
(* written in, or have the same hash of different rows, one of which was   *)
(* changed while its hash was computed.                                    *)
EventuallyAgreeOrTie ==
    <>[](\A d, e \in Devices, i \in Ids :
            Agree(d, e, i) \/ Surfaced(d, e, i) \/ DeleteTie(d, e, i) \/ SameHash(d, e, i))

(* store.rs says a peer's memory is applied "under last-write-wins" and of  *)
(* a peer's deletion that "an edit or re-creation made after the delete    *)
(* wins": what arrives never replaces a row by an older one, nor deletes a  *)
(* row that is newer than the deletion.                                    *)
LastWriteWins ==
    [][\A d \in Devices, i \in Ids :
         (edits' = edits /\ Live(d, i) /\ mem'[d][i] # mem[d][i]) =>
             mem[d][i].ts <= IF Live(d, i)' THEN mem'[d][i].ts ELSE tomb'[d][i]]_vars
=============================================================================
