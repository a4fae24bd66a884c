---------------------------- MODULE StoreWriters ----------------------------
(***************************************************************************)
(* How the writers of one process share the one connection of a            *)
(* SqliteStore.  A transaction is BEGIN on that connection, so whatever    *)
(* another task executes meanwhile becomes part of it, and a second BEGIN  *)
(* fails.  write_lock is there to prevent both; some hive writers do       *)
(* without it.                                                             *)
(***************************************************************************)
EXTENDS Naturals

CONSTANTS
    Tasks,       \* handlers and loops that write
    Nobody,      \* not a task
    Ops,         \* the store functions they call
    Statements   \* statements a call executes

ASSUME ConstantsAssumption ==
    /\ Nobody \notin Tasks
    /\ Statements \in Nat \ {0}

VARIABLES
    pc,       \* pc[t]: where the call of t is
    op,       \* op[t]: the store function t calls, or has called last
    holder,   \* who holds write_lock
    ahead,    \* ahead[t]: who waits for it before t does
    owner,    \* whose transaction is open on the connection
    todo,     \* todo[t]: statements of the call still to execute
    staged,   \* staged[t]: those of the call executed inside the open transaction
    durable,  \* durable[t]: those of the call that are committed
    result,   \* result[t]: how the last call of t ended
    within    \* within[t]: in whose transactions the call has been: history

writersVars == <<pc, op, holder, ahead, owner, todo, staged, durable, result, within>>

-----------------------------------------------------------------------------
(* The store functions that write.                                         *)
MemoryWrites ==
    {"store", "update", "add_tags", "remove_tags", "delete", "delete_all"}
SingleWrites ==
    {"create_edge", "set_edge_status", "update_edge", "create_feedback",
     "set_feedback_status", "write_conflict", "resolve_conflict", "detect_conflicts",
     "set_meta", "log_session_start"}
HiveTransactions ==
    {"hive_merge_roster", "apply_incoming_tombstone", "backfill_hive_content_hashes"}
HiveStatements == {"hive_upsert_peer_status", "hive_upsert_roster_entry"}

\* Mutants of Locked: a function forgets to take the lock.
LockedButStore == (MemoryWrites \ {"store"}) \cup SingleWrites
LockedButSetMeta == MemoryWrites \cup (SingleWrites \ {"set_meta"})

\* Those that take write_lock, and those that open a transaction.
Locked == MemoryWrites \cup SingleWrites

\* Mutant of Transactional: a function writes statement by statement.
TransactionalButStore == (MemoryWrites \ {"store"}) \cup HiveTransactions

Transactional == MemoryWrites \cup HiveTransactions
AllOps == MemoryWrites \cup SingleWrites \cup HiveTransactions \cup HiveStatements

ASSUME OpsAssumption == Ops \subseteq AllOps

WritersTypeOK ==
    /\ pc \in [Tasks -> {"idle", "waiting", "ready", "writing"}]
    /\ op \in [Tasks -> Ops \cup {"none"}]
    /\ holder \in Tasks \cup {Nobody}
    /\ ahead \in [Tasks -> SUBSET Tasks]
    /\ owner \in Tasks \cup {Nobody}
    /\ todo \in [Tasks -> 0..Statements]
    /\ staged \in [Tasks -> 0..Statements]
    /\ durable \in [Tasks -> 0..Statements]
    /\ result \in [Tasks -> {"none", "ok", "error", "gone"}]
    /\ within \in [Tasks -> SUBSET Ops]

NoStatements == [t \in Tasks |-> 0]

WritersInit ==
    /\ pc = [t \in Tasks |-> "idle"]
    /\ op = [t \in Tasks |-> "none"]
    /\ holder = Nobody /\ owner = Nobody
    /\ ahead = [t \in Tasks |-> {}]
    /\ todo = NoStatements /\ staged = NoStatements /\ durable = NoStatements
    /\ result = [t \in Tasks |-> "none"]
    /\ within = [t \in Tasks |-> {}]

-----------------------------------------------------------------------------
Call(t, o) ==
    /\ pc[t] = "idle"
    /\ op' = [op EXCEPT ![t] = o]
    /\ todo' = [todo EXCEPT ![t] = Statements]
    /\ staged' = [staged EXCEPT ![t] = 0]
    /\ durable' = [durable EXCEPT ![t] = 0]
    /\ result' = [result EXCEPT ![t] = "none"]
    /\ within' = [within EXCEPT ![t] = {}]
    /\ pc' = [pc EXCEPT ![t] = IF o \in Locked THEN "waiting" ELSE "ready"]
    /\ ahead' = [ahead EXCEPT ![t] = {u \in Tasks \ {t} : pc[u] = "waiting"}]
    /\ UNCHANGED <<holder, owner>>

\* No longer in the queue.
Unqueue(t) == ahead' = [u \in Tasks |-> ahead[u] \ {t}]

\* write(): tokio's Mutex serves its waiters in order, and the guard is kept
\* until the call returns.
Lock(t) ==
    /\ pc[t] = "waiting" /\ ahead[t] = {}
    /\ holder = Nobody
    /\ Unqueue(t)
    /\ holder' = t
    /\ pc' = [pc EXCEPT ![t] = "ready"]
    /\ UNCHANGED <<op, owner, todo, staged, durable, result, within>>

\* The call returns; its guard, if it has one, is dropped.
Return(t, how) ==
    /\ pc' = [pc EXCEPT ![t] = "idle"]
    /\ result' = [result EXCEPT ![t] = how]
    /\ holder' = IF holder = t THEN Nobody ELSE holder
    /\ UNCHANGED op

\* The call runs into what another task has open.
RunsInto(t) == within' = [within EXCEPT ![t] = IF owner \in {t, Nobody} THEN @ ELSE @ \cup {op[owner]}]

\* "cannot start a transaction within a transaction" is the error of the call.
BeginTransaction(t) ==
    /\ pc[t] = "ready" /\ op[t] \in Transactional
    /\ IF owner = Nobody
       THEN /\ owner' = t
            /\ pc' = [pc EXCEPT ![t] = "writing"]
            /\ UNCHANGED <<op, holder, result>>
       ELSE Return(t, "error") /\ UNCHANGED owner
    /\ RunsInto(t)
    /\ UNCHANGED <<todo, staged, durable, ahead>>

\* A function without a transaction executes its statements one by one.
Proceed(t) ==
    /\ pc[t] = "ready" /\ op[t] \notin Transactional
    /\ pc' = [pc EXCEPT ![t] = "writing"]
    /\ UNCHANGED <<op, holder, owner, todo, staged, durable, result, within, ahead>>

\* A statement commits by itself only if no transaction is open.
Execute(t) ==
    /\ pc[t] = "writing" /\ todo[t] > 0
    /\ todo' = [todo EXCEPT ![t] = @ - 1]
    /\ IF owner = Nobody
       THEN /\ durable' = [durable EXCEPT ![t] = @ + 1]
            /\ UNCHANGED staged
       ELSE /\ staged' = [staged EXCEPT ![t] = @ + 1]
            /\ UNCHANGED durable
    /\ RunsInto(t)
    /\ UNCHANGED <<pc, op, holder, owner, result, ahead>>

Commit(t) ==
    /\ pc[t] = "writing" /\ todo[t] = 0 /\ op[t] \in Transactional
    /\ owner' = Nobody
    /\ durable' = [u \in Tasks |-> durable[u] + staged[u]]
    /\ staged' = NoStatements
    /\ Return(t, "ok")
    /\ UNCHANGED <<todo, within, ahead>>

Finish(t) ==
    /\ pc[t] = "writing" /\ todo[t] = 0 /\ op[t] \notin Transactional
    /\ Return(t, "ok")
    /\ UNCHANGED <<owner, todo, staged, durable, within, ahead>>

\* Mutant of Abandon: the guard outlives the call.
AbandonHoldingLock(t) ==
    /\ pc[t] # "idle"
    /\ pc' = [pc EXCEPT ![t] = "idle"]
    /\ result' = [result EXCEPT ![t] = "gone"]
    /\ IF owner = t
       THEN owner' = Nobody /\ staged' = NoStatements
       ELSE UNCHANGED <<owner, staged>>
    /\ Unqueue(t)
    /\ UNCHANGED <<op, holder, todo, durable, within>>

\* An error, an early return such as update() of a memory that has just been
\* deleted, or a dropped handler: the dropped transaction is rolled back.
Abandon(t) ==
    /\ pc[t] # "idle"
    /\ IF owner = t
       THEN owner' = Nobody /\ staged' = NoStatements
       ELSE UNCHANGED <<owner, staged>>
    /\ Return(t, "gone") /\ Unqueue(t)
    /\ UNCHANGED <<todo, durable, within>>

\* The process dies, and SQLite rolls back what was not committed.
Crash ==
    /\ pc' = [t \in Tasks |-> "idle"]
    /\ result' = [t \in Tasks |-> IF pc[t] = "idle" THEN result[t] ELSE "gone"]
    /\ holder' = Nobody /\ owner' = Nobody
    /\ ahead' = [t \in Tasks |-> {}]
    /\ staged' = NoStatements
    /\ UNCHANGED <<op, todo, durable, within>>

-----------------------------------------------------------------------------
Go(t) == Lock(t) \/ BeginTransaction(t) \/ Proceed(t) \/ Execute(t) \/ Commit(t) \/ Finish(t)

WritersNext == Crash \/ \E t \in Tasks : Go(t) \/ Abandon(t) \/ \E o \in Ops : Call(t, o)

\* Calls go on, and the lock is given to whoever is first in the queue.
WritersFairness == \A t \in Tasks : WF_writersVars(Go(t))

WritersSpec == WritersInit /\ [][WritersNext]_writersVars

-----------------------------------------------------------------------------
(* What is checked                                                         *)

HiveWrites == HiveTransactions \cup HiveStatements
\* A call of the hive's, or one that ran into one of the hive's.
MeetsHive(t) == op[t] \in HiveWrites \/ within[t] \cap HiveWrites # {}

(* No call fails because it tried to start a transaction within another    *)
(* task's, and no statement executes inside another task's, unless one of  *)
(* the two is a function of the hive, which does without the lock; among   *)
(* all others write_lock keeps them apart (store_tests.rs: "no writer may  *)
(* fail"), whatever the hive's do beside them.                             *)
WritersNeverCollide ==
    \A t \in Tasks : result[t] = "error" \/ within[t] # {} \/ (staged[t] > 0 /\ owner # t) => MeetsHive(t)

(* A call that has reported success has committed all its statements,      *)
(* whatever rollbacks and crashes follow or ran beside it, unless it is one *)
(* without a transaction that ran into one, with the hive's hand in it.     *)
AcknowledgedIsDurable ==
    \A t \in Tasks : result[t] = "ok" /\ durable[t] # Statements =>
                        op[t] \notin Transactional /\ within[t] # {} /\ MeetsHive(t)

(* A write of a memory with its tags, tombstone and journal, or a merge of *)
(* rosters, takes effect as a whole or not at all: whatever becomes part   *)
(* of its transaction, none of its own statements is part of another's.    *)
AllOrNothing ==
    \A t \in Tasks : op[t] \in MemoryWrites \cup HiveTransactions =>
                        durable[t] = IF result[t] = "ok" THEN Statements ELSE 0

(* The lock is handed on: no writer waits for ever, though callers come    *)
(* and go and calls are dropped while they wait for it or hold it.         *)
WritersAreServed == \A t \in Tasks : pc[t] = "waiting" ~> pc[t] # "waiting"

(* What a call has reported as written stays written, whoever else gives   *)
(* up: a statement "issued while another task's transaction is open gets   *)
(* committed or rolled back with it", and so write_lock is "held for the   *)
(* full duration of every write" (store.rs).                               *)
SuccessIsKept == \A t \in Tasks : result[t] = "ok" /\ owner = Nobody => durable[t] = Statements
=============================================================================
