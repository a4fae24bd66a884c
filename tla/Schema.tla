------------------------------- MODULE Schema -------------------------------
(***************************************************************************)
(* Opening a database (db.rs): every process - the server, the stdio       *)
(* server, each command - brings the file's schema up to date before it    *)
(* uses it.  A migration is a batch of statements that SQLite runs one by  *)
(* one, each committed on its own, followed by a row that records it; a    *)
(* process may be cut short between any two of them, and several may be    *)
(* migrating the same file.  A migration already recorded is skipped.  The *)
(* first one is recorded without being run when the table it begins with   *)
(* is there, for files older than the records.                             *)
(*                                                                         *)
(* Left out: the contents of the tables.  A file has the statements of     *)
(* each migration that were run on it.                                     *)
(***************************************************************************)
EXTENDS Integers, Sequences, FiniteSets

CONSTANTS
    Migrations,  \* their batches in order: [size |-> statements, once |-> those that fail when run again]
    Openers,     \* processes that open the database
    MaxCuts      \* bound: how often a process is cut short or finds the file locked

ASSUME MigrationsAssumption ==
    /\ Migrations \in Seq([size : Nat \ {0}, once : SUBSET Nat]) /\ Len(Migrations) > 0
    /\ \A m \in DOMAIN Migrations : Migrations[m].once \subseteq 1..Migrations[m].size
    /\ MaxCuts \in Nat

VARIABLES
    ran,       \* of each migration, the statements that have been run on the file
    recorded,  \* the names in _migrations
    opener,    \* opener[p]: what p does, at which migration and statement
    cuts       \* processes cut short so far

schemaVars == <<ran, recorded, opener, cuts>>

Known == DOMAIN Migrations
Batch(m) == 1..Migrations[m].size
At(pc, m, s) == [pc |-> pc, m |-> m, s |-> s]
NotOpen == At("idle", 0, 0)

SchemaTypeOK ==
    /\ ran \in [Known -> SUBSET Nat] /\ \A m \in Known : ran[m] \subseteq Batch(m)
    /\ recorded \subseteq Known
    /\ opener \in [Openers -> [pc : {"idle", "look", "run", "record", "open"}, m : Nat, s : Nat]]
    /\ cuts \in 0..MaxCuts

\* The file is new, or older than the records, or was brought up to date by
\* an earlier version.
SchemaInit ==
    /\ \E upto \in {0} \cup Known, tracked \in BOOLEAN :
         /\ ran = [m \in Known |-> IF m <= upto THEN Batch(m) ELSE {}]
         /\ recorded = IF tracked THEN 1..upto ELSE {}
         /\ ~tracked => upto = 1
    /\ opener = [p \in Openers |-> NotOpen]
    /\ cuts = 0

Advances(p, at) == opener' = [opener EXCEPT ![p] = at]
GivesUp(p) == Advances(p, NotOpen)
NextOf(m) == IF m = Len(Migrations) THEN At("open", m, 0) ELSE At("look", m + 1, 0)

\* open_database, init_connection and the table of the records.
Open(p) ==
    /\ opener[p].pc = "idle"
    /\ Advances(p, At("look", 1, 0))
    /\ UNCHANGED <<ran, recorded, cuts>>

\* Has this one been recorded?  Does the first one's table exist?
Look(p) ==
    LET m == opener[p].m IN
    /\ opener[p].pc = "look"
    /\ Advances(p, CASE m \in recorded -> NextOf(m)
                 [] m \notin recorded /\ m = 1 /\ 1 \in ran[m] -> At("record", m, 0)
                 [] OTHER -> At("run", m, 1))
    /\ UNCHANGED <<ran, recorded, cuts>>

\* Mutant: the error of a failed batch is logged and the migration recorded.
RunStatementAnyway(p) ==
    LET m == opener[p].m
        s == opener[p].s IN
    /\ opener[p].pc = "run"
    /\ IF s \in ran[m] /\ s \in Migrations[m].once
       THEN Advances(p, At("record", m, 0)) /\ ran' = ran
       ELSE /\ ran' = [ran EXCEPT ![m] = @ \cup {s}]
            /\ Advances(p, IF s = Migrations[m].size THEN At("record", m, 0) ELSE At("run", m, s + 1))
    /\ UNCHANGED <<recorded, cuts>>

\* execute_batch: the next statement.  One that cannot be repeated fails
\* when it has been run before, and the process gives up.
RunStatement(p) ==
    LET m == opener[p].m
        s == opener[p].s IN
    /\ opener[p].pc = "run"
    /\ \/ /\ s \in ran[m] /\ s \in Migrations[m].once
          /\ GivesUp(p) /\ ran' = ran
       \/ /\ ~(s \in ran[m] /\ s \in Migrations[m].once)
          /\ ran' = [ran EXCEPT ![m] = @ \cup {s}]
          /\ Advances(p, IF s = Migrations[m].size THEN At("record", m, 0) ELSE At("run", m, s + 1))
    /\ UNCHANGED <<recorded, cuts>>

\* The row; its name is the primary key, so of two processes one fails.
Record(p) ==
    LET m == opener[p].m IN
    /\ opener[p].pc = "record"
    /\ recorded' = recorded \cup {m}
    /\ IF m \in recorded THEN GivesUp(p) ELSE Advances(p, NextOf(m))
    /\ UNCHANGED <<ran, cuts>>

\* The process is cut short, or the file is locked by another's write.
Cut(p) ==
    /\ opener[p].pc # "idle" /\ cuts < MaxCuts
    /\ GivesUp(p) /\ cuts' = cuts + 1
    /\ UNCHANGED <<ran, recorded>>

\* It ends, having used the database.
Close(p) ==
    /\ opener[p].pc = "open"
    /\ GivesUp(p)
    /\ UNCHANGED <<ran, recorded, cuts>>

SchemaNext ==
    \E p \in Openers : Open(p) \/ Look(p) \/ RunStatement(p) \/ Record(p) \/ Cut(p) \/ Close(p)

-----------------------------------------------------------------------------
(* What is checked                                                         *)

\* A recorded migration has been run to its end, and so has every one before
\* it; no cut and no second process changes that, except for the first one,
\* which is recorded as soon as its first table is there (run_migrations).
\* A process that opened the database can rely on the tables and columns.
RecordedHasRun ==
    /\ \A m \in recorded : m # 1 => ran[m] = Batch(m)
    /\ \A m \in recorded : 1..m \subseteq recorded
    /\ \A p \in Openers : opener[p].pc = "open" => recorded = Known
=============================================================================
