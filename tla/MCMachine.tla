------------------------------ MODULE MCMachine ------------------------------
(***************************************************************************)
(* One run for the seven parts of a machine that share no state: the       *)
(* database's schema, the tasks that write to it, the data directory, the  *)
(* servers, the registry its settings hold, the pairing windows of its     *)
(* hive, and its chat bots.  A behaviour is one of one part; the others    *)
(* stay as they began, in one of their initial states.                     *)
(***************************************************************************)
EXTENDS Schema, StoreWriters, Relocation, Lifecycle, Settings, Pairing, ChatSessions

\* The shapes that occur: repeatable; first statement not; second not.
SomeMigrations ==
    << [size |-> 2, once |-> {}], [size |-> 3, once |-> {1}], [size |-> 2, once |-> {2}], [size |-> 1, once |-> {}] >>

\* One function of each way to write: with the lock and without it, in a
\* transaction and statement by statement.
SomeOps == {"store", "set_meta", "hive_merge_roster", "hive_upsert_peer_status"}

VARIABLE part

vars == <<part, schemaVars, writersVars, moveVars, lifeVars, setVars, pairVars, chatVars>>

Init ==
    /\ part \in {"schema", "writers", "relocation", "lifecycle", "settings", "pairing", "chats"}
    /\ SchemaInit /\ (part # "schema" => recorded = Known)
    /\ MoveInit /\ (part # "relocation" => There(old) /\ ~split)
    /\ LifeInit /\ (part # "lifecycle" => method = "script" /\ file = Blank)
    /\ WritersInit /\ SetInit /\ PairInit
    /\ ChatInit /\ (part # "chats" => bot = "matrix")

SchemaStep == part = "schema" /\ SchemaNext /\ UNCHANGED <<part, writersVars, moveVars, lifeVars, setVars, pairVars, chatVars>>
WriteStep == part = "writers" /\ WritersNext /\ UNCHANGED <<part, schemaVars, moveVars, lifeVars, setVars, pairVars, chatVars>>
MoveStep == part = "relocation" /\ MoveNext /\ UNCHANGED <<part, schemaVars, writersVars, lifeVars, setVars, pairVars, chatVars>>
LifeStep == part = "lifecycle" /\ LifeNext /\ UNCHANGED <<part, schemaVars, writersVars, moveVars, setVars, pairVars, chatVars>>
SetStep == part = "settings" /\ SetNext /\ UNCHANGED <<part, schemaVars, writersVars, moveVars, lifeVars, pairVars, chatVars>>
PairStep == part = "pairing" /\ PairNext /\ UNCHANGED <<part, schemaVars, writersVars, moveVars, lifeVars, setVars, chatVars>>
ChatStep == part = "chats" /\ ChatNext /\ UNCHANGED <<part, schemaVars, writersVars, moveVars, lifeVars, setVars, pairVars>>

Next == SchemaStep \/ WriteStep \/ MoveStep \/ LifeStep \/ SetStep \/ PairStep \/ ChatStep

\* Where a part does not run, none of its fair steps can be taken.
Spec == Init /\ [][Next]_vars /\ WritersFairness /\ LifeFairness /\ SetFairness /\ PairFairness /\ ChatFairness
=============================================================================
