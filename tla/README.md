# A verification development for mynd

mynd keeps the memories of AI agents in a SQLite file per device and offers them over MCP, a REST API,
a command line and a dashboard. Several devices may form a *hive*: they pair, gossip a roster of members,
and replicate memories directly to one another. Discord and Matrix bots run an agent over the same
memories. This directory holds TLA+ models of it, of the parts above all where several actors meet, the TLC
configurations that check them on small instances, and theorems that TLAPS proves for every instance.

All definitions are translated from the Rust sources under `src/src/`; `PROJECT.json` names, for each
definition, the lines it stands for. Paths in this file are relative to `src/src/` unless they start with
`src/`.

    tlc -config <X>.cfg <Module>        # model-check a configuration
    tlapm <Module>Proofs.tla            # check the proofs of a module

Contents: [1 Inventory](#1-inventory) · [2 Modules](#2-modules) · [3 Runs](#3-runs) ·
[4 Proofs](#4-proofs) · [5 Where code and text disagree](#5-where-code-and-text-disagree) ·
[6 Not modelled](#6-not-modelled) · [7 What could follow](#7-what-could-follow)

## 1 Inventory

One process, `mynd up` (`cli/mod.rs`, `http.rs`), hosts everything long-lived: the REST API and dashboard, the MCP
server, the hive stack (sync listener, mDNS discovery, sync loop, ping loop), the network guard, the update check, the
cloud sync loop and the bots. They share one `SqliteStore` (two, with an org store), which is one libsql connection.
Other processes are one-shot CLI commands, MCP servers over stdio and the headless agents that the bots and the
suggestion session spawn; the CLI and the stdio servers open the same file themselves.

| Component | State it keeps | Operations | Interacts with | What is hard |
|---|---|---|---|---|
| **Memory store** (`store.rs`) | tables `memories`, `memory_tags`, `edges`, `feedback`, `conflicts`, `sync_journal`, `hive_*`, `_meta`; `write_lock` | store, update, delete, tags, edges, flags, conflicts, imports, apply of what peers send | everyone below calls it | one connection, one transaction, many tasks; reads and checks made before the lock is taken |
| **Cloud sync** (`sync.rs`, `db.rs`) | the journal it took | take journal, sync, compare, record conflicts | local writers; the remote database | writes and crashes between the steps |
| **Hive replication** (`hive/sync_loop.rs`, `api/hive.rs`, `store.rs`) | a pull under way; spawned pushes | manifest, pull of one peer after another, push on change, `apply_incoming_*` | peers' API; local writers | several store calls per apply with nothing held between them; clocks; loss |
| **Tag registry** (`api/settings.rs`, `api/hive.rs`, `cli/tags.rs`) | `tag_namespaces` and its stamp | save, push, pull, edit | peers; every validation of tags | two statements, three writers, clocks |
| **Hive membership** (`hive/gossip.rs`, `hive/roster.rs`, `hive/peer_status.rs`, `hive/tls_verify.rs`) | `hive_devices` (the roster), the listener's verifier | pair, join, revoke, ping, merge | all devices, directly or by gossip | revocations against stale rosters, order of arrival, restarts |
| **Pairing window** (`hive/pairing.rs`, `hive/pairing_window.rs`) | outstanding codes, `active_handle`, an unauthenticated listener | issue, redeem, open, time out | the API's handlers | timeout tasks of earlier windows beside later ones |
| **Hive stack** (`hive/network_guard.rs`, `hive/network.rs`, `http.rs`) | `HiveStackHandle`, the trusted networks, Hive Mode | start, pause, resume | the ports of the device; the roster | starts that fail half-way, settings that change while they are acted on |
| **Server lifecycle** (`main.rs`, `http.rs`, `config.rs`, `cli/service.rs`, `tui/`) | `config.toml`, port, pidfile, the systemd unit | start, restart, detach, stop, kill, save settings | the next server, systemd, `mynd status` | two servers at once during every change |
| **Self-update** (`update.rs`, `api/update.rs`) | what is available, whether an update runs | check, install, re-exec | GitHub, the lifecycle | checks and requests that cross an update |
| **Database files** (`db.rs`, `dir_migrate.rs`) | `_migrations`, directories | migrate and relocate at start | every process | crashes, and several processes at once |
| **Recall and session start** (`session.rs`, `budget.rs`, `tag_query.rs`) | none | tag expressions, recalls within a token budget | both stores | boundaries; two stores and two passes |
| **MCP server, REST API, CLI** (`server.rs`, `api/`, `cli/`) | none of their own | read and write calls, import, session start | the stores, events, pushes | three implementations of the same questions; several store calls per request |
| **Dashboard** (`src/dashboard/src/`) | lists, the suggestion panel | fetch, follow events | the API | events that were not sent, missed or overtaken |
| **Suggestion session** (`suggest_session.rs`) | phase, session id, queued edges, channel, worker | start, revise, end | one agent at a time; the dashboard by events | `end` races the turn under way; events are emitted outside the lock |
| **Chat bots** (`discord/`, `matrix/`, `chat_bot/agent.rs`) | `SessionMap`, the status | message, reset, store | agents (child processes), gateway | turns of minutes around a shared map |
| **Identity, discovery, secrets, bot accounts, plugins** | keys, tokens, addresses | generate, announce, log in | keyring, mDNS, other programs | I/O |

### What makes each correct

- *Store*: writers never fail because of one another; what was acknowledged is durable; a write takes effect as a whole and at one
  moment; nobody waits for the lock for ever; hashes, journal rows, edges, tags and counts match the memories they are about.
- *Cloud sync*: what a device wrote and lost to the sync is raised, and nothing else.
- *Replication*: the newer version wins; an id is not both alive and deleted; no clock wedges a memory; once edits stop, devices agree or
  the difference is recorded as a conflict. The registry of tags becomes the same everywhere.
- *Membership and pairing*: a revocation is never undone, spreads, and shuts the device out. A code lets one joiner in; a window serves
  the code it was opened for and always closes.
- *Stack*: paused means silent; what the guard and the toggle ask for eventually holds; the verifier catches up.
- *Lifecycle*: sync and hive exclude each other; a restart ends in a server that serves; an update is told while it runs and never doubled;
  a recorded migration has run; a move loses no file.
- *Surfaces*: the same question has the same answer; what is shown can be opened; an expression means what it says; a session start says truly
  what it left out; an open dashboard comes to show what is stored.
- *Bots and suggestion session*: a reset ends a conversation, no conversation leaks into another, no agent blocks for ever, what is
  shown comes to be what is.

The hazards list of `PROJECT.json` gives, for each of these, the line at which it can go wrong and the property that would notice.

## 2 Modules

| Module | Component | Uses | Checked in | Proofs |
|---|---|---|---|---|
| `HiveReplication` | hive replication | | `replication_*` | yes |
| `RosterGossip` | membership | | `roster` | yes |
| `Pairing` | pairing window | | `machine` | yes |
| `StoreWriters` | write lock and transactions | | `machine`, `hive_writers` | yes |
| `AtomicStore` | what callers of the store may rely on | | `memory_store` | (refined) |
| `MemoryStore` | the store's tables and their callers | implements `AtomicStore` | `memory_store` | yes |
| `Conflicts` | cloud sync, peers' conflicts and their resolution | extends `MemoryStore` | `memory_store` | yes |
| `Recall` | searches and reads of all surfaces | | `server` | yes |
| `TagQuery` | parser and evaluation of tag expressions | extends `Recall` | `server` | |
| `Server` | MCP, REST, CLI, events, dashboard, session start | extends `Recall` | `server` | yes |
| `HiveStack` | hive stack | | `hive_stack` | yes |
| `Schema`, `Relocation` | database files | | `machine` | yes |
| `Lifecycle` | servers, settings file, updates, unit | | `machine`, `service_restart` | yes |
| `Settings` | tag registry in a hive | | `machine` | yes |
| `ChatSessions` | bots | | `machine`, `chat_reset` | yes |
| `SuggestSession` | suggestion session and its panel | | `suggest_session` | yes |

`MC*.tla` give values to constants. `MCMachine` also puts seven parts of a machine that share no state into one run: a behaviour is one of
one part. `*Proofs.tla` extend a module with its theorems: `MachineProofs` has those of the parts of `MCMachine` but for the bots, which have `ChatSessionsProofs`, `MemoryStoreProofs` those of
`MemoryStore` and of `Conflicts`, `ServerProofs` those of `Recall` and `Server`. A module that stands alone takes what its neighbours do to it as a
nondeterministic action (`RosterChanges` in `HiveStack`, `Online` in `HiveReplication`, `OrgTurns` in `Server`).
Next to some definitions stands a *mutant*: the same definition with a plausible mistake, used to see that a property
notices it. Mutants are never part of a specification. Variables and constants named as history record what has happened, for
properties only: no guard of an operation reads them.

### HiveReplication

| TLA+ | code |
|---|---|
| `mem[d][i]`, `tomb[d][i]`, `conflicts[d]` | tables `memories`, `hive_tombstones`, `conflicts` of device `d`; a content stands for all that `hive_content_hash` covers |
| `hash[d][i]` | the column `hive_content_hash`, by what it was taken of: manifests and `pull_from_peer` compare it and not the row |
| `Store`, `Update`, `Delete`, `DeleteAll` | `SqliteStore::store`, `update` (and the row change of `add_tags`, `remove_tags`), `delete`, `delete_all`, with the push that their callers spawn |
| `Retag` | `add_tags`, `remove_tags` of a row that was written since they read it: they store the hash of the row as they read it |
| `PullManifest`, `PullManifestTombstones`, `PullDiff`, `PullFetch`, `PullTombstones`, `PullTombstone`, `PullBury`, `PullDone` | the awaits of `pull_from_peer` (`hive/sync_loop.rs`) and of `apply_incoming_tombstone` |
| `CheckTombstone`, `ReadRow`, `StoreIncoming`, `WriteConflict` | the awaits of `apply_incoming_memory`, for the sync loop and for the push handler (`Workers`) |
| `PushRead`, `PushDeliver` | `push_memory_change_to_online_peers`, `hive_push` |
| `PullFails`, `PullSkips` | a request that fails; a status other than success for one memory |

An action is what happens between two awaits that touch shared state, so a local write can fall between any two of
them. `net` keeps pushes until they are delivered, in any order or never; duplicates do not occur because nothing
retries a push. Clocks are `time + Skew[d]`, in seconds, as `chrono_now` has them.

### RosterGossip

`roster[d]` is table `hive_devices`; `accepted[d]` the set of certificates that the listener's verifier accepts;
`tx[d]` the transaction of `hive_merge_roster`, opened by `Begin` and closed by `Commit`, for each of its callers (ping, push,
revocation, either side of a pairing). `Merge` is `gossip::merge_roster` entry by entry. `PingStart` … `PingEnd` are
`run_ping_loop`; `Restart` is a new process, which builds its first verifier from the roster. Signatures are taken to be
sound: every device runs this program, so the branches that reject a record made for somebody else are not reached.
`met` and `issued` only record what users did.

### Pairing

A member of `Codes` is one code after another. `Issue` and `OpenWindow` are `hive_issue_pairing_code` and `open_for`;
`BindWindow`, `StopWindow` are the spawned listener; `Shutdown`, `ClearHandle` the timeout task; `Redeem` is
`validate_and_consume` for a request that reaches an open listener. Time is kept as what is left of it (`left`,
`window[c].left`), so it needs no bound.

### StoreWriters

`holder` is `write_lock`, `owner` the task whose transaction is open on the one connection. A call takes the lock
(`Lock`), begins (`BeginTransaction`), executes its statements one by one (`Execute`) and commits (`Commit`), or executes without a
transaction and returns (`Proceed`, `Finish`). What a statement executed outside the lock is part of is decided by
`owner`, as in SQLite; `within` keeps in whose transactions a call has been. `ahead` is the queue of tokio's mutex. `Abandon` is an error, an early return or a dropped request future; `Crash` is the end of the process.
`Locked` and `Transactional` classify the writing functions of `store.rs` by what their bodies do; those of the hive (`HiveWrites`) do without the lock.

### AtomicStore, MemoryStore

`rows`, `journal`, `edges` and `feedback` are the tables (a row with its tags and content hash). Each call is as many actions as it has
transactions and unlocked reads: `Store`, `Delete`, `CreateEdge` … are one; `BeginPatch`, `BeginAddTags`, `BeginRemoveTags` stop after a read, `Filled` and
`Recall` are the further reads of an edit (the caller's fill-in of omitted fields, then `update`'s own), `Update` and `Retag` the write that follows. `BeginImport`,
`ImportNext`, `ImportStops` take an import memory by memory. `SyncEdges` is `sync_relationship_edges`, `Valid` the registry's rules,
`HashOf` the hash over the tags *as given*. A tag is a namespace, a value and which of the two was written in capitals: capitals in the namespace keep the registry from finding its rule, capitals in the value do not. `Crash` forgets the calls.

`AtomicStore` has only `live` and one open `call` per client: a change happens at one instant between request and answer, on the memory as it
then is, and fields an edit omits come from one earlier instant of the call. `Atomic` in `MemoryStore` is the instance under the refinement mapping that drops hashes,
journal and edges and maps a call that has read to one that has looked.

### Conflicts

Adds the `conflicts` table, `hive_peer_status.pending_conflict_count`, and one of three modes of a device: alone, a cloud replica, or in a hive. `TakeJournal`,
`DbSync` (external: libsql replaces rows by what another device wrote, brings new ones and takes away those it deleted), `Compare`, `RecordConflict`, `DropJournal`, `EndCycle` are the awaits of `sync_once`;
`RecordFromPeer` and `CrashWhileRecording` the two statements of `write_conflict`; `BeginResolve`, `EndResolve` `resolve_conflict` around
the lock. `LocalStep` is every action of `MemoryStore`.

### Recall, TagQuery, Server

`Recall` is pure: what one store lists, finds and reads, and what each surface makes of two stores (`McpSearch`, `RestSearch`, `CliSearch`, the prompts, `RestStatus`, …). It takes the language of tag
expressions as constants: what is `Parsed`, what an expression `Matches` and the expression that asks for `AllOf` some tags. `TagQuery` has the language: the recursive-descent parser with its limits on length and depth, and the evaluation of an
expression. `MCServer` puts the two together, and `ParsesAsWritten` checks the parser against `Meaning`, a reference that splits an expression from the outside, at its last operator of the lowest precedence.

In `Server`, `shelf` is what each store lists, newest first, `links` its edges, `org` whether there is an org store and whether it answers. Each tool, handler and
command that writes is an action (`McpStore`, `RestPatch`, `CliEdit`, …) that begins a call; `Act` is its write, `Reread` what it reads for its answer, `Notify` the event it
then sends. `HiveApply`, `HiveBury` are writes of peers, which send none. `Poll` is the poller (`spawn_change_poller`), `stream` the events on
their way to the dashboard, `OpenTab`, `Connect`, `Deliver`, `Read`, `Show`, `CloseTab` what `App.vue` and the stores do. `StartFrom` and its surfaces start a session,
`RecallNext`, `NextPass`, `EndPasses`, `EndSession` are `execute_session_start`; `Recalls` and `MaxTokens` compose the project's, the local and the global file.

### Schema, Relocation

`Schema` runs the batch of each migration statement by statement, then records it, in several processes that may be cut short; some statements fail when repeated (`once`).
`Relocation` renames the old directory or copies it file by file and removes it file by file; a process that does not wait opens a fresh database in the new place. Each copy is two steps, as in `std::fs::copy`: it empties what is
at its destination (`Empties`), whoever put it there, and then fills it (`Fill`), and is whole only if nobody has emptied it in between. `torn` are the files in the new place that are not whole, `list[p]` what process `p` has found
in the old directory and not copied yet. The history `met` says that two processes were moving at the same time.

### Lifecycle

`proc[p]` is a server between `starting` and `ended`; `Load`, `Decide`, `Bind`, `WritePidfile` are `run_up`. `AskRestart` (dashboard, Hive Mode, `d`), `Leave`,
`HandOver`, `SpawnNext`, `Quit` are the restart; `TellToStop`, `Drained` a graceful stop; `KillRead`, `KillSignal`, `KillRemove` the `k` key of `mynd status`.
`Save` … `RenameTmp` are a save of the dashboard's settings through the temporary file, `EmptyFile`, `WriteFile` the login that writes in place.
Any number of savers may be at it at once. What a saver has opened may be renamed under its hands by another (`Renamed`), and then what it writes goes into `config.toml` itself, or nowhere; the history `crossed` says that two had the file open together.
`BeginCheck`, `EndCheck`, `Apply`, `UpdateFails`, `Exec` are `update.rs`; `UnitEnds`, `UnitStarts` what systemd does.

### Settings

`registry[d]` and `stamp[d]` are the two keys; `SaveRegistry`, `SaveStamp` a save from the dashboard, `PushRead`, `PushSend` what it
spawns, `Receive` a push that arrives, `Pull`, `Fetch` a pull, each followed by `StoreValue`, `StoreStamp`. `CliEdit` is `mynd tags`, which leaves the stamp alone. A push that is lost
is one never received. `used` and `mixed` are history: a stamp is in `mixed` once more than one registry may go under it, because two were saved at it, because one was edited by hand or stored across another,
or because registry and stamp were read (by a push or a pull) in two steps that a change came between. Only the latest stamp there is matters, so a later save makes up for all earlier ones.

### HiveStack

`Boot`, `SpawnListener`, `SpawnDone`, `SpawnFails` are `run_up` and `spawn_hive_stack`; `Bind`, `Close` the fate of a listener task and the
one sync port; `GuardRead`, `GuardKeep`, `GuardPause`, `GuardResume` are `run_guard_loop`; `EditRead`, `EditWrite`, `EditMeanwhile` the
read-modify-write of the trusted list by one handler while another does the same; `SetEnabled`, `Restart`, `Leave` the toggle,
`restart_notify` and the end of the process; `PingRead`, `PingReload` the rebuilding of the verifier. `leaked` records that a
resume has failed after it had spawned its listener.

### ChatSessions

One module for both bots; in each behaviour `bot` says which it is: Discord's gateway runs handlers concurrently, Matrix's sync loop awaits
each. `Rooms` are Matrix rooms that are not direct messages, and heed no reset. `sessions` is the `SessionMap` with ages instead of instants, `shown` the `active_session` of the status reply,
`handler[h]` the event a handler is at. `Chat`, `AskReset`, `AskStore` receive an event; `Answer`, `Fail`, `TimeOut` end
`run_turn`; `Keep`, `Drop`, `Show`, `Hide`, `Reply` are the awaits that follow. The boolean `old` is a history mark: begun before a
reset that the chat has since been granted. So are `overrun`, a turn was under way at the last reset of the chat, and `tangled`, two handlers of the chat were between entry and status at once.

### SuggestSession

`inner` is `Inner` behind its mutex (with the session whose conversation `session_id` names instead of the id), `worker[s]` the
spawned `worker_loop` of session `s` with its channel and the await it is at. `Start`, `Revise`, `End` are `start`, `revise`, `end`, asked by the dashboard or by others;
`Recv`, `BeginRevision`, `Quit`, `AgentAnswers`, `AgentFails`, `Succeed`, `FailTurn` what the worker does between awaits. `End` aborts: a worker
that waits is gone at once, one that is running on another thread goes on to its next await (`Dropped`). Events are emitted after the lock is
released, so `unsent` holds those whose change is made and `Emit` takes any of them. The dashboard is `view` (its store, changed by
`Shown` and by what `revise()` and `end()` do after their answers, `HandleAnswer`, or when the request to end fails, `EndFails`). The text box of the panel stays open
whatever happens to the session, so the dashboard may ask to revise any edge at any time. `late`, `overtaken` and `astray` are history: what an answer that failed or came late has spoiled, and which event mends it (`Mends`).

## 3 Runs

| Run | Module, configuration | Expectation | Shows |
|---|---|---|---|
| `replication_safety` | `MCHiveReplication`, `HiveReplicationSafety.cfg` | pass | `LiveXorTombstone`, `NoWedgedRecord`, `UndisturbedApplyIsNewer` with a clock that is ahead |
| `replication_live` | `MCHiveReplication`, `HiveReplicationLive.cfg` | pass | `EventuallyAgreeOrTie` with a lost push, a failed request and stale hashes |
| `replication_lost` | `MCHiveReplication`, `HiveReplicationLost.cfg` | violation | `LastWriteWins`, see [5](#5-where-code-and-text-disagree) |
| `roster` | `MCRosterGossip`, `RosterGossip.cfg` | pass | `RevocationIsSticky`, `RevokedAreShutOut`, `RosterEventuallySpreads` |
| `hive_writers` | `MCStoreWriters`, `HiveWriters.cfg` | violation | `SuccessIsKept`, see [5](#5-where-code-and-text-disagree) |
| `hive_stack` | `HiveStack`, `HiveStack.cfg` | pass | `SilentUnlessLeaked`, `StackFollowsNetwork`, `VerifierCatchesUp`, `ModeFollowsSetting` |
| `chat_reset` | `ChatSessions`, `ChatReset.cfg` | violation | `ResetStartsAfresh`, see [5](#5-where-code-and-text-disagree) |
| `suggest_session` | `SuggestSession`, `SuggestSession.cfg` | pass | `ResumesOwn`, `ShowsTheSession`, `TurnsAreTaken` |
| `memory_store` | `MCConflicts`, `MemoryStore.cfg` | pass | `ImplementsAtomicStore`; `DerivedIsOwn`, `TagsAreAdmitted`, `LinksAreEdges`, `CountIsPending`, `OverwritesAreRaised` |
| `server` | `MCServer`, `Server.cfg` | pass | `ScreenCatchesUp`, `SurfacesAgree`, `SkippedSaysWhy`, `ParsesAsWritten` |
| `machine` | `MCMachine`, `Machine.cfg` | pass | `RecordedHasRun`; `WritersNeverCollide`, `AcknowledgedIsDurable`, `AllOrNothing`, `WritersAreServed` with functions of the hive beside the others; `NothingIsLost`; `ModesExclude`, `UpdateIsTold`, `ServerComesBack`; `RegistriesMeet`; `SingleUse`, `OpenerIsServed`, `WindowsClose`; `ResetIsFresh`, `ResumableIsShown`, `TurnsEnd` for both bots |
| `service_restart` | `MCMachine`, `ServiceRestart.cfg` | violation | `RestartServes`, see [5](#5-where-code-and-text-disagree) |

`replication_safety` explores 4.4 million distinct states, `server` 820 000, `replication_live` 700 000, `suggest_session` 530 000, `memory_store` 370 000 and `machine` 200 000 with most of the liveness; no run takes more than a few minutes.
Type invariants (`TypeOK`, `LifeTypeOK`, …) are stated with the modules that keep records in their state, and proved where there are proofs.

### Bounds, and why they are enough

- *Replication*: two devices and one memory, because devices compare memories one by one and pull from one peer at a time; two
  contents (with a third party's version the interesting orders repeat); three edits in the safety run (create, edit, delete in any
  order and place), two in the liveness run; two seconds, so that versions can be older, newer or of the same second. In
  the safety run the clock of `b` is two ahead with a tolerance of one: what it writes is first implausible
  and a second later not. The two contents are interchangeable in the safety run (`SYMMETRY`); the liveness run uses no symmetry.
- *Roster*: three devices, so that a revoker, a revoked and a third that hears of it differ; each finds one other (a ring), so gossip
  has to travel; one meeting, one revocation, one fault.
- *Hive stack*: two networks and the state of being on none; three listener tasks, so that a leaked one, a closing one
  and a new one exist side by side; four moves, edits, toggles and failures (`Events`). The bound is on what users and failures do; what
  the program does in answer is unbounded. Because of it the system comes to rest when it is spent, so deadlock is not checked.
- *Suggestion session*: four requests that are granted, in any mixture: a session, its end, the next one and a revision in it; or two or three
  revisions of the one edge in a session; requests that fail count among them; more sessions or edges repeat these. One event on its way to the
  dashboard at a time; those that wait to be sent are not bounded. Deadlock is not checked, because nobody has to make requests.
- *Memory store*: two memories, one of which can link to itself and the other; two clients and three requests: one that is in the middle, one that crosses it and one that made what
  they meet. Tags in a one-tag namespace, in a namespace of fixed values, and with capitals in the value or in the namespace; an import whose second memory is refused. Alone the store has links, edges, flags and imports;
  as a cloud replica (two cycles, two requests) or in a hive (two conflicts ever) one memory is enough, since conflicts concern one each (`Apart`).
- *Server*: the limits of lists, searches and prompts are one or two, so that one surface cuts an answer off where another does not; a memory per store, or two in the primary with an edge between them, two things each may say, one request at a time of two (a second client only orders writes, which `MemoryStore` has); two refreshes at once, so
  that one can overtake the other. The dashboard, a session start and a typed expression are explored one at a time (`Apart`): each only reads the stores. Four project and two local recalls,
  one of them in both files, under a budget of three tokens for memories of one and two. Every expression of up to five tokens over three tags, `&`, `|`, `!` and parentheses, with a depth of two, and some longer ones.
- *The two violations* `hive_writers` and `chat_reset` use the smallest instance that has them: a save of one statement beside a merge of rosters; one Discord channel and two handlers.
- *Machine*: two processes that migrate, four migrations of the shapes that occur, two crashes; two processes that move three files, two faults; three
  servers (one leaving, one starting, one started by hand) and three starts, changes, checks and signals together; two devices, three registries (one that alters a predefined namespace, one device that guards them),
  two seconds, two saves; two pairing codes with a life of three seconds. Two saves of the configuration file at once. Two tasks that write, of two statements each (so that a call can be half done and another run into it), and one function of each way to
  write: with the lock and without it, in a transaction and statement by statement. A chat that heeds resets and, with Matrix, a room that does not, two handlers, a life and a timeout of one tick. Parts come to rest when their bound is spent, so deadlock is not checked.

### Fairness, and why the code justifies it

- *Replication*: the sync loop and a call it is in go on (`WF` of `PullStep`, `ApplyStep`): tokio polls them, and the loop
  sleeps for a bounded time. Pushes, clocks, users and faults owe nothing; a push may be lost for ever.
- *Roster*: the ping loop goes on and an open transaction ends. Pushes and answers may be lost.
- *Store writers*: a call that can proceed does (`WF` of `Go`). The order in which the lock is handed on is part of the model (`ahead`): tokio's `Mutex` serves
  its waiters first in, first out.
- *Hive stack*: loops tick, spawned tasks are polled, and a process that was asked to restart leaves. That a process follows is nobody's promise: `Boot` may never come, after a restart as after a crash.
  Failures owe nothing and are bounded.
- *Chat sessions*: ticks and timers, and what a handler does between awaits. Neither the agent nor the process that stores a memory
  has to answer: `TurnsEnd` rests on the timeout alone.
- *Suggestion session*: the worker goes on between its awaits, a turn is answered or times out after `TURN_TIMEOUT` (`AgentFails` is in the fair
  `Work`, `AgentAnswers` is not), handlers send their events and the browser handles them. Nobody has to make a request, and answers to
  requests may never be handled.
- *Server*: a request goes on to its event, the poller ticks, events that were sent arrive, a refresh is answered and shown. Nobody has to open a dashboard or make a request.
- *Machine*: each server goes on through its start, its end and a restart (`WF` of `Goes`), and so does systemd; the install script may hang, a save and a login may never end. A save,
  push or pull of the registry that has begun goes on (`WF` of `Proceeds`), a device that goes on finding a later stamp with peers pulls from one of them (`WF` of its `Pull`s), because the sync loop comes round and a stamp that is too far ahead to be believed becomes plausible with time, and not every request fails (`SF` of `Fetch`). Time passes and
  the tasks of pairing windows are polled; nobody has to redeem a code.

## 4 Proofs

All theorems are for every value of the constants, under the named assumptions of the module (and named
conditions where stated). `TypeCorrect` of each module proves its type invariant.

- **HiveReplicationProofs**: `NeverLiveAndDeleted`, `NeverWedged`, `UndisturbedApplies`, `ConflictsHaveTwoSides`, `DeletionsStay`, `RestAgrees`, `RestLasts`. `Inv` adds to the three properties what
  calls in flight know: a row that is read or on its way has a content and a positive timestamp; a stamp about to be stored is plausible;
  a call that is about to store has an incoming version newer than the row and the tombstone *as it saw them* (`TaskOK`); a tombstone
  about to be buried is plausible (`PullOK`). Without the last two, plausibility is not inductive. For `ConflictsHaveTwoSides` it takes besides what a call about to record a conflict has read (`Differs`): the row
  may be gone or rewritten by the time it records it. `RestAgrees` says that the protocol has no dead end: where neither of two devices finds anything to take from the other (`AtRest`), the outcome is one that
  `EventuallyAgreeOrTie` allows (different rows under one hash among them), or a clock that is behind has yet to believe a deletion. `RestLasts` says that calls that go on between such devices store nothing; its invariant is that
  a call about to store was right to, for what it has read (`Decided`).
- **RosterGossipProofs**: `OnlyIssuedRevocations`, `StickyRevocation`, `NobodyIsForgotten`, `NoStrangerRevokes`, `RevokedStayShutOut`, `RevocationsGetThrough`. A merge prepared by an open transaction still contains every revocation
  of the roster it will replace (`TxKeeps`): nothing else can write meanwhile, because every other `Begin` fails. All
  rosters anywhere, in tables, transactions, pings or messages, only hold revocations that were issued (`AllBacked`). `GrowInv`: what a roster says of a device only goes from unknown by active to revoked, also in the transaction
  that is open, and it knows whom it says to have revoked another. `RevocationsGetThrough` rests on that: when a merge would change nothing, only a revoker who was revoked can be the reason that a revocation is missing.
- **MachineProofs**, part by part:
  - *Schema*: `RecordedMigrationsHaveRun`. `OpenerOK` says of a process wherever it is that the migrations before its own are recorded and the statements of its own before the next one
    have run, and that it records only what ran to the end.
  - *Relocation*: `NoFileIsLost`. A file that is whole nowhere is in part in the new place, two processes have moved at once (`LostAreSafe`), and somebody is filling it or one of them failed (`PartsExplained`). `RemovesCopied`: who removes the old directory alone has
    copied all that is left of it, whole; `OneMoves`: until two have met, at most one moves.
  - *Lifecycle*: `UpdatesAreTold`, `ServersExclude`, `ModesNeverMeet`, `ModesAreExclusive`, `ServersStay`. `ServerOK`: an install script runs iff the status says so, and a server that has decided never has
    both modes; `PortIsTheirs`: who listens has the port. That a server never runs both modes, and that a file that does not load is a mixture of two texts, hold for any number of saves at a time
    (`SavesLoad`); that there is no mixture unless two of them were at it together is `SavesApart`.
    `ServersStay`: unless two saves have overlapped, or somebody tells a server to stop, a machine on which one runs (or systemd is about to start one) goes on having one, through restarts, updates and second servers that find the port taken. It needs `Attending`:
    the port is held by somebody who listens, and a server that was told to stop by nobody was so by systemd, which starts the unit again.
  - *Settings*: `StampsNameRegistries`, `RegistriesAgreeAtRest`. `Names`: there is a map from stamps to registries that everything obeys, on a device, on its way or about to be stored, except under
    `mixed` stamps; a save extends the map at its time (`SaveStampInv`). It follows that devices agree whenever nobody is between two statements or finds a later stamp,
    which leaves to `RegistriesMeet` only that they get there.
  - *Pairing*: `CodesAreSingleUse`, `WindowsDoNotStack`, `WindowOutlivesCode`, `NoWindowIsForgotten`. `WindowOK` ties the time a window has left to the time its
    code has left, and the timer to the state of the listener; `UnspentOK` says that an outstanding code has let nobody in.
  - *Store writers*: `NoCollision`, `SuccessIsDurable`, `Atomicity`, for any tasks, statements and functions in use, those without the lock included. The invariant `Disciplined` says of each call where its
    statements are (`Counted`), that one of them is inside another's transaction only if it has none of its own (`Staged`), and that whoever ran into another was, or met, a function of the hive (`Noted`), since of two that hold the lock there is never more than one.
    The theorems say exactly what the functions without the lock put at risk: calls of one statement that run into them, and nothing else. `LocksAreAttended`: whatever is dropped or crashes, lock and transaction are held by a
    call under way or by nobody, and nobody waits behind one that does not wait.
  - `MachineIsItsParts` and `MachineIsSafe` carry the safety properties of these parts over to the behaviours that the `machine` run explores.
- **HiveStackProofs**: `NoStrayListener`, `RunningStackServes`, `NoToggleIsLost`, `OffMeansOff`. The invariant `Holding`: unless a resume has failed half-way, a listener is active iff it is the stack's
  or that of the start under way, a start is never under way while a stack runs, and at most a just paused one still closes. `NoToggleIsLost` says that a process whose mode is not what the toggle asks for is going to be restarted;
  `OffMeansOff` that one without Hive Mode has nothing of the stack, whatever failed or was toggled on the way.
- **ChatSessionsProofs**: `ResetHolds`, `StatusShows`, for both bots, any number of chats and handlers. The
  invariant `Orderly`: the Matrix loop has at most one handler busy (`OneAtATime`), what is old, kept or about to be, is excused (`OldKept`), and what is kept is shown unless a handler is about to show it or
  two were at it (`KeptIsShown`, `HiddenIsDropped`).
- **SuggestSessionProofs**: `NoForeignConversation`, `NothingQueuedForEver`. The invariant `OneWorker`: while a session is active its worker is the
  only one that is neither aborted nor gone, otherwise there is none; `OwnConversation` then says whose conversation may be resumed, and an inactive
  session has nothing queued (`NothingLeft`). `DashboardShowsTheSession` proves `ShowsTheSession` from `InStep`: of each thing the panel shows, the events that it has not seen, sent and unsent in any
  order, lead it from what it shows to what is (`Leads`), and an answer that is still to be handled either says what is or comes with `astray` (`AnswersFit`); what is astray stays out until the event that mends it. An
  error is the last word only in a session that is active, and a session that is over has nobody at work (`OverIsIdle`).
- **MemoryStoreProofs**: `DerivedStaysOwn`, `TagsStayAdmitted`, `LinksStayEdges` and the refinement `StoreIsAtomic`. The invariant conjoins the three with
  `Checked`: the tags that an update is about to write satisfy the registry, as it checked in an earlier step; without it, that step does not preserve `TagsAreAdmitted`. Lemmas about `Put`, `SaveRow`, `SyncEdges` and `Valid` carry the steps. `StoreIsAtomic` maps initial states to initial states and each step either to one of `AtomicStore`'s or to a stutter.
  Under `Conflicts` (`SyncSpec`) all of it holds again (`SyncedStoreHoldsTogether`, `SyncedStoreIsAtomic`), with rows that arrive from other devices and conflicts that are resolved, and `CountsAreRight`, `CyclesRaiseTheirs` besides.
  `Accounts` says that no two conflicts have one number, that a resolution under way counts for the peer whose conflict it read, and that each count is that of the pending ones. `Cycling` says of memories that nobody else has
  touched in the cycle that what the loop finds different was overwritten by the sync, and that what was overwritten is still among what it has to raise.
- **ServerProofs**: `StoresAreSound`, `SurfacesAlwaysAgree`, `SessionSaysWhy`, `DashboardFollows`. `StoresAreSound`: what a store lists are well-formed memories, once each, and its edges join memories that it lists (`Shelved`). From it
  follows, function by function, that MCP, REST, the command line and the prompts give the same answers (`SurfacesAgree`), each up to its own limit, whatever the limits are: how one list is a beginning of another is part of what is stated. `SessionSaysWhy` carries `Accounted` through a session start while others write: what is loaded costs what is counted, what was left out was over the budget that was left
  when it was met or was found nowhere. `DashboardFollows`: events not yet handled, a refresh not yet read or a poll not yet made are the only reasons for a screen to be out of date, but for those that `missed` records.
  Sums and filters over sequences are recursive functions of the community modules; what is needed of them is proved by the least counterexample: a set of naturals that is not empty has a least element (`WFMin` of the library's
  theorems on well-founded relations, which has no operator as a parameter).

The assumptions on constants are about shapes and distinctness: bounds are numbers, a model value that stands for "none" is not one of the things it is told from,
migrations are sequences of statements that are not empty, the database is one of the files, the stores that a behaviour starts from are well-formed. `AsksAssumption` is about the query language: the tags of a list that must all be there
parse to what they mean, and a text that is searched for by words does not look like an expression; TLC evaluates it with the parser of `TagQuery`. None restricts how many devices, processes, tasks or requests there are.

Only model-checked:

- All liveness properties, because TLAPS does not reason about `ENABLED`, hence not about fairness. Of most of them the safety half is proved: that nothing is lost which the fair actions have yet to do, or that
  where they have nothing left to do, what is promised is so.

  | Liveness property | Safety half proved |
  |---|---|
  | `EventuallyAgreeOrTie` | `RestAgrees`, `RestLasts` |
  | `RevokedAreShutOut` | `RevokedStayShutOut` |
  | `RosterEventuallySpreads` | `RevocationsGetThrough`, `NobodyIsForgotten` |
  | `WritersAreServed` | `LocksAreAttended` |
  | `StackFollowsNetwork` | `NoStrayListener`, `RunningStackServes` |
  | `ModeFollowsSetting` | `NoToggleIsLost`, `OffMeansOff` |
  | `TurnsAreTaken` | `NothingQueuedForEver` |
  | `ScreenCatchesUp` | `DashboardFollows` |
  | `ServerComesBack` | `ServersStay` |
  | `RegistriesMeet` | `StampsNameRegistries`, `RegistriesAgreeAtRest` |
  | `WindowsClose` | `NoWindowIsForgotten` |
  | `VerifierCatchesUp`, `TurnsEnd` | |

- `ParsesAsWritten`: the parser is a set of mutually recursive operators, and TLAPS proves nothing in a module that reaches a `RECURSIVE` declaration. This is why the parser has a module of its own.

## 5 Where code and text disagree

Four are runs whose counterexample TLC finds; the quotations are in `PROJECT.json`.

1. `replication_lost`: `apply_incoming_memory` and `apply_incoming_tombstone` compare with a row they read before their transaction; an
   edit in between is overwritten by an older version or deleted by an older deletion, against what `store.rs` says of last-write-wins.
2. `service_restart`: under the unit that `mynd service install` writes, a restart asked for in the dashboard ends the service: the old process spawns the new one as a child
   and exits with 0; systemd then stops what is left of the unit (the default `KillMode`) and, with `Restart=on-failure`, starts nothing.
3. `hive_writers`: `hive_merge_roster`, `apply_incoming_tombstone` and `backfill_hive_content_hashes` begin transactions without `write_lock` (`store.rs:1611`, `1995`, `1702`), and `hive_upsert_peer_status` (`1893`) writes without it,
   although it is documented as held for every write (`store.rs:115-123`). A save of a setting executes inside the merge's transaction, reports success, and is rolled back with it when the merge fails or is cut short. Either side's `BEGIN` may fail, too.
   `WritersNeverCollide`, `AcknowledgedIsDurable` and `AllOrNothing` say who is affected: calls that meet one of these, and of the others none; transactions are never torn.
4. `chat_reset`: the Discord bot stores the session of a finished turn whatever happened meanwhile (`discord/daemon.rs:330`), so after a reset the conversation goes on, where `src/README.md:701` says that a reset "starts a fresh conversation in
   that channel". `ResetIsFresh` excuses this one (`overrun`) and finds no other in Discord or in direct messages of Matrix.

The next are states the models reach and a property excuses or a constant leaves out. *Store and hive:*

- An addition of tags (`store.rs:711`) hashes and journals what it read before the lock; two at once can also give a memory two tags of a one-tag namespace. The hash is taken over the tags as given (`store.rs:482`),
  the table keeps them in lower case, so peers compare hashes that never meet; they fetch the memory at every pull and change nothing. The check of the registry does not lower the namespace: `Kind:bogus` is accepted and stored as `kind:bogus`, after which every addition of tags is refused
  (`stale`, `slipped` in `MemoryStore`).
- The stale hash of such an addition also travels: peers compare hashes (`hive/sync_loop.rs:86-94`), so two devices whose rows differ under one hash never find it out. `EventuallyAgreeOrTie` excepts exactly this (`SameHash`).
- An edit over MCP, REST or the CLI undoes what somebody else changed since it read (fields it does not name); an import stops in the middle when the registry refuses tags, with some memories written, though `api/transfer.rs:67-69` says it
  is rejected whole. An edge made by a tool and given a `link_text` later is deleted by the next save of its source, though the comment at `store.rs:173` calls such edges out of reach; a link to a memory that is created later gets no edge until its source is saved again.
- `resolve_conflict` tests before it locks (`store.rs:1309`): two resolutions count twice. `write_conflict` (`store.rs:1541`) is two statements. Deleting a memory deletes its conflicts, not their count.
- Cloud sync: a write between `take_journal` and the comparison loses its journal row or is raised as a phantom; a crash after `db.sync()` loses the knowledge of an overwritten edit; a memory deleted during a cycle ends it at a foreign key.
  Wiping all memories leaves the org store.
- A revocation whose revoker the receiver distrusts is not recorded (`hive/gossip.rs:108-109`), and never will be; `hive/sync_loop.rs:410-413` says that
  it arrives with "their own next ping/sync contact with any Active member". After crosswise revocations devices may disagree about
  the hive for ever. `RosterEventuallySpreads` excuses this case (`Disbelieves`).
- Two saves of the tag registry in one second, or by clocks that differ, may leave two registries (`RegistriesMeet` says when); a pull stores whatever registry it fetches under the stamp that the manifest had (`hive/sync_loop.rs:195-228`), and a push reads the two in two steps; `mynd tags` writes without a stamp, so its change is not spread and is overwritten by the next that is. A guarded
  device accepts a peer's altered predefined namespaces and can then save no registry until they are restored.
- If discovery fails after the listener was spawned (`hive/network_guard.rs:221`), the resume returns an error and the listener stays: the
  stack counts as paused and serves, against lines 120-121. `SilentUnlessLeaked` excepts it (`leaked`).
- A code issued while a window is open gets no window of its own and may be valid after the window has closed: `Pairing` states
  `OpenerIsServed` for the opener's code only. The listener also stays bound for its full time after the code was redeemed, where
  `hive/pairing_window.rs:15-16` speaks of the time that a code is outstanding.
- Removing the last trusted network leaves an empty list, and an empty list turns the guard off; the dashboard says on removal that sync
  "will auto-pause" (`src/dashboard/src/components/settings/TrustedNetworkRemoveModal.vue:40`). A stack that was paused then
  stays paused until the process restarts (`GuardKeep`).
- An edit and a deletion of the same second on two devices stay different for ever (`DeleteTie`): `store.rs:2031`
  lets the deletion win where the deletion is, `store.rs:1997` the edit where the edit is.

*Surfaces and sessions:*

- A memory that two recalls match is loaded twice, as is one that stands in the project's and the local file. A memory over budget among those of a tag expression that loaded another is left out silently.
- The edit and flag prompts refuse org memories that other prompts name. An org memory imported over REST goes to the primary store, and no event is sent. `memory_update` and creations over REST do not wake the sync loop; no route is given the org store's.
- Changes between the dashboard's first fetch and its subscription, during a reconnect, by peers, or by other processes in the org store are not announced; `ScreenCatchesUp` lists what it excepts (`missed`). Two refreshes may overtake each other.
- The suggest prompt asks for `link_text` in `memory_store_edge`, which has no such parameter. A session start that crosses a wipe still logs the titles wiped, which `store.rs:818-825` means to prevent. Org stores that answer with errors fail the CLI's queries where MCP and REST go on without.
- `end()` aborts a worker only at its next await: if it runs on another thread, "reviewing" and the id of its conversation can be written into a session
  that has ended or begun anew. `ResumesOwn` excepts what follows from that (`late`).
- `stores/suggest.js:18-24` leaves the phase to the events because they can overtake the answer of `start()`, but `revise()` (line 36) lists the
  edge after its answer: if "revising" was handled before, the row stays "queued", without buttons, until another revision begins or the session ends.
  `ShowsTheSession` excepts the list alone, and until then (`astray`). Events are sent outside the lock and may be sent in the wrong order (`overtaken`). Events sent while the event source reconnects are lost, and `hydrate()` is called only when the page is loaded.
- When the request of `end()` fails, `stores/suggest.js:42-48` shows no session all the same: the comment in line 43 relies on an event "or below", but the session is still active and sends none, so the dashboard offers to start
  a session (which is refused) and not to end the one there is, until it ends by other hands or the page is loaded again. An answer to `end()` that comes after somebody has started the next session hides that one likewise. `ShowsTheSession` excepts both until the next "ended" (`astray`).
- A reset cannot be asked for in a Matrix room that is not a direct message: such a room is only heard if the text contains the bot's user
  id (`matrix/daemon.rs:320`), and the text is a reset only if it is nothing but `!mynd reset` (`matrix/commands.rs:19`); `src/README.md:618`
  says it "starts a fresh conversation in that room". `ChatSessions` has this as `ResetHeeded`, and `ResetIsFresh` excepts `Rooms`.
- Two Discord handlers of one channel may change its entry in one order and its status in the other: the status then hides a conversation that the next message resumes. `ResumableIsShown` excepts this (`tangled`).
- The surfaces cut their answers off at different places: a list over REST at 1000 of each store and `memory-list` at 50, searches at 10 over MCP and at 50 over REST and on the command line, so that beyond these a prompt shows less than a list. `SurfacesAgree` says
  for each which beginning of which list it is.
- `store_memory` of the bots has no timeout; in the Matrix bot a child that hangs stops the loop. `/mynd store` marks a chat as having an active session though there is none (`Stored`, then `Show`).

*Machine:*

- Two saves of the configuration at once share `.config.toml.mynd-tmp`: the file may hold a mixture, which the next start refuses, or one rename fails; `config.rs:560` says "atomically". `ModesExclude` excepts the mixture (`crossed`), `ServerComesBack` a machine on which there has been one.
  `mynd discord login` (`config.rs:844`) writes the file in place.
- A server that drains, or the `k` key, removes the pidfile of a newer server (`http.rs:253`, `tui/status_view.rs:167`); `k` during a restart signals the old pid.
- A server told to stop during an update comes back by the re-exec. The error of a failed update is cleared by the next successful check. The install script has no timeout; after a restart it goes on, and the new server may start another.
- A batch cut short between a statement that cannot be repeated and its record, or two processes that migrate at once, make every later start fail (`db.rs:139-200`); V1 is recorded as soon as its first table exists. A directory copied in part counts as present, and
  the rest stays in the old place; `mynd migrate` copies over a database made since it asked.
- Two processes that start at once where the directory has to be copied: the slower one empties and copies again what the faster one has copied already and is removing in the old place (`dir_migrate.rs:108-118`). Files are not whole anywhere
  meanwhile, a file is lost if the slower one is cut short or its copy fails then, and what the faster one has stored in the new database is copied over. `NothingIsLost` excepts the files of such a meeting (`met`), and says nothing of what was stored since.
- Two first starts can leave the id of one identity and the key of the other (`hive/mod.rs:84`).

## 6 Not modelled

`PROJECT.json` lists every component with its reason. Cryptography, certificates, mDNS, keyrings, logins and sockets are I/O that the models take as given; the request guard is a predicate on headers.
Words of prompts, rankings, token counts and the layout of the terminal are data. Of the store, the log of session starts and the counters of use are left out: nothing reads them back into a decision.
Installers edit files of other programs and are sequential. The override of the hive's intervals is received from peers but can never be set locally, so no device ever sends one. launchd is not modelled beside systemd,
nor a process killed without notice in `Lifecycle`. A page of the dashboard that is loaded in the midst of a session (`hydrate()`) is not modelled. The config directory is moved by the function that moves the data directory. The product of replication and tag registries (a pull that ends at a memory whose tags the local registry refuses) is listed as a hazard without a property.

## 7 What could follow

An abstract hive (one version per memory and a set of members) implemented by `HiveReplication` when no
call is in flight; `HiveStack` supplying `RosterGossip`'s restarts and verifier; validation of tags in `HiveReplication`; the parser as recursive functions on positions,
so that `ParsesAsWritten` can be proved by the least counterexample too.
