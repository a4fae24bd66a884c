----------------------------- MODULE Lifecycle ------------------------------
(***************************************************************************)
(* The server processes of one machine (`mynd up`: main.rs, http.rs), from *)
(* start to end: the configuration they read, the port they bind, the      *)
(* pidfile by which `mynd status` finds them, the restarts the dashboard   *)
(* asks for, the updates that replace the program, and the ways they stop. *)
(*                                                                         *)
(* A restart is a second process: the first one stops listening, removes   *)
(* the pidfile, starts the second and exits.  An update replaces the       *)
(* program of the process itself, which keeps its pid and its pidfile.     *)
(* Requests accepted before either go on until the process ends.           *)
(*                                                                         *)
(* Settings are the two that exclude each other, [sync] and [hive].  The   *)
(* dashboard may change [sync] but not [hive]: its own switch of the hive  *)
(* is kept in the database and wins over the file.                         *)
(*                                                                         *)
(* A server may be the main process of a systemd user unit (cli/service.rs *)
(* on Linux), whose processes systemd stops when the main one ends.        *)
(*                                                                         *)
(* Left out: the dashboard's port, the terminal's view apart from its two  *)
(* keys, a keyring that works only sometimes, a process that is killed     *)
(* without notice, launchd, and a file edited by hand while a server runs. *)
(* A pid is used again once the pidfile, systemd and anyone about to       *)
(* signal it have forgotten it.                                            *)
(***************************************************************************)
EXTENDS Integers, FiniteSets

CONSTANTS
    Procs,      \* pids
    Savers,     \* requests that save the configuration
    MaxOps,     \* bound: starts by hand, changes, checks and signals, together
    Mixed,      \* a file in which two texts were written over each other
    None

ASSUME ProcsAssumption ==
    /\ None \notin Procs \cup BOOLEAN \cup [sync : BOOLEAN, hive : BOOLEAN]
    /\ Mixed \notin {None} \cup [sync : BOOLEAN, hive : BOOLEAN]
    /\ MaxOps \in Nat

VARIABLES
    file,     \* config.toml
    tmp,      \* the file it is written to first
    saver,    \* saver[w]: what a save is doing, for whom (None: for a login)
    crossed,  \* two saves had a file open at the same time: history
    override, \* hive_enabled_override in the database
    method,   \* how the program was installed
    port,     \* who listens on the API's port
    pidfile,  \* mynd.pid
    proc,     \* proc[p]: a server
    killer,   \* `k` in `mynd status`
    unit,     \* the systemd unit: its main process, and whether it starts again
    ops,      \* how many there were
    asked     \* who told a server to stop: history

disk == <<file, tmp, saver, crossed>>
lifeVars == <<disk, override, method, port, pidfile, proc, killer, unit, ops, asked>>

-----------------------------------------------------------------------------
(* The configuration                                                       *)

Texts == [sync : BOOLEAN, hive : BOOLEAN]
Blank == [sync |-> FALSE, hive |-> FALSE]   \* an empty file: the defaults
\* DASHBOARD_EDITABLE_KEYS: not [hive].  To leave [sync] as it is stands for
\* a change of other keys.
Patches == [{"sync"} -> BOOLEAN]

\* server_settings_from_raw.
Loads(text) == text # Mixed /\ ~(text.sync /\ text.hive)
\* patch_dashboard_config.
Patch(text, patch) == [key \in {"sync", "hive"} |-> IF key \in DOMAIN patch THEN patch[key] ELSE text[key]]

NoSave == [pc |-> "idle", on |-> None, text |-> Blank, fd |-> "tmp"]

-----------------------------------------------------------------------------
Ended == [pc |-> "ended", sync |-> FALSE, hive |-> FALSE, stop |-> FALSE, again |-> FALSE,
           status |-> "idle", error |-> FALSE, checks |-> FALSE, scripts |-> 0, member |-> FALSE]
\* Whether it is a member of the unit is inherited and stays.
Starting(member) == [Ended EXCEPT !.pc = "starting", !.member = member]

Alive(p) == proc[p].pc # "ended"
Serves(p) == proc[p].pc = "serving"
\* It no longer listens, and does what it has still to do.
Lingers(p) == proc[p].pc \in {"leaving", "handing", "draining"}
Works(p) == Serves(p) \/ Lingers(p)
\* The handlers of the signals are installed in the course of the start.
Handles(p) == proc[p].pc \in {"binding", "bound"} \/ Works(p)

LifeTypeOK ==
    /\ file \in Texts \cup {Mixed} /\ tmp \in Texts \cup {Mixed, None}
    /\ saver \in [Savers -> [pc : {"idle", "open", "write", "rename"}, on : Procs \cup {None},
                             text : Texts, fd : {"tmp", "file", "lost", "direct", "stale"}]]
    /\ crossed \in BOOLEAN
    /\ override \in BOOLEAN \cup {None}
    /\ method \in {"script", "cargo"}
    /\ port \in Procs \cup {None} /\ pidfile \in Procs \cup {None}
    /\ proc \in [Procs -> [pc : {"ended", "starting", "deciding", "binding", "bound", "serving",
                                 "leaving", "handing", "draining"},
                           sync : BOOLEAN, hive : BOOLEAN, stop : BOOLEAN, again : BOOLEAN,
                           status : {"idle", "updating", "failed"}, error : BOOLEAN,
                           checks : BOOLEAN, scripts : Nat, member : BOOLEAN]]
    /\ killer \in [pc : {"idle", "look", "wait"}, pid : Procs \cup {None}]
    /\ unit \in [main : Procs \cup {None}, again : BOOLEAN]
    /\ ops \in 0..MaxOps
    /\ asked \subseteq {"user", "unit"}

LifeInit ==
    /\ file \in {text \in Texts : Loads(text)} /\ tmp = None
    /\ saver = [w \in Savers |-> NoSave] /\ crossed = FALSE
    /\ override = None
    /\ method \in {"script", "cargo"}
    /\ port = None /\ pidfile = None
    /\ proc = [p \in Procs |-> Ended]
    /\ killer = [pc |-> "idle", pid |-> None]
    /\ unit = [main |-> None, again |-> FALSE]
    /\ ops = 0
    /\ asked = {}

Counts == ops < MaxOps /\ ops' = ops + 1

Becomes(p, r) == proc' = [proc EXCEPT ![p] = r]
Turns(p, pc) == Becomes(p, [proc[p] EXCEPT !.pc = pc])
Frees(p) == port' = IF port = p THEN None ELSE port
\* What it was saving ends with the process, or with its program.
Forgets(p) == saver' = [w \in Savers |-> IF saver[w].on = p THEN NoSave ELSE saver[w]]
\* PidGuard: the file goes, whoever is in it.
DropGuard == pidfile' = None
Unremembered == {p \in Procs : ~Alive(p) /\ p \notin {pidfile, killer.pid, unit.main}}
NewPid == CHOOSE p \in Unremembered : TRUE
\* An exit with an error; systemd starts the unit again (Restart=on-failure).
Fails(p) == Becomes(p, Ended) /\ unit' = [unit EXCEPT !.again = @ \/ unit.main = p]

-----------------------------------------------------------------------------
(* A start                                                                 *)

\* `mynd up`, by hand.
Start ==
    /\ Unremembered # {} /\ Counts
    /\ Becomes(NewPid, Starting(FALSE))
    /\ UNCHANGED <<disk, override, method, port, pidfile, killer, asked, unit>>

\* main's run_up: no start without settings.
Load(p) ==
    /\ proc[p].pc = "starting"
    /\ \/ /\ Loads(file) /\ UNCHANGED unit
          /\ Becomes(p, [proc[p] EXCEPT !.pc = "deciding", !.sync = file.sync, !.hive = file.hive])
       \/ ~Loads(file) /\ Fails(p)
    /\ UNCHANGED <<disk, override, method, port, pidfile, killer, ops, asked>>

\* Whether bootstrap_self_identity finds or makes the key of the device.
HasKey == BOOLEAN
\* The switch in the database wins over the file.
Wanted(p) == IF override = None THEN proc[p].hive ELSE override

\* Mutant: the switch is believed.
DecideByOverride(p) ==
    /\ proc[p].pc = "deciding"
    /\ \E key \in HasKey : Becomes(p, [proc[p] EXCEPT !.pc = "binding", !.hive = Wanted(p) /\ key])
    /\ UNCHANGED <<disk, override, method, port, pidfile, killer, ops, asked, unit>>

\* Mutant: a server that finds both asked for gives up.
DecideOrBail(p) ==
    /\ proc[p].pc = "deciding"
    /\ IF Wanted(p) /\ proc[p].sync
       THEN Fails(p)
       ELSE UNCHANGED unit /\ \E key \in HasKey :
              Becomes(p, [proc[p] EXCEPT !.pc = "binding", !.hive = Wanted(p) /\ key])
    /\ UNCHANGED <<disk, override, method, port, pidfile, killer, ops, asked>>

\* Cloud sync wins over both; and without a key the hive stays off.
Decide(p) ==
    /\ proc[p].pc = "deciding"
    /\ \E key \in HasKey :
         Becomes(p, [proc[p] EXCEPT !.pc = "binding", !.hive = Wanted(p) /\ ~proc[p].sync /\ key])
    /\ UNCHANGED <<disk, override, method, port, pidfile, killer, ops, asked, unit>>

\* bind_with_retry: it waits for the port a while and gives up.
Bind(p) ==
    /\ proc[p].pc = "binding"
    /\ \/ port = None /\ port' = p /\ Turns(p, "bound") /\ UNCHANGED unit
       \/ port # None /\ port' = port /\ Fails(p)
    /\ UNCHANGED <<disk, override, method, pidfile, killer, ops, asked>>

WritePidfile(p) ==
    /\ proc[p].pc = "bound"
    /\ pidfile' = p
    /\ Turns(p, "serving")
    /\ UNCHANGED <<disk, override, method, port, killer, ops, asked, unit>>

-----------------------------------------------------------------------------
(* Settings changed in the dashboard, and the logins of the chat bots      *)

\* save_config_file up to the write: a text that would not load is refused,
\* and so is cloud sync while the hive is on.
Save(w, p, patch) ==
    /\ Serves(p) /\ saver[w].pc = "idle" /\ file # Mixed
    /\ Counts
    /\ LET text == Patch(file, patch) IN
       /\ Loads(text) /\ ~(text.sync /\ proc[p].hive)
       /\ saver' = [saver EXCEPT ![w] = [pc |-> "open", on |-> p, text |-> text, fd |-> "tmp"]]
    /\ UNCHANGED <<file, tmp, crossed, override, method, port, pidfile, proc, killer, asked, unit>>

\* `mynd matrix login` and `mynd discord login` write back what they read,
\* with a name added; the first like a save, the second (write_discord_login)
\* straight into the file.
Login(w, fd) ==
    /\ saver[w].pc = "idle" /\ file # Mixed
    /\ Counts
    /\ saver' = [saver EXCEPT ![w] = [pc |-> "open", on |-> None, text |-> file, fd |-> fd]]
    /\ UNCHANGED <<file, tmp, crossed, override, method, port, pidfile, proc, killer, asked, unit>>
MatrixLogin(w) == Login(w, "tmp")
DiscordLogin(w) == Login(w, "direct")

Opened(w) == saver[w].pc \in {"write", "rename"}
Crosses(w) == crossed' = (crossed \/ \E v \in Savers \ {w} : Opened(v))

\* write_private_file: all saves use one temporary file, which the second to
\* open it empties.
OpenTmp(w) ==
    /\ saver[w].pc = "open" /\ saver[w].fd = "tmp"
    /\ tmp' = Blank /\ Crosses(w)
    /\ saver' = [saver EXCEPT ![w].pc = "write"]
    /\ UNCHANGED <<file, override, method, port, pidfile, proc, killer, ops, asked, unit>>

Over(text, with) == IF text = Blank THEN {with} ELSE {with, Mixed}
WriteTmp(w) ==
    /\ saver[w].pc = "write" /\ saver[w].fd \notin {"direct", "stale"}
    /\ CASE saver[w].fd = "tmp" -> tmp' \in Over(tmp, saver[w].text) /\ UNCHANGED file
         [] saver[w].fd = "file" -> file' \in Over(file, saver[w].text) /\ UNCHANGED tmp
         [] OTHER -> UNCHANGED <<file, tmp>>
    /\ saver' = [saver EXCEPT ![w].pc = "rename"]
    /\ UNCHANGED <<crossed, override, method, port, pidfile, proc, killer, ops, asked, unit>>

\* What a file opened before is, once the temporary one has its name.
Renamed(fd) == CASE fd = "tmp" -> "file" [] fd \in {"direct", "stale"} -> "stale" [] OTHER -> "lost"

\* The rename fails when another save has taken the file away.
RenameTmp(w) ==
    /\ saver[w].pc = "rename"
    /\ \/ /\ tmp # None
          /\ file' = tmp /\ tmp' = None
          /\ saver' = [v \in Savers |-> IF v = w THEN NoSave
                                        ELSE IF Opened(v) THEN [saver[v] EXCEPT !.fd = Renamed(@)]
                                        ELSE saver[v]]
       \/ /\ tmp = None
          /\ saver' = [saver EXCEPT ![w] = NoSave] /\ UNCHANGED <<file, tmp>>
    /\ UNCHANGED <<crossed, override, method, port, pidfile, proc, killer, ops, asked, unit>>

\* std::fs::write: the file is emptied, then written; to nobody's sight when
\* another has been renamed over it.
EmptyFile(w) ==
    /\ saver[w].pc = "open" /\ saver[w].fd = "direct"
    /\ file' = Blank /\ Crosses(w)
    /\ saver' = [saver EXCEPT ![w].pc = "write"]
    /\ UNCHANGED <<tmp, override, method, port, pidfile, proc, killer, ops, asked, unit>>

WriteFile(w) ==
    /\ saver[w].pc = "write" /\ saver[w].fd \in {"direct", "stale"}
    /\ file' \in IF saver[w].fd = "direct" THEN Over(file, saver[w].text) ELSE {file}
    /\ saver' = [saver EXCEPT ![w] = NoSave]
    /\ UNCHANGED <<tmp, crossed, override, method, port, pidfile, proc, killer, ops, asked, unit>>

\* hive_set_enabled: refused while the server itself runs cloud sync.
SetHive(p, on) ==
    /\ Works(p) /\ Counts
    /\ ~(on /\ proc[p].sync)
    /\ override' = on
    /\ Becomes(p, [proc[p] EXCEPT !.again = TRUE])
    /\ UNCHANGED <<disk, method, port, pidfile, killer, asked, unit>>

\* restart_server, or `d` in the terminal.
AskRestart(p) ==
    /\ Serves(p) /\ Counts
    /\ Becomes(p, [proc[p] EXCEPT !.again = TRUE])
    /\ UNCHANGED <<disk, override, method, port, pidfile, killer, asked, unit>>

-----------------------------------------------------------------------------
(* A restart, and the end                                                  *)

\* It stops listening and waits until nobody answers.
Leave(p) ==
    /\ Serves(p) /\ proc[p].again
    /\ Turns(p, "leaving") /\ Frees(p)
    /\ UNCHANGED <<disk, override, method, pidfile, killer, ops, asked, unit>>

HandOver(p) ==
    /\ proc[p].pc = "leaving"
    /\ Turns(p, "handing") /\ DropGuard
    /\ UNCHANGED <<disk, override, method, port, killer, ops, asked, unit>>

\* spawn_detached_child, in a session of its own, and exit.
SpawnNext(p) ==
    /\ proc[p].pc = "handing"
    /\ Unremembered # {}
    /\ proc' = [proc EXCEPT ![p] = Ended, ![NewPid] = Starting(proc[p].member)]
    /\ Frees(p) /\ Forgets(p)
    /\ UNCHANGED <<file, tmp, crossed, override, method, pidfile, killer, ops, asked, unit>>

\* Told to stop, it closes the port and lets requests end.
Quit(p) ==
    /\ Serves(p) /\ proc[p].stop
    /\ Turns(p, "draining") /\ Frees(p)
    /\ UNCHANGED <<disk, override, method, pidfile, killer, ops, asked, unit>>

\* They have ended, or SHUTDOWN_GRACE is over.
Drained(p) ==
    /\ proc[p].pc = "draining"
    /\ Becomes(p, Ended) /\ DropGuard /\ Forgets(p)
    /\ UNCHANGED <<file, tmp, crossed, override, method, port, killer, ops, asked, unit>>

\* SIGTERM or SIGINT, from the keyboard or the service manager.
Signalled(p) == IF Handles(p) THEN [proc[p] EXCEPT !.stop = TRUE] ELSE Ended
TellToStop(p) ==
    /\ Alive(p) /\ Counts
    /\ Becomes(p, Signalled(p)) /\ asked' = asked \cup {"user"}
    /\ UNCHANGED <<disk, override, method, port, pidfile, killer, unit>>

\* kill_server: the pid is read, looked up and signalled; when it has ended,
\* or has not for a while, the file is removed.
KillRead ==
    /\ killer.pc = "idle" /\ pidfile # None /\ Counts
    /\ killer' = [pc |-> "look", pid |-> pidfile]
    /\ UNCHANGED <<disk, override, method, port, pidfile, proc, asked, unit>>

KillSignal ==
    /\ killer.pc = "look"
    /\ IF Alive(killer.pid)
       THEN /\ Becomes(killer.pid, Signalled(killer.pid)) /\ asked' = asked \cup {"user"}
            /\ killer' = [killer EXCEPT !.pc = "wait"] /\ UNCHANGED pidfile
       ELSE DropGuard /\ killer' = [pc |-> "idle", pid |-> None] /\ UNCHANGED <<proc, asked>>
    /\ UNCHANGED <<disk, override, method, port, ops, unit>>

KillRemove ==
    /\ killer.pc = "wait"
    /\ DropGuard /\ killer' = [pc |-> "idle", pid |-> None]
    /\ UNCHANGED <<disk, override, method, port, proc, ops, asked, unit>>

-----------------------------------------------------------------------------
(* The systemd unit                                                        *)

Members == {p \in Procs : proc[p].member}
\* SIGTERM to every process of the unit.
SignalUnit == proc' = [p \in Procs |-> IF p \in Members THEN Signalled(p) ELSE proc[p]]

\* `mynd service install`: started, or started again.  What of a first start
\* the immediate restart undoes is left out.
InstallUnit ==
    /\ Counts
    /\ SignalUnit /\ UNCHANGED asked
    /\ unit' = [unit EXCEPT !.again = TRUE]
    /\ UNCHANGED <<disk, override, method, port, pidfile, killer>>

UninstallUnit ==
    /\ unit.main # None \/ unit.again
    /\ Counts
    /\ SignalUnit /\ asked' = asked \cup {"user"}
    /\ unit' = [unit EXCEPT !.again = FALSE]
    /\ UNCHANGED <<disk, override, method, port, pidfile, killer>>

\* The main process has ended: with KillMode left at its default, systemd
\* stops the others.
UnitEnds ==
    /\ unit.main # None /\ ~Alive(unit.main)
    /\ SignalUnit /\ asked' = IF Members = {} THEN asked ELSE asked \cup {"unit"}
    /\ unit' = [unit EXCEPT !.main = None]
    /\ UNCHANGED <<disk, override, method, port, pidfile, killer, ops>>

UnitStarts ==
    /\ unit.main = None /\ unit.again
    /\ Members = {}
    /\ Unremembered # {}
    /\ Becomes(NewPid, Starting(TRUE))
    /\ unit' = [main |-> NewPid, again |-> FALSE]
    /\ UNCHANGED <<disk, override, method, port, pidfile, killer, ops, asked>>

-----------------------------------------------------------------------------
(* Updates                                                                 *)

\* InstallMethod: only a program the install script put there is replaced.
Replaceable == method = "script"

\* apply_update: one at a time; the update runs in a task of its own.
Apply(p) ==
    /\ Serves(p) /\ Counts
    /\ Replaceable /\ proc[p].status # "updating"
    /\ Becomes(p, [proc[p] EXCEPT !.status = "updating", !.error = FALSE, !.scripts = @ + 1])
    /\ UNCHANGED <<disk, override, method, port, pidfile, killer, asked, unit>>

ScriptRuns(p) == Works(p) /\ proc[p].scripts > 0

\* run_update: the script failed, or the new program could not be run.
UpdateFails(p) ==
    /\ ScriptRuns(p)
    /\ Becomes(p, [proc[p] EXCEPT !.status = "failed", !.error = TRUE, !.scripts = @ - 1])
    /\ UNCHANGED <<disk, override, method, port, pidfile, killer, ops, asked, unit>>

\* restart: the new program in the same process, whatever the old one was
\* about to do; its sockets are closed, its guard never dropped.
Exec(p) ==
    /\ ScriptRuns(p)
    /\ Becomes(p, Starting(proc[p].member)) /\ Frees(p) /\ Forgets(p)
    /\ UNCHANGED <<file, tmp, crossed, override, method, pidfile, killer, ops, asked, unit>>

\* Whether GitHub names no version that can be compared.
NoAnswer == BOOLEAN

\* check_once, before and after the request to GitHub.
BeginCheck(p) ==
    /\ Serves(p) /\ ~proc[p].checks /\ proc[p].status # "updating"
    /\ Counts
    /\ Becomes(p, [proc[p] EXCEPT !.checks = TRUE])
    /\ UNCHANGED <<disk, override, method, port, pidfile, killer, asked, unit>>

\* Mutant: a check that ends sets the status it found.
EndCheckIdle(p) ==
    /\ Works(p) /\ proc[p].checks
    /\ \E failed \in NoAnswer :
         Becomes(p, [proc[p] EXCEPT !.checks = FALSE, !.error = failed, !.status = "idle"])
    /\ UNCHANGED <<disk, override, method, port, pidfile, killer, ops, asked, unit>>

EndCheck(p) ==
    /\ Works(p) /\ proc[p].checks
    /\ \E failed \in NoAnswer : Becomes(p, [proc[p] EXCEPT !.checks = FALSE, !.error = failed])
    /\ UNCHANGED <<disk, override, method, port, pidfile, killer, ops, asked, unit>>

-----------------------------------------------------------------------------
Goes(p) ==
    \/ Load(p) \/ Decide(p) \/ Bind(p) \/ WritePidfile(p)
    \/ Leave(p) \/ HandOver(p) \/ SpawnNext(p) \/ Quit(p) \/ Drained(p)

LifeNext ==
    \/ \E p \in Procs :
         \/ Goes(p) \/ AskRestart(p) \/ TellToStop(p)
         \/ Apply(p) \/ UpdateFails(p) \/ Exec(p) \/ BeginCheck(p) \/ EndCheck(p)
         \/ \E on \in BOOLEAN : SetHive(p, on)
         \/ \E w \in Savers, patch \in Patches : Save(w, p, patch)
    \/ \E w \in Savers :
         \/ MatrixLogin(w) \/ DiscordLogin(w)
         \/ OpenTmp(w) \/ WriteTmp(w) \/ RenameTmp(w) \/ EmptyFile(w) \/ WriteFile(w)
    \/ InstallUnit \/ UninstallUnit \/ UnitEnds \/ UnitStarts
    \/ Start \/ KillRead \/ KillSignal \/ KillRemove

\* A process goes on with its start, its restart and its end, and systemd
\* with the unit.  An install script may run for ever, and so may a request
\* that saves.
LifeFairness == WF_lifeVars(UnitEnds \/ UnitStarts) /\ \A p \in Procs : WF_lifeVars(Goes(p))

-----------------------------------------------------------------------------
(* What is checked                                                         *)

\* Cloud sync and the hive are never both on in a server that has started,
\* whatever was saved and switched in whichever order, by servers of before
\* or after a restart (run_up); and the file never asks for both
\* (patch_dashboard_config), so that a start never fails for that reason.
\* Two saves that write at the same time may leave a mixture of their texts
\* (write_private_file, write_discord_login), and only they do.
ModesExclude ==
    /\ \A p \in Procs : Works(p) => ~(proc[p].sync /\ proc[p].hive)
    /\ Loads(file) \/ (crossed /\ file = Mixed)

\* The status says that an update is under way exactly while one is, and
\* there is never a second one beside it: neither a check that began before
\* nor a second request changes that (update.rs, api/update.rs).
UpdateIsTold ==
    \A p \in Procs : Works(p) => proc[p].scripts = IF proc[p].status = "updating" THEN 1 ELSE 0

\* A restart, an update's included, ends in a server that serves, unless
\* somebody, systemd included, stops one (run_up, spawn_detached_child,
\* restart): the port is free when the next process asks for it, and the
\* settings load - if no two saves have written them at the same time.
ServerComesBack ==
    (unit.again \/ \E p \in Procs : Alive(p) /\ ~Serves(p))
        ~> (asked # {} \/ crossed \/ \E p \in Procs : Serves(p))

\* A restart asked for in the dashboard leaves a server that serves, unless
\* the user stops one: "the caller aborts its own listeners and exits right
\* after this returns, so the child can bind the now-free port" (http.rs).
RestartServes ==
    (\E p \in Procs : proc[p].pc = "handing") ~> ("user" \in asked \/ \E p \in Procs : Serves(p))
=============================================================================
