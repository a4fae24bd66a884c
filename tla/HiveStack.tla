------------------------------ MODULE HiveStack ------------------------------
(***************************************************************************)
(* The life of the hive stack of one device: `mynd up` starts it, the      *)
(* guard loop pauses it off the trusted networks and resumes it on them,   *)
(* the ping loop keeps the client verifier of its listener up to date, and *)
(* the dashboard's toggle restarts the process with Hive Mode on or off.   *)
(* Each start spawns a listener task on the one sync port of the device;   *)
(* a slot stands for such a task.                                          *)
(***************************************************************************)
EXTENDS Naturals

CONSTANTS
    Networks,  \* networks the device can identify
    Slots,     \* listener tasks
    None,      \* no listener, no network that can be identified, no list
    Syncing,   \* config.toml enables cloud sync
    Events     \* bound on what users, networks and failures do

ASSUME ConstantsAssumption ==
    /\ None \notin Networks \cup Slots
    /\ Syncing \in BOOLEAN
    /\ Events \in Nat

VARIABLES
    enabled,   \* persisted: the dashboard's override of [hive] enabled
    trusted,   \* persisted: hive_trusted_networks
    edit,      \* the list a handler has read and changed, but not written yet
    network,   \* where the device is
    process,   \* of `mynd up`; its API has stopped when it is "leaving"
    mode,      \* Hive Mode of this process
    permit,    \* the restart asked for, in restart_notify
    guard,     \* where the guard loop, or the start of the process, is
    stack,     \* the listener of the HiveStackHandle
    listener,  \* listener[l]: state of the listener task l
    stale,     \* listeners whose verifier lacks a change of the roster
    view,      \* what the ping loop has read of the roster
    leaked,    \* a resume has failed after it spawned its listener
    events

settings == <<enabled, trusted, edit, network>>
server == <<process, mode, permit>>
sockets == <<stack, listener, stale, view, leaked>>
vars == <<enabled, trusted, edit, network, process, mode, permit, guard,
          stack, listener, stale, view, leaked, events>>

Asleep == [at |-> "asleep", saw |-> {}, slot |-> None]
AllFree == [l \in Slots |-> "free"]

TypeOK ==
    /\ enabled \in BOOLEAN /\ trusted \subseteq Networks
    /\ edit \in (SUBSET Networks) \cup {None}
    /\ network \in Networks \cup {None}
    /\ process \in {"down", "starting", "up", "leaving"}
    /\ mode \in {"on", "off", "no key"} /\ permit \in BOOLEAN
    /\ guard \in [at : {"asleep", "read", "merging", "discovering"},
                  saw : SUBSET Networks, slot : Slots \cup {None}]
    /\ guard.at = "discovering" => guard.slot \in Slots
    /\ stack \in Slots \cup {None}
    /\ listener \in [Slots -> {"free", "binding", "serving", "closing"}]
    /\ stale \subseteq Slots
    /\ view \in {"none", "current", "old"}
    /\ leaked \in BOOLEAN
    /\ events \in 0..Events

Init ==
    /\ enabled \in BOOLEAN /\ trusted = {} /\ edit = None
    /\ network \in Networks \cup {None}
    /\ process = "down" /\ mode = "off" /\ permit = FALSE
    /\ guard = Asleep
    /\ stack = None /\ listener = AllFree /\ stale = {} /\ view = "none"
    /\ leaked = FALSE
    /\ events = 0

Spend == events < Events /\ events' = events + 1

Running == process \in {"up", "leaving"}

\* All tasks and sockets of the process go with it.
Exit ==
    /\ process' = "down" /\ mode' = "off" /\ permit' = FALSE
    /\ edit' = None
    /\ guard' = Asleep
    /\ stack' = None /\ listener' = AllFree /\ stale' = {} /\ view' = "none"
    /\ leaked' = FALSE
    /\ UNCHANGED <<enabled, trusted, network>>

-----------------------------------------------------------------------------
(* Users and the world.                                                    *)

Move(n) ==
    /\ n # network
    /\ network' = n
    /\ Spend
    /\ UNCHANGED <<enabled, trusted, edit, server, guard, sockets>>

Edited(n) == {trusted \cup {n}, trusted \ {n}}

\* Adding and removing read the list, change it and write it back.
EditRead(n) ==
    /\ process = "up" /\ edit = None
    /\ edit' \in Edited(n)
    /\ Spend
    /\ UNCHANGED <<enabled, trusted, network, server, guard, sockets>>

EditWrite ==
    /\ Running /\ edit # None
    /\ trusted' = edit
    /\ edit' = None
    /\ UNCHANGED <<enabled, network, server, guard, sockets, events>>

\* A second handler reads and writes while the first has not written.
EditMeanwhile(n) ==
    /\ process = "up" /\ edit # None
    /\ trusted' \in Edited(n)
    /\ Spend
    /\ UNCHANGED <<enabled, edit, network, server, guard, sockets>>

\* Mutant of SetEnabled: the restart is not asked for.
SetEnabledQuietly(b) ==
    /\ process = "up"
    /\ ~(b /\ Syncing)
    /\ enabled' = b
    /\ Spend
    /\ UNCHANGED <<permit, trusted, edit, network, process, mode, guard, sockets>>

SetEnabled(b) ==
    /\ process = "up"
    /\ ~(b /\ Syncing)
    /\ enabled' = b
    /\ permit' = TRUE
    /\ Spend
    /\ UNCHANGED <<trusted, edit, network, process, mode, guard, sockets>>

\* A pairing, a revocation or gossip changes the roster.
RosterChanges ==
    /\ Running /\ mode = "on"
    /\ stale' = Slots
    /\ view' = IF view = "current" THEN "old" ELSE view
    /\ Spend
    /\ UNCHANGED <<settings, server, guard, stack, listener, leaked>>

Crash == process # "down" /\ Exit /\ Spend

-----------------------------------------------------------------------------
(* run_up.                                                                 *)

\* An empty list means that the guard is off.
StartNow == trusted = {} \/ network \in trusted

\* bootstrap_self_identity fails if no keyring can be reached.
Boot ==
    /\ process = "down"
    /\ \/ mode' = (IF enabled /\ ~Syncing THEN "on" ELSE "off") /\ UNCHANGED events
       \/ enabled /\ ~Syncing /\ mode' = "no key" /\ Spend
    /\ IF mode' = "on" /\ StartNow
       THEN process' = "starting" /\ guard' = [guard EXCEPT !.at = "merging"]
       ELSE process' = "up" /\ UNCHANGED guard
    /\ UNCHANGED <<settings, permit, sockets>>

\* The API is aborted, but not the hive stack, until the child is spawned.
Restart ==
    /\ process = "up" /\ permit
    /\ process' = "leaving"
    /\ permit' = FALSE
    /\ UNCHANGED <<settings, mode, guard, sockets, events>>

Leave == process = "leaving" /\ Exit /\ UNCHANGED events

-----------------------------------------------------------------------------
(* spawn_hive_stack, for the start of the process and for every resume.    *)

\* The listener gets a verifier of the roster as it is now.
SpawnListener(l) ==
    /\ guard.at = "merging" /\ listener[l] = "free"
    /\ listener' = [listener EXCEPT ![l] = "binding"]
    /\ stale' = stale \ {l}
    /\ guard' = [guard EXCEPT !.at = "discovering", !.slot = l]
    /\ UNCHANGED <<settings, server, stack, view, leaked, events>>

SpawnDone ==
    /\ guard.at = "discovering"
    /\ stack' = guard.slot
    /\ guard' = Asleep
    /\ process' = IF process = "starting" THEN "up" ELSE process
    /\ UNCHANGED <<settings, mode, permit, listener, stale, view, leaked, events>>

\* hive_merge_roster fails, or later the discovery: mDNS, or no address yet.
\* An error ends a process that starts; the guard loop only reports it, and
\* nobody has a handle of the listener.
SpawnFails ==
    /\ guard.at \in {"merging", "discovering"}
    /\ Spend
    /\ IF process = "starting"
       THEN Exit
       ELSE /\ guard' = Asleep
            /\ leaked' = (leaked \/ guard.at = "discovering")
            /\ UNCHANGED <<settings, server, stack, listener, stale, view>>

\* One socket at a time can have the port; the task of another ends.
Bind(l) ==
    /\ listener[l] = "binding"
    /\ listener' = [listener EXCEPT ![l] =
                      IF \E k \in Slots : listener[k] \in {"serving", "closing"}
                      THEN "free" ELSE "serving"]
    /\ UNCHANGED <<settings, server, guard, stack, stale, view, leaked, events>>

\* The runtime drops an aborted task, and its socket.
Close(l) ==
    /\ listener[l] = "closing"
    /\ listener' = [listener EXCEPT ![l] = "free"]
    /\ UNCHANGED <<settings, server, guard, stack, stale, view, leaked, events>>

-----------------------------------------------------------------------------
(* run_guard_loop.                                                         *)

\* Ticks are 15 s apart: binding and dropping sockets is over by then.
GuardRead ==
    /\ Running /\ mode = "on" /\ guard.at = "asleep"
    /\ \A l \in Slots : listener[l] \notin {"binding", "closing"}
    /\ guard' = [guard EXCEPT !.at = "read", !.saw = trusted]
    /\ UNCHANGED <<settings, server, sockets, events>>

\* Mutant of CurrentIsTrusted: where it is not known, the device is at home.
TrustedOrUnknown == network \in guard.saw \cup {None}

CurrentIsTrusted == network \in guard.saw

GuardKeep ==
    /\ guard.at = "read"
    /\ guard.saw = {} \/ (CurrentIsTrusted <=> stack # None)
    /\ guard' = Asleep
    /\ UNCHANGED <<settings, server, sockets, events>>

\* Mutant of GuardPause: all tasks but the listener are aborted.
GuardPauseLoopsOnly ==
    /\ guard.at = "read" /\ guard.saw # {} /\ ~CurrentIsTrusted /\ stack # None
    /\ stack' = None /\ view' = "none"
    /\ guard' = Asleep
    /\ UNCHANGED <<settings, server, stale, listener, leaked, events>>

\* pause() aborts the listener and the loops.
GuardPause ==
    /\ guard.at = "read" /\ guard.saw # {} /\ ~CurrentIsTrusted /\ stack # None
    /\ listener' = [listener EXCEPT ![stack] = IF @ = "serving" THEN "closing" ELSE "free"]
    /\ stack' = None /\ view' = "none"
    /\ guard' = Asleep
    /\ UNCHANGED <<settings, server, stale, leaked, events>>

GuardResume ==
    /\ guard.at = "read" /\ guard.saw # {} /\ CurrentIsTrusted /\ stack = None
    /\ guard' = [guard EXCEPT !.at = "merging"]
    /\ UNCHANGED <<settings, server, sockets, events>>

-----------------------------------------------------------------------------
(* run_ping_loop, as far as the verifier goes.                             *)

PingRead ==
    /\ stack # None /\ view = "none"
    /\ view' = "current"
    /\ UNCHANGED <<settings, server, guard, stack, listener, stale, leaked, events>>

\* Mutant of PingReload: the verifier of the listener is not replaced.
PingReloadNothing ==
    /\ view # "none"
    /\ view' = "none"
    /\ UNCHANGED <<settings, server, guard, stack, listener, stale, leaked, events>>

PingReload ==
    /\ view # "none"
    /\ stale' = IF view = "current" THEN stale \ {stack} ELSE stale
    /\ view' = "none"
    /\ UNCHANGED <<settings, server, guard, stack, listener, leaked, events>>

-----------------------------------------------------------------------------
Spawn == SpawnDone \/ \E l \in Slots : SpawnListener(l)
Sockets == \E l \in Slots : Bind(l) \/ Close(l)
GuardDecide == GuardKeep \/ GuardPause \/ GuardResume

World ==
    \/ \E n \in Networks \cup {None} : Move(n)
    \/ \E n \in Networks : EditRead(n) \/ EditMeanwhile(n)
    \/ \E b \in BOOLEAN : SetEnabled(b)
    \/ RosterChanges \/ Crash \/ SpawnFails

Next ==
    \/ World
    \/ EditWrite \/ Boot \/ Restart \/ Leave
    \/ Spawn \/ Sockets
    \/ GuardRead \/ GuardDecide
    \/ PingRead \/ PingReload

\* The runtime polls every task and the loops go on for ever.  Whether a
\* process that has ended is started again is up to the deployment: the child
\* it spawns dies with a systemd unit, and only that unit restarts what crashed.
Fairness ==
    /\ WF_vars(EditWrite) /\ WF_vars(Restart) /\ WF_vars(Leave)
    /\ WF_vars(Spawn) /\ WF_vars(Sockets)
    /\ WF_vars(GuardRead) /\ WF_vars(GuardDecide)
    /\ WF_vars(PingRead) /\ WF_vars(PingReload)

Spec == Init /\ [][Next]_vars
FairSpec == Spec /\ Fairness

-----------------------------------------------------------------------------
(* Properties.                                                             *)

Paused == Running /\ stack = None /\ guard.at \in {"asleep", "read"}

(* While the stack is paused, no listener serves the hive; pause() says    *)
(* "fully stopping this device from advertising or serving".               *)
PausedIsSilent == Paused => \A l \in Slots : listener[l] \in {"free", "closing"}

(* ... at least not unless a resume has failed half-way: whatever pauses,  *)
(* resumes, crashes and restarts do, a listener without a handle is one    *)
(* that a failed start left behind.                                        *)
SilentUnlessLeaked == ~leaked => PausedIsSilent

(* A stack that counts as running has a listener that serves or is about   *)
(* to, unless such a leftover occupies its port.                           *)
StackServes ==
    ~leaked /\ stack # None => listener[stack] \in {"binding", "serving"}

(* A device that stays off its trusted networks ends up paused, though the *)
(* list and the network are read at different times and may change between;*)
(* one that stays on a trusted network ends up with its stack running.     *)
StackFollowsNetwork ==
    /\ <>[](Running /\ trusted # {} /\ network \notin trusted) => <>[](stack = None)
    /\ <>[](process = "up" /\ mode = "on" /\ network \in trusted) => <>[](stack # None)

(* The verifier of the stack's listener catches up with every change of    *)
(* the roster, so a revocation takes effect without a restart.             *)
VerifierCatchesUp ==
    \A l \in Slots : stack = l /\ l \in stale ~> ~(stack = l /\ l \in stale)

(* What the toggle was set to last is what the process does, or it makes   *)
(* room for one that does: none lives on in the mode of an earlier setting,*)
(* whatever toggles, restarts, crashes and failed starts came before and   *)
(* whoever starts the process again.                                       *)
Outdated == Running /\ ((mode = "off") <=> (enabled /\ ~Syncing))
ModeFollowsSetting == Outdated ~> ~Outdated
=============================================================================
