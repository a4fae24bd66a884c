---------------------------- MODULE RosterGossip ----------------------------
(***************************************************************************)
(* Who is a member of a hive.  Every device keeps a roster of its own      *)
(* (table hive_devices) and merges into it what it is told: by a device    *)
(* that pairs with it, by the one it pairs with, by the peers it pings and *)
(* by those that push a revocation to it (hive/gossip.rs).  The ping loop  *)
(* also decides whose client certificates the sync listener accepts.       *)
(*                                                                         *)
(* Every device runs this program, so join and revocation records verify,  *)
(* carry the identity of the entry they are attached to and are made by    *)
(* the device they name; what merge_roster does with others is left out.   *)
(***************************************************************************)
EXTENDS Naturals, FiniteSets

CONSTANTS
    Devices,
    Founders,     \* devices that already form one hive
    Nobody,       \* not a device
    Online,       \* those a pusher may believe to be online
    Reach,        \* <<d, p>>: d has discovered an address of p
    MaxMeetings,  \* bound: devices paired with another one, each once
    MaxRevokes,   \* bound: devices revoked by another one, each once
    MaxFaults     \* bound: requests that fail and restarts

ASSUME ConstantsAssumption ==
    /\ Founders \subseteq Devices
    /\ Nobody \notin Devices
    /\ Online \subseteq Devices
    /\ Reach \subseteq Devices \X Devices
    /\ MaxMeetings \in Nat
    /\ MaxRevokes \in Nat
    /\ MaxFaults \in Nat

VARIABLES
    roster,    \* roster[d][t]: what d's table says of t
    accepted,  \* accepted[d]: whose certificates d's sync listener accepts
    ping,      \* ping[d]: where d's ping loop is
    tx,        \* tx[d]: the transaction open on d's only connection
    announce,  \* announce[d]: a push of d's roster has been spawned
    net,       \* requests and responses on their way
    met,       \* history: <<n, p>>, n has paired with p
    issued,    \* history: <<r, t>>, r's user has revoked t
    faults     \* failed requests and restarts so far

vars == <<roster, accepted, ping, tx, announce, net, met, issued, faults>>
history == <<met, issued, faults>>

Entry == [status: {"unknown", "active", "revoked"}, by: Devices \cup {Nobody}]
Unknown == [status |-> "unknown", by |-> Nobody]

Active == [status |-> "active", by |-> Nobody]
RevokedBy(r) == [status |-> "revoked", by |-> r]
IsRevoked(entry) == entry.status = "revoked"
Roster == [Devices -> Entry]
Only(t, entry) == [u \in Devices |-> IF u = t THEN entry ELSE Unknown]
NoRoster == [u \in Devices |-> Unknown]

Members(r) == {t \in Devices : r[t].status = "active"}

Ping == [pc: {"sleep", "round", "merge", "commit"}, peers: SUBSET Devices, got: Roster]
Tx == [kind: {"none", "ping", "push", "revoke", "pair", "join"},
       merged: Roster, about: Devices]
NoTx(d) == [kind |-> "none", merged |-> NoRoster, about |-> d]
Message == [type: {"push", "joined"}, from: Devices, to: Devices, roster: Roster]

TypeOK ==
    /\ roster \in [Devices -> Roster]
    /\ accepted \in [Devices -> SUBSET Devices]
    /\ ping \in [Devices -> Ping]
    /\ tx \in [Devices -> Tx]
    /\ announce \in [Devices -> BOOLEAN]
    /\ net \in SUBSET Message
    /\ met \in SUBSET (Devices \X Devices)
    /\ issued \in SUBSET (Devices \X Devices)
    /\ faults \in 0..MaxFaults

Asleep == [pc |-> "sleep", peers |-> {}, got |-> NoRoster]

\* Every device has started its hive stack, which made it a member of its own
\* hive, and the founders have already paired with each other.
Hive(d) == IF d \in Founders THEN Founders ELSE {d}

Init ==
    /\ roster = [d \in Devices |->
                    [t \in Devices |-> IF t \in Hive(d) THEN Active ELSE Unknown]]
    /\ accepted = [d \in Devices |-> Hive(d)]
    /\ ping = [d \in Devices |-> Asleep]
    /\ tx = [d \in Devices |-> NoTx(d)]
    /\ announce = [d \in Devices |-> FALSE]
    /\ net = {} /\ met = {} /\ issued = {}
    /\ faults = 0

-----------------------------------------------------------------------------
(* merge_roster: a first-seen device is Active whatever is said of it, a   *)
(* revocation is never undone, and one is believed only of a revoker that  *)
(* was Active in the local roster before the merge, or of the device       *)
(* itself.                                                                 *)
Believed(local, t, entry) ==
    IsRevoked(entry) /\ (entry.by = t \/ entry.by \in Members(local))

\* Mutant of MergeEntry: what is told last wins.
MergeEntryLastWord(local, t, entry) ==
    IF entry.status = "unknown" \/ (IsRevoked(entry) /\ ~Believed(local, t, entry))
    THEN local[t] ELSE entry

\* Mutant of MergeEntry: a device that is first heard of as revoked is skipped.
MergeEntryNoNewRevoked(local, t, entry) ==
    IF entry.status = "unknown" \/ (local[t].status = "unknown" /\ IsRevoked(entry))
    THEN local[t]
    ELSE IF local[t].status = "unknown" THEN Active
    ELSE IF local[t].status = "active" /\ Believed(local, t, entry) THEN entry
    ELSE local[t]

MergeEntry(local, t, entry) ==
    IF entry.status = "unknown" THEN local[t]
    ELSE IF local[t].status = "unknown" THEN Active
    ELSE IF local[t].status = "active" /\ Believed(local, t, entry) THEN entry
    ELSE local[t]

Merge(local, incoming) == [t \in Devices |-> MergeEntry(local, t, incoming[t])]

-----------------------------------------------------------------------------
(* hive_merge_roster reads the roster, merges and writes it back inside    *)
(* one transaction.  All tasks of a device share one connection, and BEGIN *)
(* on a connection that is inside a transaction is an error.               *)
CanBegin(d) == tx[d].kind = "none"

Begin(d, kind, incoming, about) ==
    tx' = [tx EXCEPT ![d] =
              [kind |-> kind, merged |-> Merge(roster[d], incoming), about |-> about]]

\* The commit, and what the caller goes on to do with the merged roster.
Commit(d) ==
    LET kind == tx[d].kind
        merged == tx[d].merged
        about == tx[d].about
        joined == [type |-> "joined", from |-> d, to |-> about, roster |-> merged]
    IN  /\ kind # "none"
        /\ roster' = [roster EXCEPT ![d] = merged]
        /\ tx' = [tx EXCEPT ![d] = NoTx(d)]
        /\ ping' = IF kind = "ping" THEN [ping EXCEPT ![d].pc = "round"] ELSE ping
        /\ announce' = [announce EXCEPT ![d] = @ \/ (kind = "revoke" /\ IsRevoked(merged[about]))]
        /\ net' = IF kind = "pair" /\ merged[about].status = "active"
                  THEN net \cup {joined} ELSE net
        /\ UNCHANGED <<accepted, history>>

-----------------------------------------------------------------------------
(* Pairing.                                                                *)

\* hive_pair on p: n's user has typed the code that p's user was shown.  A
\* merge that cannot begin is an error response.
Pair(n, p) ==
    /\ n # p
    /\ <<n, p>> \notin met /\ Cardinality(met) < MaxMeetings
    /\ met' = met \cup {<<n, p>>}
    /\ CanBegin(p)
    /\ Begin(p, "pair", Only(n, Active), n)
    /\ UNCHANGED <<roster, accepted, ping, announce, net, issued, faults>>

\* The rest of hive_join on n: the roster p answered with is merged.
Joined(m) ==
    /\ m \in net /\ m.type = "joined"
    /\ net' = net \ {m}
    /\ IF CanBegin(m.to) THEN Begin(m.to, "join", m.roster, m.to) ELSE UNCHANGED tx
    /\ UNCHANGED <<roster, accepted, ping, announce, history>>

-----------------------------------------------------------------------------
(* Revocation.                                                             *)

\* hive_revoke_device: refused for the device itself and for one that is not
\* an Active entry.
Revoke(d, t) ==
    /\ t # d
    /\ roster[d][t].status = "active"
    /\ <<d, t>> \notin issued /\ Cardinality(issued) < MaxRevokes
    /\ issued' = issued \cup {<<d, t>>}
    /\ CanBegin(d)
    /\ Begin(d, "revoke", Only(t, RevokedBy(d)), t)
    /\ UNCHANGED <<roster, accepted, ping, announce, net, met, faults>>

\* push_revocation_to_online_peers, whichever of the Active peers are online.
Announce(d, to) ==
    /\ announce[d]
    /\ announce' = [announce EXCEPT ![d] = FALSE]
    /\ net' = net \cup {[type |-> "push", from |-> d, to |-> p, roster |-> roster[d]] : p \in to}
    /\ UNCHANGED <<roster, accepted, ping, tx, history>>

\* hive_push with a roster, if the listener accepts the sender's certificate.
Pushed(m) ==
    /\ m \in net /\ m.type = "push"
    /\ net' = net \ {m}
    /\ IF m.from \in accepted[m.to] /\ CanBegin(m.to)
       THEN Begin(m.to, "push", m.roster, m.to) ELSE UNCHANGED tx
    /\ UNCHANGED <<roster, accepted, ping, announce, history>>

-----------------------------------------------------------------------------
(* run_ping_loop.                                                          *)

SetPing(d, p) == ping' = [ping EXCEPT ![d] = p]

\* A round visits the Active peers of now; one without an address is skipped.
PingStart(d) ==
    /\ ping[d].pc = "sleep"
    /\ SetPing(d, [ping[d] EXCEPT !.pc = "round",
                      !.peers = {p \in Members(roster[d]) \ {d} : <<d, p>> \in Reach}])
    /\ UNCHANGED <<roster, accepted, tx, announce, net, history>>

\* GET /hive/roster; a peer whose listener refuses d is skipped as well.
PingPeer(d, p) ==
    LET rest == ping[d].peers \ {p} IN
    /\ ping[d].pc = "round"
    /\ p \in ping[d].peers
    /\ SetPing(d, IF d \in accepted[p]
                  THEN [pc |-> "merge", peers |-> rest, got |-> roster[p]]
                  ELSE [ping[d] EXCEPT !.peers = rest])
    /\ UNCHANGED <<roster, accepted, tx, announce, net, history>>

\* A merge that fails is logged, and the round goes on.
PingMerge(d) ==
    /\ ping[d].pc = "merge"
    /\ IF CanBegin(d)
       THEN /\ Begin(d, "ping", ping[d].got, d)
            /\ SetPing(d, [ping[d] EXCEPT !.pc = "commit", !.got = NoRoster])
       ELSE /\ SetPing(d, [ping[d] EXCEPT !.pc = "round", !.got = NoRoster])
            /\ UNCHANGED tx
    /\ UNCHANGED <<roster, accepted, announce, net, history>>

\* Mutant of PingEnd: the listener keeps the verifier it started with.
PingEndSameVerifier(d) ==
    /\ ping[d].pc = "round"
    /\ ping[d].peers = {}
    /\ SetPing(d, Asleep)
    /\ UNCHANGED <<roster, accepted, tx, announce, net, history>>

\* After every round the listener gets a verifier for the roster of now.
PingEnd(d) ==
    /\ ping[d].pc = "round"
    /\ ping[d].peers = {}
    /\ accepted' = [accepted EXCEPT ![d] = Members(roster[d])]
    /\ SetPing(d, Asleep)
    /\ UNCHANGED <<roster, tx, announce, net, history>>

Fault ==
    /\ faults < MaxFaults
    /\ faults' = faults + 1
    /\ UNCHANGED <<net, met, issued>>

PingLost(d, p) ==
    /\ Fault
    /\ ping[d].pc = "round"
    /\ p \in ping[d].peers
    /\ SetPing(d, [ping[d] EXCEPT !.peers = @ \ {p}])
    /\ UNCHANGED <<roster, accepted, tx, announce>>

\* A new process: spawn_hive_stack merges the device's own entry and builds
\* the first verifier; the open transaction and the spawned tasks are gone.
Restart(d) ==
    LET own == Merge(roster[d], Only(d, Active)) IN
    /\ Fault
    /\ roster' = [roster EXCEPT ![d] = own]
    /\ accepted' = [accepted EXCEPT ![d] = Members(own)]
    /\ tx' = [tx EXCEPT ![d] = NoTx(d)]
    /\ announce' = [announce EXCEPT ![d] = FALSE]
    /\ SetPing(d, Asleep)

-----------------------------------------------------------------------------
PingStep(d) ==
    \/ PingStart(d) \/ PingMerge(d) \/ PingEnd(d)
    \/ \E p \in Devices : PingPeer(d, p)

UserStep == \E d, t \in Devices : Pair(d, t) \/ Revoke(d, t)

NetStep ==
    \/ \E m \in net : Joined(m) \/ Pushed(m)
    \/ \E d \in Devices : \E to \in SUBSET ((Online \cap Members(roster[d])) \ {d}) : Announce(d, to)

FaultStep == \E d \in Devices : Restart(d) \/ \E p \in Devices : PingLost(d, p)

Next ==
    \/ \E d \in Devices : PingStep(d) \/ Commit(d)
    \/ UserStep \/ NetStep \/ FaultStep

\* The ping loop and an open transaction go on; requests may be lost.
Fairness == \A d \in Devices : WF_vars(PingStep(d)) /\ WF_vars(Commit(d))

Spec == Init /\ [][Next]_vars
FairSpec == Spec /\ Fairness

-----------------------------------------------------------------------------
(* Properties.                                                             *)

(* A revocation a device has recorded is never undone or rewritten,        *)
(* whatever stale rosters it is told and however the merges of its pings,  *)
(* pushes, pairings and revocations follow one another: the window between *)
(* reading the roster and writing it back, which hive_merge_roster closes. *)
RevocationIsSticky ==
    [][\A d, t \in Devices : IsRevoked(roster[d][t]) => roster'[d][t] = roster[d][t]]_vars

(* No gossip turns into a revocation: a device revoked anywhere, in a      *)
(* roster or in a message, was revoked by the user of the device named.    *)
RevocationsAreIssued ==
    /\ \A d, t \in Devices : IsRevoked(roster[d][t]) => <<roster[d][t].by, t>> \in issued
    /\ \A m \in net, t \in Devices : IsRevoked(m.roster[t]) => <<m.roster[t].by, t>> \in issued

(* A device stops, for good, to be accepted by the listener of every device *)
(* that knows it revoked, although the verifier is a stale snapshot.       *)
RevokedAreShutOut ==
    <>[](\A d, t \in Devices : IsRevoked(roster[d][t]) => t \notin accepted[d])

\* e pings d for good: each is a member of the other's hive.
HearsFrom(e, d) ==
    d \in Members(roster[e]) /\ e \in Members(roster[d]) /\ <<e, d>> \in Reach

Knows(d, t) == roster[d][t].status # "unknown"

\* e does not believe what d knows of t: it has revoked the revoker.
Disbelieves(e, d, t) == IsRevoked(roster[e][roster[d][t].by])

(* A device that goes on pinging another one ends up knowing the devices    *)
(* and the revocations the other knows, except for a revocation by a        *)
(* device it has itself been told to distrust.                             *)
RosterEventuallySpreads ==
    <>[](\A d, e, t \in Devices : HearsFrom(e, d) =>
            /\ Knows(d, t) => Knows(e, t)
            /\ IsRevoked(roster[d][t]) => IsRevoked(roster[e][t]) \/ Disbelieves(e, d, t))
=============================================================================
