------------------------------ MODULE Settings ------------------------------
(***************************************************************************)
(* The registry of tag namespaces, which the devices of a hive share       *)
(* (api/settings.rs, api/hive.rs, hive/sync_loop.rs, cli/tags.rs): the one *)
(* saved last, by the clock of the device it was saved on, replaces the    *)
(* others.  A device keeps the registry and the stamp under two keys and   *)
(* writes them with two statements, without a lock around them; a save     *)
(* from the dashboard, a push received and a pull may each be between the  *)
(* two at the same time.  A registry is pushed once, may be lost on the    *)
(* way, and is pulled by whoever finds a later stamp with a peer.          *)
(*                                                                         *)
(* A registry is a member of a small set; that the defaults are filled in  *)
(* where it is read does not show, since all devices have the same.  The   *)
(* clocks may differ: a save takes any stamp.  One that is implausibly far *)
(* ahead is refused until its time comes (hive_timestamp_is_plausible): a  *)
(* push so refused is as good as lost, a pull is made later.               *)
(***************************************************************************)
EXTENDS Integers, FiniteSets

CONSTANTS
    Devices,
    Registries,  \* the registries that are well-formed
    Default,     \* what a device starts with
    Altered,     \* registries in which a predefined namespace was changed
    Guarded,     \* devices with guard_predefined_namespaces
    MaxStamp,    \* bound: the last second
    MaxSaves,    \* bound: saves and edits
    NoOne

ASSUME RegistriesAssumption ==
    /\ Default \in Registries /\ Altered \subseteq Registries /\ NoOne \notin Registries
    /\ MaxStamp \in Nat /\ MaxSaves \in Nat

Stores == {"save", "push", "pull"}

VARIABLES
    registry,  \* registry[d]: tag_namespaces
    stamp,     \* stamp[d]: tag_namespaces_updated_at
    store,     \* store[d][k]: a registry being stored, by a save, a push or a pull
    pusher,    \* pusher[d]: a push d is about to send
    sent,      \* pushes on their way
    saves,     \* saves and edits so far
    used,      \* the stamps of saves: history
    mixed      \* the stamps that more than one registry may go under: history

setVars == <<registry, stamp, store, pusher, sent, saves, used, mixed>>

Nothing == [pc |-> "idle", value |-> Default, stamp |-> 0, from |-> NoOne]
NoPush == [pc |-> "idle", value |-> Default]
Stamps == 1..MaxStamp

SetTypeOK ==
    /\ registry \in [Devices -> Registries] /\ stamp \in [Devices -> Nat]
    /\ store \in [Devices -> [Stores -> [pc : {"idle", "fetch", "value", "stamp"}, value : Registries,
                                         stamp : Nat, from : Devices \cup {NoOne}]]]
    /\ pusher \in [Devices -> [pc : {"idle", "due", "read"}, value : Registries]]
    /\ sent \subseteq [to : Devices, value : Registries, stamp : Nat]
    /\ saves \in 0..MaxSaves /\ used \subseteq Stamps /\ mixed \subseteq {0} \cup Stamps

SetInit ==
    /\ registry = [d \in Devices |-> Default] /\ stamp = [d \in Devices |-> 0]
    /\ store = [d \in Devices |-> [k \in Stores |-> Nothing]]
    /\ pusher = [d \in Devices |-> NoPush]
    /\ sent = {} /\ saves = 0 /\ used = {} /\ mixed = {}

Does(d, k, r) == store' = [store EXCEPT ![d][k] = r]
Unpushed(e) == pusher[e].pc = "idle"
\* Nobody is between the two statements, so the registry is that of the stamp.
Settled(d) == \A k \in Stores : store[d][k].pc # "stamp"
\* The stamps that others than k have yet to write to what d has.
Pledged(d, k) == {store[d][j].stamp : j \in {j \in Stores \ {k, "save"} : store[d][j].pc = "stamp"}}
Mixes(stamps) == mixed' = mixed \cup stamps

-----------------------------------------------------------------------------
\* What may be sent to be saved: registries, or something malformed (NoOne).
Bodies == Registries \cup {NoOne}
\* validate_tag_namespaces.
WellFormed(value) == value \in Registries
\* validate_predefined_namespaces_unchanged.
Allowed(d, value) == d \notin Guarded \/ value \notin Altered
\* The command line has its own copy of both.
CliAllowed(d, value) == WellFormed(value) /\ Allowed(d, value)

\* save_tag_settings, the first statement.
SaveRegistry(d, value) ==
    /\ store[d]["save"].pc = "idle" /\ saves < MaxSaves
    /\ WellFormed(value) /\ Allowed(d, value)
    /\ registry' = [registry EXCEPT ![d] = value]
    /\ Does(d, "save", [Nothing EXCEPT !.pc = "stamp"])
    /\ saves' = saves + 1
    /\ Mixes(Pledged(d, "save"))
    /\ UNCHANGED <<stamp, pusher, sent, used>>

\* Mutant: the dashboard's save leaves the stamp, as `mynd tags` does.
SaveStampNot(d) ==
    /\ store[d]["save"].pc = "stamp" /\ Unpushed(d)
    /\ Does(d, "save", Nothing)
    /\ UNCHANGED <<registry, stamp, pusher, sent, saves, used, mixed>>

\* The second, with the time it is by then; a push is due (one at a time).
SaveStamp(d) ==
    /\ store[d]["save"].pc = "stamp" /\ Unpushed(d)
    /\ \E now \in Stamps :
         /\ stamp' = [stamp EXCEPT ![d] = now]
         /\ used' = used \cup {now}
         /\ Mixes({now} \cap used)
    /\ Does(d, "save", Nothing)
    /\ pusher' = [pusher EXCEPT ![d].pc = "due"]
    /\ UNCHANGED <<registry, sent, saves>>

\* push_tag_namespaces_change_to_online_peers: the registry, then the stamp,
\* then one request to each peer that is online.  One that is lost is one
\* that is never received.
PushRead(d) ==
    /\ pusher[d].pc = "due"
    /\ pusher' = [pusher EXCEPT ![d] = [pc |-> "read", value |-> registry[d]]]
    /\ UNCHANGED <<registry, stamp, store, sent, saves, used, mixed>>

PushSend(d) ==
    /\ pusher[d].pc = "read"
    /\ \E online \in SUBSET (Devices \ {d}) :
         sent' = sent \cup {[to |-> e, value |-> pusher[d].value, stamp |-> stamp[d]] : e \in online}
    /\ Mixes(IF Settled(d) /\ pusher[d].value = registry[d] THEN {} ELSE {stamp[d]})
    /\ pusher' = [pusher EXCEPT ![d] = NoPush]
    /\ UNCHANGED <<registry, stamp, store, saves, used>>

-----------------------------------------------------------------------------
\* hive_push: what is not later than one's own is ignored.
Newer(s, d) == s > stamp[d]
Receive(d) ==
    /\ store[d]["push"].pc = "idle"
    /\ \E m \in sent :
         /\ m.to = d /\ sent' = sent \ {m}
         /\ IF Newer(m.stamp, d)
            THEN Does(d, "push", [Nothing EXCEPT !.pc = "value", !.value = m.value, !.stamp = m.stamp])
            ELSE UNCHANGED store
    /\ UNCHANGED <<registry, stamp, pusher, saves, used, mixed>>

\* pull_from_peer: the manifest has the peer's stamp.
Pull(d, e) ==
    /\ d # e /\ store[d]["pull"].pc = "idle"
    /\ Newer(stamp[e], d)
    /\ Does(d, "pull", [Nothing EXCEPT !.pc = "fetch", !.stamp = stamp[e], !.from = e])
    /\ UNCHANGED <<registry, stamp, pusher, sent, saves, used, mixed>>

\* hive_get_tag_namespaces, whose stamp is not looked at.
Fetch(d) ==
    /\ store[d]["pull"].pc = "fetch"
    /\ LET pull == store[d]["pull"] IN
       /\ Does(d, "pull", [Nothing EXCEPT !.pc = "value", !.value = registry[pull.from], !.stamp = pull.stamp])
       /\ Mixes(IF Settled(pull.from) /\ stamp[pull.from] = pull.stamp THEN {} ELSE {pull.stamp})
    /\ UNCHANGED <<registry, stamp, pusher, sent, saves, used>>

FetchFails(d) ==
    /\ store[d]["pull"].pc = "fetch"
    /\ Does(d, "pull", Nothing)
    /\ UNCHANGED <<registry, stamp, pusher, sent, saves, used, mixed>>

StoreValue(d, k) ==
    /\ store[d][k].pc = "value"
    /\ registry' = [registry EXCEPT ![d] = store[d][k].value]
    /\ Does(d, k, [Nothing EXCEPT !.pc = "stamp", !.stamp = store[d][k].stamp])
    /\ Mixes(Pledged(d, k))
    /\ UNCHANGED <<stamp, pusher, sent, saves, used>>

StoreStamp(d, k) ==
    /\ k # "save" /\ store[d][k].pc = "stamp"
    /\ stamp' = [stamp EXCEPT ![d] = store[d][k].stamp]
    /\ Does(d, k, Nothing)
    /\ UNCHANGED <<registry, pusher, sent, saves, used, mixed>>

\* `mynd tags`, which writes the registry and leaves the stamp.
CliEdit(d, value) ==
    /\ saves < MaxSaves /\ CliAllowed(d, value)
    /\ registry' = [registry EXCEPT ![d] = value]
    /\ saves' = saves + 1
    /\ Mixes({stamp[d]} \cup Pledged(d, "save"))
    /\ UNCHANGED <<stamp, store, pusher, sent, used>>

-----------------------------------------------------------------------------
Proceeds(d) ==
    \/ SaveStamp(d) \/ PushRead(d) \/ PushSend(d)
    \/ \E k \in Stores : StoreValue(d, k) \/ StoreStamp(d, k)

SetNext ==
    \E d \in Devices :
      \/ Proceeds(d) \/ Receive(d) \/ Fetch(d) \/ FetchFails(d)
      \/ \E value \in Bodies : SaveRegistry(d, value) \/ CliEdit(d, value)
      \/ \E e \in Devices : Pull(d, e)

\* What has begun to be stored is stored; who finds a later stamp goes on
\* pulling, and not every request fails for ever.
SetFairness ==
    \A d \in Devices :
      WF_setVars(Proceeds(d)) /\ WF_setVars(\E e \in Devices : Pull(d, e)) /\ SF_setVars(Fetch(d))

-----------------------------------------------------------------------------
(* What is checked                                                         *)

\* All have the same registry, or the latest stamp may go with several.
Latest(d) == \A e \in Devices : stamp[e] <= stamp[d]
Agree ==
    \/ \E d \in Devices : Latest(d) /\ stamp[d] \in mixed
    \/ \A d, e \in Devices : registry[d] = registry[e]

\* The devices come to have the same registry, though pushes are lost, clocks
\* differ, and saves, pushes and pulls are compared and stored at the same
\* time with two statements each (save_tag_settings, hive_push,
\* pull_from_peer) - unless the latest stamp there is goes with more than one
\* registry: that of two saves of the same second, of an edit with
\* `mynd tags`, of what was stored across another, or of what was read in the
\* course of a save that took the stamp back.  A later save heals them all.
RegistriesMeet == <>[]Agree
=============================================================================
