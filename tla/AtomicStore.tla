---------------------------- MODULE AtomicStore ----------------------------
(* What the callers of the memory store are promised, whatever the store   *)
(* does to keep it: every write takes effect at one instant. A call that   *)
(* changes a memory is open from its request to its answer; at some        *)
(* instant in between it changes the memory as it is at that instant. The  *)
(* fields that an edit does not name get the values they had at one        *)
(* earlier instant of the call, not those of the instant of the change.    *)
EXTENDS Naturals

CONSTANTS Ids, Memories, Patches, Clients, None

VARIABLES live, call

vars == <<live, call>>

\* Nobody's request, and the answers.
Idle(a) == [kind |-> "idle", id |-> None, ask |-> None, look |-> None, answer |-> a]

Init == live \in [Ids -> Memories \cup {None}] /\ call = [c \in Clients |-> Idle("none")]

Open(c) == call[c].kind # "idle"
Return(c, a) == call' = [call EXCEPT ![c] = Idle(a)]

\* An edit, or tags to add or to remove, is asked of a memory that exists.
Ask(c) ==
    /\ ~Open(c)
    /\ \E i \in Ids :
         /\ live[i] # None
         /\ call'[c].kind \in {"patch", "add", "remove"} /\ call'[c].ask \in Patches
         /\ call' = [call EXCEPT ![c] = [kind |-> call'[c].kind, id |-> i, ask |-> call'[c].ask,
                                        look |-> live[i], answer |-> "none"]]
    /\ UNCHANGED live

\* A field of an edit is given as a set of at most one value.
Or(given, other) == IF given = {} THEN other ELSE CHOOSE x \in given : TRUE

\* What a call changes, and into what. Nobody brings a deleted memory back
\* by an edit.
Change(m, k, r, look) ==
    CASE k = "patch"  -> [title   |-> Or(r.title, look.title),
                          content |-> Or(r.content, look.content),
                          tags    |-> Or(r.tags, look.tags),
                          layer   |-> m.layer]
      [] k = "add"    -> [m EXCEPT !.tags = @ \cup UNION r.tags]
      [] k = "remove" -> [m EXCEPT !.tags = @ \ UNION r.tags]

Apply(c) ==
    LET q == call[c] IN
    /\ Open(c)
    /\ live[q.id] # None
    /\ live' = [live EXCEPT ![q.id] = Change(@, q.kind, q.ask, q.look)]
    /\ Return(c, "ok")

\* Nothing is left to remove a tag from: the call succeeds all the same.
NothingLeft(c) ==
    /\ call[c].kind = "remove"
    /\ live[call[c].id] = None
    /\ Return(c, "ok")
    /\ UNCHANGED live

Decline(c) ==
    /\ Open(c)
    /\ Return(c, "no")
    /\ UNCHANGED live

\* Writes that depend on nothing read before.
Put(i) ==
    /\ live'[i] \in Memories
    /\ live' = [live EXCEPT ![i] = live'[i]]
    /\ UNCHANGED call
Clear(gone) == live' = [i \in Ids |-> IF i \in gone THEN None ELSE live[i]] /\ UNCHANGED call

\* Whoever holds the store ends: what was asked and not answered is done
\* or not, and never answered.
Crash == call' = [c \in Clients |-> Idle("none")] /\ UNCHANGED live

Next ==
    \/ \E c \in Clients : Ask(c) \/ Apply(c) \/ NothingLeft(c) \/ Decline(c)
    \/ \E i \in Ids : Put(i)
    \/ \E gone \in SUBSET Ids : Clear(gone)
    \/ Crash

Spec == Init /\ [][Next]_vars
=============================================================================
