------------------------- MODULE RosterGossipProofs -------------------------
(* Theorems about RosterGossip, for any number of devices. *)
EXTENDS RosterGossip, TLAPS

(* The entries and rosters the module builds have their types. *)
LEMMA EntryTypes ==
    /\ Unknown \in Entry /\ Active \in Entry
    /\ \A r \in Devices : RevokedBy(r) \in Entry
    /\ NoRoster \in Roster
    /\ \A t \in Devices, e \in Entry : Only(t, e) \in Roster
    /\ \A d \in Devices : NoTx(d) \in Tx
    /\ Asleep \in Ping
BY DEF Unknown, Active, RevokedBy, Entry, NoRoster, Roster, Only, NoTx, Tx, Asleep, Ping

LEMMA InitTypeOK == Init => TypeOK
<1> SUFFICES ASSUME Init PROVE TypeOK
    OBVIOUS
<1>1. \A d \in Devices : Hive(d) \in SUBSET Devices
    BY ConstantsAssumption DEF Hive
<1>2. roster \in [Devices -> Roster]
    BY EntryTypes DEF Init, Roster
<1> QED BY <1>1, <1>2, EntryTypes, ConstantsAssumption DEF Init, TypeOK

(* What a merge makes of one entry. *)
LEMMA MergeType ==
    ASSUME NEW local \in Roster, NEW incoming \in Roster
    PROVE  Merge(local, incoming) \in Roster
BY EntryTypes DEF Merge, MergeEntry, Roster

(* A merge never undoes or rewrites a revocation. *)
LEMMA MergeSticky ==
    ASSUME NEW local \in Roster, NEW incoming, NEW t \in Devices, IsRevoked(local[t])
    PROVE  Merge(local, incoming)[t] = local[t]
BY DEF Merge, MergeEntry, IsRevoked, Roster, Entry

(* Whatever is revoked after a merge was revoked in one of the two rosters. *)
LEMMA MergeInvents ==
    ASSUME NEW local \in Roster, NEW incoming \in Roster, NEW t \in Devices,
           IsRevoked(Merge(local, incoming)[t])
    PROVE  Merge(local, incoming)[t] \in {local[t], incoming[t]}
BY DEF Merge, MergeEntry, IsRevoked, Active

LEMMA BeginType ==
    ASSUME TypeOK, NEW d \in Devices, NEW incoming \in Roster,
           NEW kind \in {"ping", "push", "revoke", "pair", "join"},
           NEW about \in Devices, Begin(d, kind, incoming, about)
    PROVE  tx' \in [Devices -> Tx]
<1>1. Merge(roster[d], incoming) \in Roster
    BY MergeType DEF TypeOK
<1>2. [kind |-> kind, merged |-> Merge(roster[d], incoming), about |-> about] \in Tx
    BY <1>1 DEF Tx
<1> QED BY <1>2 DEF TypeOK, Begin

LEMMA SetPingType ==
    ASSUME TypeOK, NEW d \in Devices, NEW p \in Ping, SetPing(d, p)
    PROVE  ping' \in [Devices -> Ping]
BY DEF TypeOK, SetPing

LEMMA Records ==
    ASSUME TypeOK, NEW d \in Devices
    PROVE  ping[d] \in Ping /\ tx[d] \in Tx /\ roster[d] \in Roster
BY DEF TypeOK

LEMMA PingEdits ==
    ASSUME NEW p \in Ping, NEW ids \in SUBSET Devices, NEW got \in Roster
    PROVE  /\ [p EXCEPT !.pc = "round"] \in Ping
           /\ [p EXCEPT !.pc = "round", !.peers = ids] \in Ping
           /\ [p EXCEPT !.pc = "round", !.got = got] \in Ping
           /\ [p EXCEPT !.pc = "commit", !.got = got] \in Ping
           /\ [p EXCEPT !.peers = ids] \in Ping
           /\ [pc |-> "merge", peers |-> ids, got |-> got] \in Ping
BY DEF Ping

(* Every action keeps the rosters, merges and messages in their types. *)
LEMMA NextTypeOK == TypeOK /\ [Next]_vars => TypeOK'
<1> SUFFICES ASSUME TypeOK, [Next]_vars PROVE TypeOK'
    OBVIOUS
<1> USE EntryTypes, ConstantsAssumption, Records
<1>1. ASSUME NEW d \in Devices, Commit(d) PROVE TypeOK'
  <2>1. tx[d].merged \in Roster
      BY DEF Tx
  <2>2. roster' \in [Devices -> Roster]
      BY <1>1, <2>1 DEF Commit, TypeOK
  <2>3. tx' \in [Devices -> Tx]
      BY <1>1 DEF Commit, TypeOK
  <2>4. ping' \in [Devices -> Ping]
    <3>1. [ping[d] EXCEPT !.pc = "round"] \in Ping
        BY PingEdits
    <3> QED BY <1>1, <3>1 DEF Commit, TypeOK
  <2>5. announce' \in [Devices -> BOOLEAN]
      BY <1>1 DEF Commit, TypeOK
  <2>6. net' \in SUBSET Message
    <3> DEFINE joined == [type |-> "joined", from |-> d, to |-> tx[d].about,
                          roster |-> tx[d].merged]
    <3>1. joined \in Message
        BY <2>1 DEF Message, Tx
    <3> QED BY <1>1, <3>1 DEF Commit, TypeOK
  <2> QED BY <1>1, <2>2, <2>3, <2>4, <2>5, <2>6 DEF Commit, TypeOK, history
<1>2. ASSUME NEW n \in Devices, NEW p \in Devices, Pair(n, p) PROVE TypeOK'
  <2>1. tx' \in [Devices -> Tx]
      BY <1>2, BeginType DEF Pair
  <2> QED BY <1>2, <2>1 DEF Pair, TypeOK
<1>3. ASSUME NEW m \in net, Joined(m) \/ Pushed(m) PROVE TypeOK'
  <2>1. m \in Message
      BY DEF TypeOK
  <2>2. tx' \in [Devices -> Tx]
      BY <1>3, <2>1, BeginType DEF Joined, Pushed, TypeOK, Message
  <2> QED BY <1>3, <2>2 DEF Joined, Pushed, TypeOK, history
<1>4. ASSUME NEW d \in Devices, NEW t \in Devices, Revoke(d, t) PROVE TypeOK'
  <2>1. tx' \in [Devices -> Tx]
      BY <1>4, BeginType DEF Revoke
  <2> QED BY <1>4, <2>1 DEF Revoke, TypeOK
<1>5. ASSUME NEW d \in Devices, NEW to \in SUBSET ((Online \cap Members(roster[d])) \ {d}),
             Announce(d, to)
      PROVE  TypeOK'
  <2>1. \A p \in to : [type |-> "push", from |-> d, to |-> p, roster |-> roster[d]] \in Message
      BY DEF Message
  <2>2. net' \in SUBSET Message
      BY <1>5, <2>1 DEF Announce, TypeOK
  <2> QED BY <1>5, <2>2 DEF Announce, TypeOK, history
<1>6. ASSUME NEW d \in Devices, PingStart(d) PROVE TypeOK'
  <2> DEFINE peers == {p \in Members(roster[d]) \ {d} : <<d, p>> \in Reach}
  <2>1. peers \in SUBSET Devices
      BY DEF Members
  <2>2. [ping[d] EXCEPT !.pc = "round", !.peers = peers] \in Ping
    <3> HIDE DEF peers
    <3> QED BY <2>1, PingEdits
  <2>3. ping' \in [Devices -> Ping]
      BY <1>6, <2>2, SetPingType DEF PingStart
  <2> QED BY <1>6, <2>3 DEF PingStart, TypeOK, history
<1>7. ASSUME NEW d \in Devices, NEW p \in Devices, PingPeer(d, p) \/ PingLost(d, p)
      PROVE TypeOK'
  <2> DEFINE rest == ping[d].peers \ {p}
  <2>1. rest \in SUBSET Devices
      BY DEF Ping
  <2>2. /\ [ping[d] EXCEPT !.peers = rest] \in Ping
        /\ [pc |-> "merge", peers |-> rest, got |-> roster[p]] \in Ping
    <3> HIDE DEF rest
    <3> QED BY <2>1, PingEdits
  <2>3. ping' \in [Devices -> Ping]
      BY <1>7, <2>2, SetPingType DEF PingPeer, PingLost
  <2> QED BY <1>7, <2>3 DEF PingPeer, PingLost, Fault, TypeOK, history
<1>8. ASSUME NEW d \in Devices, PingMerge(d) PROVE TypeOK'
  <2>1. ping[d].got \in Roster
      BY DEF Ping
  <2>2. tx' \in [Devices -> Tx]
      BY <1>8, <2>1, BeginType DEF PingMerge, TypeOK
  <2>3. /\ [ping[d] EXCEPT !.pc = "round", !.got = NoRoster] \in Ping
        /\ [ping[d] EXCEPT !.pc = "commit", !.got = NoRoster] \in Ping
      BY PingEdits
  <2>4. ping' \in [Devices -> Ping]
      BY <1>8, <2>3, SetPingType DEF PingMerge
  <2> QED BY <1>8, <2>2, <2>4 DEF PingMerge, TypeOK, history
<1>9. ASSUME NEW d \in Devices, PingEnd(d) PROVE TypeOK'
  <2>1. ping' \in [Devices -> Ping]
      BY <1>9, SetPingType DEF PingEnd
  <2> QED BY <1>9, <2>1 DEF PingEnd, TypeOK, Members, history
<1>10. ASSUME NEW d \in Devices, Restart(d) PROVE TypeOK'
  <2> DEFINE own == Merge(roster[d], Only(d, Active))
  <2>1. own \in Roster
      BY MergeType
  <2>2. ping' \in [Devices -> Ping]
      BY <1>10, SetPingType DEF Restart
  <2>3. roster' \in [Devices -> Roster]
      BY <1>10, <2>1 DEF Restart, TypeOK
  <2>4. Members(own) \in SUBSET Devices
      BY DEF Members
  <2>5. accepted' \in [Devices -> SUBSET Devices]
    <3> HIDE DEF own
    <3> QED BY <1>10, <2>4 DEF Restart, TypeOK, own
  <2>6. tx' \in [Devices -> Tx]
      BY <1>10 DEF Restart, TypeOK
  <2> QED BY <1>10, <2>2, <2>3, <2>5, <2>6 DEF Restart, Fault, TypeOK
<1>11. CASE UNCHANGED vars
    BY <1>11 DEF vars, TypeOK
<1> QED
    BY <1>1, <1>2, <1>3, <1>4, <1>5, <1>6, <1>7, <1>8, <1>9, <1>10, <1>11
       DEF Next, PingStep, UserStep, NetStep, FaultStep

(* The rosters, merges and messages always have their types. *)
THEOREM TypeCorrect == Spec => []TypeOK
BY InitTypeOK, NextTypeOK, PTL DEF Spec

-----------------------------------------------------------------------------
(* An open transaction still holds every revocation of the roster it is    *)
(* going to replace, for no other one can have been written meanwhile;     *)
(* and what a device has been told contains no revocation nobody made.     *)
Backed(r, records) == \A t \in Devices : IsRevoked(r[t]) => <<r[t].by, t>> \in records

TxKeeps(d) ==
    tx[d].kind # "none" =>
        \A t \in Devices : IsRevoked(roster[d][t]) => tx[d].merged[t] = roster[d][t]

AllBacked(d) ==
    Backed(roster[d], issued) /\ Backed(tx[d].merged, issued) /\ Backed(ping[d].got, issued)

Inv ==
    /\ \A d \in Devices : TxKeeps(d)
    /\ \A d \in Devices : AllBacked(d)
    /\ \A m \in net : Backed(m.roster, issued)

LEMMA NoRosterBacked == ASSUME NEW records PROVE Backed(NoRoster, records)
BY DEF Backed, NoRoster, Unknown, IsRevoked

LEMMA OnlyBacked ==
    ASSUME NEW t \in Devices, NEW records
    PROVE  /\ Backed(Only(t, Active), records)
           /\ \A r \in Devices : <<r, t>> \in records => Backed(Only(t, RevokedBy(r)), records)
BY DEF Backed, Only, Unknown, Active, RevokedBy, IsRevoked

LEMMA InitInv == Init => Inv
<1> SUFFICES ASSUME Init PROVE Inv
    OBVIOUS
<1>1. ASSUME NEW d \in Devices PROVE Backed(roster[d], issued)
    BY DEF Init, Backed, Unknown, Active, IsRevoked
<1> QED BY <1>1, NoRosterBacked DEF Init, Inv, TxKeeps, AllBacked, NoTx, Asleep

(* A merge of rosters with issued revocations only has issued revocations only. *)
LEMMA MergeBacked ==
    ASSUME NEW local \in Roster, NEW incoming \in Roster, NEW records,
           Backed(local, records), Backed(incoming, records)
    PROVE  Backed(Merge(local, incoming), records)
BY MergeInvents DEF Backed

LEMMA BackedGrows ==
    ASSUME NEW r, NEW records, NEW more, records \subseteq more, Backed(r, records)
    PROVE  Backed(r, more)
BY DEF Backed

(* A transaction that begins keeps both parts of the invariant about it. *)
LEMMA BeginInv ==
    ASSUME TypeOK, Inv, NEW d \in Devices, NEW incoming \in Roster,
           NEW kind \in {"ping", "push", "revoke", "pair", "join"},
           NEW about \in Devices, Begin(d, kind, incoming, about), UNCHANGED roster,
           issued \subseteq issued', Backed(incoming, issued')
    PROVE  \A e \in Devices : TxKeeps(e)' /\ Backed(tx'[e].merged, issued')
<1>1. roster[d] \in Roster /\ tx \in [Devices -> Tx]
    BY DEF TypeOK
<1>2. ASSUME NEW e \in Devices, e # d PROVE TxKeeps(e)' /\ Backed(tx'[e].merged, issued')
  <2>1. tx'[e] = tx[e]
      BY <1>1, <1>2 DEF Begin
  <2> QED BY <2>1, BackedGrows DEF Inv, TxKeeps, AllBacked
<1>3. TxKeeps(d)' /\ Backed(tx'[d].merged, issued')
  <2>1. tx'[d].merged = Merge(roster[d], incoming)
      BY <1>1 DEF Begin
  <2>2. Backed(roster[d], issued')
      BY BackedGrows DEF Inv, AllBacked
  <2> QED BY <1>1, <2>1, <2>2, MergeBacked, MergeSticky DEF TxKeeps
<1> QED BY <1>2, <1>3

(* Every action keeps the invariant. *)
LEMMA NextInv == TypeOK /\ Inv /\ [Next]_vars => Inv'
<1> SUFFICES ASSUME TypeOK, Inv, [Next]_vars PROVE Inv'
    OBVIOUS
<1>0. /\ \A d \in Devices : TxKeeps(d) /\ AllBacked(d)
      /\ \A m \in net : Backed(m.roster, issued)
    BY DEF Inv
<1>1. ASSUME NEW d \in Devices, Commit(d) PROVE Inv'
  <2>1. roster' = [roster EXCEPT ![d] = tx[d].merged] /\ tx' = [tx EXCEPT ![d] = NoTx(d)]
        /\ issued' = issued
      BY <1>1 DEF Commit, history
  <2>2. ASSUME NEW e \in Devices PROVE TxKeeps(e)' /\ AllBacked(e)'
    <3>1. ping'[e].got = ping[e].got
        BY <1>1, Records DEF Commit, TypeOK, Ping
    <3>2. CASE e = d
        BY <1>0, <2>1, <3>1, <3>2, NoRosterBacked DEF TxKeeps, AllBacked, NoTx, TypeOK
    <3>3. CASE e # d
        BY <1>0, <2>1, <3>1, <3>3 DEF TxKeeps, AllBacked, TypeOK
    <3> QED BY <3>2, <3>3
  <2>3. \A m \in net' : Backed(m.roster, issued')
      BY <1>0, <1>1, <2>1 DEF Commit, AllBacked
  <2> QED BY <2>2, <2>3 DEF Inv
<1>2. ASSUME NEW n \in Devices, NEW p \in Devices, Pair(n, p) PROVE Inv'
  <2>1. \A e \in Devices : TxKeeps(e)' /\ Backed(tx'[e].merged, issued')
      BY <1>2, BeginInv, OnlyBacked, EntryTypes DEF Pair
  <2> QED BY <1>0, <1>2, <2>1 DEF Pair, Inv, AllBacked
<1>3. ASSUME NEW m \in net, Joined(m) \/ Pushed(m) PROVE Inv'
  <2>1. m \in Message /\ UNCHANGED <<roster, ping, issued>> /\ net' \subseteq net
      BY <1>3 DEF TypeOK, Joined, Pushed, history
  <2>2. \A e \in Devices : TxKeeps(e)' /\ Backed(tx'[e].merged, issued')
    <3>1. CASE UNCHANGED tx
        BY <1>0, <2>1, <3>1 DEF TxKeeps, AllBacked
    <3>2. CASE tx' # tx
      <4>1. m.to \in Devices /\ m.roster \in Roster /\ Backed(m.roster, issued')
          BY <1>0, <2>1 DEF Message
      <4>2. Begin(m.to, "join", m.roster, m.to) \/ Begin(m.to, "push", m.roster, m.to)
          BY <1>3, <3>2 DEF Joined, Pushed
      <4> QED BY <2>1, <4>1, <4>2, BeginInv
    <3> QED BY <3>1, <3>2
  <2> QED BY <1>0, <2>1, <2>2 DEF Inv, AllBacked
<1>4. ASSUME NEW d \in Devices, NEW t \in Devices, Revoke(d, t) PROVE Inv'
  <2>1. issued \subseteq issued' /\ <<d, t>> \in issued'
      BY <1>4 DEF Revoke
  <2>2. Backed(Only(t, RevokedBy(d)), issued') /\ Only(t, RevokedBy(d)) \in Roster
      BY <2>1, OnlyBacked, EntryTypes
  <2>3. \A e \in Devices : TxKeeps(e)' /\ Backed(tx'[e].merged, issued')
      BY <1>4, <2>1, <2>2, BeginInv DEF Revoke
  <2> QED BY <1>0, <1>4, <2>1, <2>3, BackedGrows DEF Revoke, Inv, AllBacked
<1>5. ASSUME NEW d \in Devices, NEW to, Announce(d, to) PROVE Inv'
    BY <1>0, <1>5 DEF Announce, Inv, TxKeeps, AllBacked, history
<1>6. ASSUME NEW d \in Devices, PingStart(d) PROVE Inv'
  <2>1. \A e \in Devices : ping'[e].got = ping[e].got
      BY <1>6, Records DEF PingStart, SetPing, TypeOK, Ping
  <2> QED BY <1>0, <1>6, <2>1 DEF PingStart, Inv, TxKeeps, AllBacked, history
<1>7. ASSUME NEW d \in Devices, NEW p \in Devices, PingPeer(d, p) \/ PingLost(d, p)
      PROVE Inv'
  <2>1. UNCHANGED <<roster, tx, net, issued>>
      BY <1>7 DEF PingPeer, PingLost, Fault, history
  <2>2. \A e \in Devices : ping'[e].got \in {ping[e].got, roster[p]}
      BY <1>7, Records DEF PingPeer, PingLost, SetPing, TypeOK, Ping
  <2> QED BY <1>0, <2>1, <2>2 DEF Inv, TxKeeps, AllBacked
<1>8. ASSUME NEW d \in Devices, PingMerge(d) PROVE Inv'
  <2>1. UNCHANGED <<roster, net, issued>> /\ ping[d].got \in Roster
      BY <1>8, Records DEF PingMerge, history, Ping
  <2>2. \A e \in Devices : TxKeeps(e)' /\ Backed(tx'[e].merged, issued')
    <3>1. CASE UNCHANGED tx
        BY <1>0, <2>1, <3>1 DEF TxKeeps, AllBacked
    <3>2. CASE Begin(d, "ping", ping[d].got, d)
      <4>1. Backed(ping[d].got, issued')
          BY <1>0, <2>1 DEF AllBacked
      <4> QED BY <2>1, <3>2, <4>1, BeginInv
    <3> QED BY <1>8, <3>1, <3>2 DEF PingMerge
  <2>3. \A e \in Devices : ping'[e].got \in {ping[e].got, NoRoster}
    <3>1. ASSUME NEW pc, SetPing(d, [ping[d] EXCEPT !.pc = pc, !.got = NoRoster])
          PROVE  \A e \in Devices : ping'[e].got \in {ping[e].got, NoRoster}
      <4>1. [ping[d] EXCEPT !.pc = pc, !.got = NoRoster].got = NoRoster
          BY Records DEF Ping
      <4>2. \A e \in Devices :
              ping'[e] = IF e = d THEN [ping[d] EXCEPT !.pc = pc, !.got = NoRoster] ELSE ping[e]
          BY <3>1 DEF SetPing, TypeOK
      <4> QED BY <4>1, <4>2
    <3> QED BY <1>8, <3>1 DEF PingMerge
  <2> QED BY <1>0, <2>1, <2>2, <2>3, NoRosterBacked DEF Inv, AllBacked
<1>9. ASSUME NEW d \in Devices, PingEnd(d) PROVE Inv'
  <2>1. \A e \in Devices : ping'[e].got \in {ping[e].got, NoRoster}
      BY <1>9 DEF PingEnd, SetPing, TypeOK, Asleep
  <2> QED BY <1>0, <1>9, <2>1, NoRosterBacked DEF PingEnd, Inv, TxKeeps, AllBacked, history
<1>10. ASSUME NEW d \in Devices, Restart(d) PROVE Inv'
  <2> DEFINE own == Merge(roster[d], Only(d, Active))
  <2>1. Backed(own, issued)
      BY <1>0, Records, EntryTypes, OnlyBacked, MergeBacked DEF AllBacked
  <2>2. UNCHANGED <<net, issued>> /\ tx' = [tx EXCEPT ![d] = NoTx(d)]
        /\ roster' = [roster EXCEPT ![d] = own] /\ ping' = [ping EXCEPT ![d] = Asleep]
      BY <1>10 DEF Restart, Fault, SetPing
  <2> HIDE DEF own
  <2>3. ASSUME NEW e \in Devices PROVE TxKeeps(e)' /\ AllBacked(e)'
    <3>1. CASE e = d
        BY <2>1, <2>2, <3>1, NoRosterBacked DEF TxKeeps, AllBacked, NoTx, Asleep, TypeOK
    <3>2. CASE e # d
        BY <1>0, <2>2, <3>2 DEF TxKeeps, AllBacked, TypeOK
    <3> QED BY <3>1, <3>2
  <2> QED BY <1>0, <2>2, <2>3 DEF Inv
<1>11. CASE UNCHANGED vars
    BY <1>0, <1>11 DEF vars, Inv, TxKeeps, AllBacked
<1> QED
    BY <1>1, <1>2, <1>3, <1>4, <1>5, <1>6, <1>7, <1>8, <1>9, <1>10, <1>11
       DEF Next, PingStep, UserStep, NetStep, FaultStep

(* The invariant holds in every reachable state. *)
THEOREM Invariance == Spec => [](TypeOK /\ Inv)
<1>1. Init => TypeOK /\ Inv
    BY InitTypeOK, InitInv
<1>2. TypeOK /\ Inv /\ [Next]_vars => (TypeOK /\ Inv)'
    BY NextTypeOK, NextInv
<1> QED BY <1>1, <1>2, PTL DEF Spec

(* No device is ever revoked that no user revoked. *)
THEOREM OnlyIssuedRevocations == Spec => []RevocationsAreIssued
<1>1. Inv => RevocationsAreIssued
    BY DEF Inv, AllBacked, Backed, RevocationsAreIssued
<1> QED BY <1>1, Invariance, PTL

(* No interleaving of merges un-revokes a device. *)
THEOREM StickyRevocation == Spec => RevocationIsSticky
<1> DEFINE Kept == \A d, t \in Devices : IsRevoked(roster[d][t]) => roster'[d][t] = roster[d][t]
<1>1. TypeOK /\ Inv /\ [Next]_vars => [Kept]_vars
  <2> SUFFICES ASSUME TypeOK, Inv, Next, NEW e \in Devices, NEW t \in Devices,
                      IsRevoked(roster[e][t])
               PROVE  roster'[e][t] = roster[e][t]
      OBVIOUS
  <2>1. ASSUME NEW d \in Devices, Commit(d) PROVE roster'[e][t] = roster[e][t]
      BY <2>1 DEF Commit, Inv, TxKeeps, TypeOK
  <2>2. ASSUME NEW d \in Devices, Restart(d) PROVE roster'[e][t] = roster[e][t]
    <3>1. CASE e = d
      <4>1. roster'[e] = Merge(roster[d], Only(d, Active))
          BY <2>2, <3>1 DEF Restart, TypeOK
      <4> QED BY <3>1, <4>1, MergeSticky, Records
    <3>2. CASE e # d
        BY <2>2, <3>2 DEF Restart, TypeOK
    <3> QED BY <3>1, <3>2
  <2>3. CASE UNCHANGED roster
      BY <2>3
  <2> QED
      BY <2>1, <2>2, <2>3
         DEF Next, PingStep, UserStep, NetStep, FaultStep, Pair, Joined, Revoke, Announce, Pushed,
             PingStart, PingPeer, PingMerge, PingEnd, PingLost
<1> QED BY <1>1, Invariance, PTL DEF Spec, RevocationIsSticky

-----------------------------------------------------------------------------
(* What a roster says only grows, from unknown by active to revoked; and    *)
(* whom it says to have revoked a device it has been told of.               *)
Below(e, f) == e = f \/ e.status = "unknown" \/ (e.status = "active" /\ IsRevoked(f))
Grown(r, s) == \A t \in Devices : Below(r[t], s[t])

Sponsored(r) ==
    \A t \in Devices : IsRevoked(r[t]) =>
        r[t].by = t \/ (r[t].by \in Devices /\ r[r[t].by].status # "unknown")

GrowsOn(d) ==
    /\ Sponsored(roster[d])
    /\ tx[d].kind # "none" => Grown(roster[d], tx[d].merged) /\ Sponsored(tx[d].merged)
GrowInv == \A d \in Devices : GrowsOn(d)

LEMMA MergeGrows ==
    ASSUME NEW local \in Roster, NEW incoming \in Roster
    PROVE  /\ Grown(local, Merge(local, incoming))
           /\ Sponsored(local) => Sponsored(Merge(local, incoming))
<1> DEFINE merged == Merge(local, incoming)
<1>1. \A t \in Devices : merged[t] = MergeEntry(local, t, incoming[t])
    BY DEF Merge
<1>2. \A t \in Devices : local[t] \in Entry /\ incoming[t] \in Entry
    BY DEF Roster
<1> HIDE DEF merged
<1>3. ASSUME NEW t \in Devices PROVE Below(local[t], merged[t])
    BY <1>1, <1>2 DEF MergeEntry, Below, Entry, Believed
<1>4. ASSUME Sponsored(local), NEW t \in Devices, IsRevoked(merged[t]), merged[t].by # t
      PROVE  merged[t].by \in Devices /\ merged[merged[t].by].status # "unknown"
  <2> DEFINE r == merged[t].by
  <2>1. r \in Devices /\ local[r].status # "unknown"
    <3>1. CASE merged[t] = local[t]
        BY <1>4, <3>1 DEF Sponsored
    <3>2. CASE merged[t] # local[t]
        BY <1>1, <1>4, <3>2 DEF MergeEntry, Believed, Members, IsRevoked, Active
    <3> QED BY <3>1, <3>2
  <2> QED BY <1>2, <1>3, <2>1 DEF Below, IsRevoked
<1> QED BY <1>3, <1>4 DEF Grown, Sponsored, merged

LEMMA BeginGrows ==
    ASSUME TypeOK, GrowInv, NEW d \in Devices, NEW incoming \in Roster, NEW kind, NEW about,
           Begin(d, kind, incoming, about), UNCHANGED roster
    PROVE  GrowInv'
<1>1. roster[d] \in Roster /\ tx \in [Devices -> Tx]
    BY DEF TypeOK
<1>2. ASSUME NEW e \in Devices, e # d PROVE GrowsOn(e)'
    BY <1>1, <1>2 DEF Begin, GrowInv, GrowsOn
<1>3. GrowsOn(d)'
  <2>1. tx'[d].merged = Merge(roster[d], incoming)
      BY <1>1 DEF Begin
  <2> QED BY <1>1, <2>1, MergeGrows DEF GrowInv, GrowsOn
<1> QED BY <1>2, <1>3 DEF GrowInv

LEMMA GrowNext == TypeOK /\ GrowInv /\ [Next]_vars => GrowInv' /\ \A d \in Devices : Grown(roster[d], roster'[d])
<1> SUFFICES ASSUME TypeOK, GrowInv, [Next]_vars
             PROVE  GrowInv' /\ \A d \in Devices : Grown(roster[d], roster'[d])
    OBVIOUS
<1>0. ASSUME UNCHANGED roster PROVE \A d \in Devices : Grown(roster[d], roster'[d])
    BY <1>0 DEF Grown, Below
<1>1. ASSUME NEW d \in Devices, Commit(d)
      PROVE  GrowInv' /\ \A e \in Devices : Grown(roster[e], roster'[e])
  <2>1. roster' = [roster EXCEPT ![d] = tx[d].merged] /\ tx' = [tx EXCEPT ![d] = NoTx(d)]
        /\ tx[d].kind # "none" /\ roster \in [Devices -> Roster] /\ tx \in [Devices -> Tx]
      BY <1>1 DEF Commit, TypeOK
  <2>2. roster'[d] = tx[d].merged /\ tx'[d].kind = "none"
        /\ \A e \in Devices \ {d} : roster'[e] = roster[e] /\ tx'[e] = tx[e]
      BY <2>1 DEF NoTx
  <2>3. ASSUME NEW e \in Devices PROVE GrowsOn(e)' /\ Grown(roster[e], roster'[e])
    <3>1. CASE e = d
        BY <2>1, <2>2, <3>1 DEF GrowInv, GrowsOn
    <3>2. CASE e # d
        BY <2>2, <3>2 DEF GrowInv, GrowsOn, Grown, Below
    <3> QED BY <3>1, <3>2
  <2> QED BY <2>3 DEF GrowInv
<1>2. ASSUME NEW d \in Devices, Restart(d)
      PROVE  GrowInv' /\ \A e \in Devices : Grown(roster[e], roster'[e])
  <2> DEFINE own == Merge(roster[d], Only(d, Active))
  <2>1. roster' = [roster EXCEPT ![d] = own] /\ tx' = [tx EXCEPT ![d] = NoTx(d)]
        /\ roster \in [Devices -> Roster] /\ tx \in [Devices -> Tx]
      BY <1>2 DEF Restart, TypeOK
  <2>2. Grown(roster[d], own) /\ (Sponsored(roster[d]) => Sponsored(own))
      BY <2>1, EntryTypes, MergeGrows
  <2> HIDE DEF own
  <2>3. roster'[d] = own /\ tx'[d].kind = "none"
        /\ \A e \in Devices \ {d} : roster'[e] = roster[e] /\ tx'[e] = tx[e]
      BY <2>1 DEF NoTx
  <2>4. ASSUME NEW e \in Devices PROVE GrowsOn(e)' /\ Grown(roster[e], roster'[e])
    <3>1. CASE e = d
        BY <2>2, <2>3, <3>1 DEF GrowInv, GrowsOn
    <3>2. CASE e # d
        BY <2>3, <3>2 DEF GrowInv, GrowsOn, Grown, Below
    <3> QED BY <3>1, <3>2
  <2> QED BY <2>4 DEF GrowInv
<1>3. ASSUME UNCHANGED <<roster, tx>> PROVE GrowInv'
    BY <1>3 DEF GrowInv, GrowsOn
<1>4. ASSUME NEW n \in Devices, NEW p \in Devices, Pair(n, p) \/ Revoke(n, p) PROVE GrowInv' /\ UNCHANGED roster
    BY <1>4, EntryTypes, BeginGrows DEF Pair, Revoke
<1>5. ASSUME NEW m \in net, Joined(m) \/ Pushed(m) PROVE GrowInv' /\ UNCHANGED roster
  <2>1. m.to \in Devices /\ m.roster \in Roster /\ UNCHANGED roster
      BY <1>5 DEF TypeOK, Message, Joined, Pushed
  <2>2. UNCHANGED tx \/ \E kind : Begin(m.to, kind, m.roster, m.to)
      BY <1>5 DEF Joined, Pushed
  <2> QED BY <1>3, <2>1, <2>2, BeginGrows
<1>6. ASSUME NEW d \in Devices, PingMerge(d) PROVE GrowInv' /\ UNCHANGED roster
  <2>1. ping[d].got \in Roster /\ UNCHANGED roster
      BY <1>6 DEF TypeOK, Ping, PingMerge
  <2>2. UNCHANGED tx \/ \E kind : Begin(d, kind, ping[d].got, d)
      BY <1>6 DEF PingMerge
  <2> QED BY <1>3, <2>1, <2>2, BeginGrows
<1>7. CASE \E d \in Devices : PingStart(d) \/ PingEnd(d) \/ \E p \in Devices : PingPeer(d, p) \/ PingLost(d, p)
    BY <1>0, <1>3, <1>7 DEF PingStart, PingEnd, PingPeer, PingLost
<1>8. ASSUME NEW d \in Devices, NEW to, Announce(d, to) PROVE GrowInv' /\ UNCHANGED roster
    BY <1>3, <1>8 DEF Announce
<1>9. CASE UNCHANGED vars
    BY <1>0, <1>3, <1>9 DEF vars
<1> QED
    BY <1>0, <1>1, <1>2, <1>4, <1>5, <1>6, <1>7, <1>8, <1>9 DEF Next, PingStep, UserStep, NetStep, FaultStep

LEMMA GrowInit == Init => GrowInv
BY DEF Init, GrowInv, GrowsOn, Sponsored, NoTx, Unknown, Active, IsRevoked

LEMMA Growing == Spec => [](TypeOK /\ GrowInv)
<1>1. TypeOK /\ GrowInv /\ [Next]_vars => (TypeOK /\ GrowInv)'
    BY NextTypeOK, GrowNext
<1> QED BY <1>1, InitTypeOK, GrowInit, PTL DEF Spec

(* No device forgets: whatever it is told and however its merges, restarts  *)
(* and open transactions follow one another, a device it has heard of stays *)
(* known, one that is a member stays so until it is revoked, and that for   *)
(* good.                                                                    *)
RostersGrow == [][\A d \in Devices : Grown(roster[d], roster'[d])]_vars
THEOREM NobodyIsForgotten == Spec => RostersGrow
<1>1. TypeOK /\ GrowInv /\ [Next]_vars => [\A d \in Devices : Grown(roster[d], roster'[d])]_vars
    BY GrowNext
<1> QED BY <1>1, Growing, PTL DEF Spec, RostersGrow

(* No stranger revokes: whom a device believes to have revoked another one, *)
(* it knows as a device of the hive, unless it is that device itself.       *)
THEOREM NoStrangerRevokes == Spec => [](\A d \in Devices : Sponsored(roster[d]))
<1>1. GrowInv => \A d \in Devices : Sponsored(roster[d])
    BY DEF GrowInv, GrowsOn
<1> QED BY <1>1, Growing, PTL

(* The safety half of RevokedAreShutOut: once the listener of a device has  *)
(* left out a device that the roster says is revoked, no later verifier,    *)
(* merge or restart lets it in again.                                       *)
IsShutOut(d, t) == IsRevoked(roster[d][t]) /\ t \notin accepted[d]
ShutOutForGood == [][\A d, t \in Devices : IsShutOut(d, t) => IsShutOut(d, t)']_vars
THEOREM RevokedStayShutOut == Spec => ShutOutForGood
<1> DEFINE Stays == \A d, t \in Devices : IsShutOut(d, t) => IsShutOut(d, t)'
<1>1. TypeOK /\ GrowInv /\ [Next]_vars => [Stays]_vars
  <2> SUFFICES ASSUME TypeOK, GrowInv, Next, NEW d \in Devices, NEW t \in Devices, IsShutOut(d, t)
               PROVE  IsShutOut(d, t)'
      OBVIOUS
  <2>1. IsRevoked(roster'[d][t])
      BY GrowNext DEF Grown, Below, IsShutOut, IsRevoked
  <2>2. accepted'[d] = accepted[d] \/ accepted'[d] = Members(roster[d]) \/ accepted'[d] = Members(roster'[d])
    <3>1. ASSUME NEW e \in Devices, PingEnd(e) PROVE accepted'[d] = accepted[d] \/ accepted'[d] = Members(roster[d])
        BY <3>1 DEF PingEnd, TypeOK
    <3>2. ASSUME NEW e \in Devices, Restart(e) PROVE accepted'[d] = accepted[d] \/ accepted'[d] = Members(roster'[d])
        BY <3>2 DEF Restart, TypeOK
    <3>3. CASE UNCHANGED accepted
        BY <3>3
    <3> QED
        BY <3>1, <3>2, <3>3
           DEF Next, PingStep, UserStep, NetStep, FaultStep, Pair, Joined, Revoke, Announce, Pushed, Commit,
               PingStart, PingPeer, PingMerge, PingLost
  <2> QED BY <2>1, <2>2 DEF IsShutOut, Members, IsRevoked
<1> QED BY <1>1, Growing, PTL DEF Spec, ShutOutForGood

(* The safety half of RosterEventuallySpreads: there is no dead end. When  *)
(* merging the roster of d would tell e nothing new, e knows every device  *)
(* that d knows, and has every revocation that d has, but for those by a   *)
(* device that e has been told to distrust: of a revoker that it does not  *)
(* know, which it would not believe either, it has always yet to hear.     *)
Learnt(e, d) ==
    \A t \in Devices :
        /\ Knows(d, t) => Knows(e, t)
        /\ IsRevoked(roster[d][t]) => IsRevoked(roster[e][t]) \/ Disbelieves(e, d, t)
NothingNewIsAllLearnt ==
    \A d, e \in Devices : Merge(roster[e], roster[d]) = roster[e] => Learnt(e, d)
THEOREM RevocationsGetThrough == Spec => []NothingNewIsAllLearnt
<1>1. TypeOK /\ GrowInv => NothingNewIsAllLearnt
  <2> SUFFICES ASSUME TypeOK, GrowInv, NEW d \in Devices, NEW e \in Devices,
                      Merge(roster[e], roster[d]) = roster[e]
               PROVE  Learnt(e, d)
      BY DEF NothingNewIsAllLearnt
  <2>0. roster[d] \in Roster /\ roster[e] \in Roster /\ Sponsored(roster[d])
      BY DEF TypeOK, GrowInv, GrowsOn
  <2>1. \A t \in Devices : MergeEntry(roster[e], t, roster[d][t]) = roster[e][t]
    <3>1. \A t \in Devices : Merge(roster[e], roster[d])[t] = MergeEntry(roster[e], t, roster[d][t])
        BY DEF Merge
    <3> QED BY <3>1
  <2>2. ASSUME NEW t \in Devices, Knows(d, t) PROVE Knows(e, t)
      BY <2>1, <2>2 DEF Knows, MergeEntry, Active
  <2>3. ASSUME NEW t \in Devices, IsRevoked(roster[d][t]), ~IsRevoked(roster[e][t])
        PROVE  Disbelieves(e, d, t)
    <3> DEFINE by == roster[d][t].by
    <3>1. roster[e][t].status = "active"
        BY <2>0, <2>2, <2>3 DEF Knows, Roster, Entry, IsRevoked
    <3>2. by # t /\ by \notin Members(roster[e])
      <4>1. MergeEntry(roster[e], t, roster[d][t]) # roster[d][t]
          BY <2>1, <2>3
      <4> QED BY <2>3, <3>1, <4>1 DEF MergeEntry, Believed, IsRevoked
    <3>3. by \in Devices /\ Knows(d, by)
        BY <2>0, <2>3, <3>2 DEF Sponsored, Knows
    <3>4. roster[e][by].status \in {"active", "revoked"}
        BY <2>0, <2>2, <3>3 DEF Knows, Roster, Entry
    <3> QED BY <3>2, <3>3, <3>4 DEF Members, Disbelieves, IsRevoked
  <2> QED BY <2>2, <2>3 DEF Learnt
<1> QED BY <1>1, Growing, PTL
=============================================================================
