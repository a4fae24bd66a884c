------------------------ MODULE MemoryStoreProofs ------------------------
(* Theorems about MemoryStore and, in its second half, about Conflicts, for *)
(* any memories, tags, registry, clients, peers and bounds, and the lemmas *)
(* they rest on.                                                           *)
EXTENDS Conflicts, FiniteSetTheorems, TLAPS

-----------------------------------------------------------------------------
(* Operators.                                                              *)

LEMMA OrType ==
    ASSUME NEW S, NEW given \in Optional(S), NEW other \in S
    PROVE  Or(given, other) \in S
BY DEF Or, Optional

LEMMA LoweredType ==
    ASSUME NEW ts \in SUBSET Given
    PROVE  Lowered(ts) \in SUBSET Stored
<1>1. \A t \in Given : Lower(t) \in Given /\ Lower(t).capitals = "none"
  BY ConstantsAssumption DEF Lower
<1> QED BY <1>1 DEF Lowered, Stored

LEMMA LoweredStored ==
    ASSUME NEW ts \in SUBSET Given, ts \subseteq Stored
    PROVE  Lowered(ts) = ts
<1>1. \A t \in ts : Lower(t) = t
  BY ConstantsAssumption DEF Lower, Stored
<1> QED BY <1>1 DEF Lowered

LEMMA RowType ==
    ASSUME NEW m \in Draft
    PROVE  RowOf(m) \in Row
BY LoweredType DEF Draft, RowOf, Row, Hash, HashOf

LEMMA MemoryType ==
    ASSUME NEW r \in Row
    PROVE  Memory(r) \in [title : Titles, content : Contents, tags : SUBSET Stored, layer : Layers]
BY DEF Row, Memory

LEMMA SyncEdgesType ==
    ASSUME NEW E \in SUBSET Edge, NEW s \in Ids, NEW c \in Contents, NEW present \in SUBSET Ids
    PROVE  SyncEdges(E, s, c, present) \in SUBSET Edge
<1> DEFINE made == {[src |-> s, tgt |-> l[2], rel |-> l[1], linked |-> TRUE, active |-> TRUE] :
                       l \in {k \in Wanted(s, c) : k[2] \in present}}
           kept == {e \in E : e.src = s => /\ ~(e.linked /\ <<e.rel, e.tgt>> \notin Wanted(s, c))
                                           /\ \A m \in made : <<m.tgt, m.rel>> # <<e.tgt, e.rel>>}
<1>0. SyncEdges(E, s, c, present) = made \cup kept
  BY DEF SyncEdges
<1>1. \A l \in Wanted(s, c) : l[1] \in Kinds /\ l[2] \in Ids
  BY ConstantsAssumption DEF Wanted
<1>2. ASSUME NEW l \in Wanted(s, c)
      PROVE  [src |-> s, tgt |-> l[2], rel |-> l[1], linked |-> TRUE, active |-> TRUE] \in Edge
  BY <1>1 DEF Edge
<1>3. made \subseteq Edge
  BY <1>2
<1>4. kept \subseteq E
  OBVIOUS
<1> QED BY <1>0, <1>3, <1>4

\* The relationships of the edges that stand for links between two
\* memories, and of the links that a content has to a memory.
EdgesOf(E, s, t) == {e.rel : e \in {d \in E : Ends(d) = <<s, t>> /\ d.linked}}
LinksTo(c, t) == {l[1] : l \in {k \in Links[c] : k[2] = t}}

\* What a save leaves between a memory and a target that exists.
LEMMA SyncEdgesExact ==
    ASSUME NEW E \in SUBSET Edge, NEW s \in Ids, NEW c \in Contents, NEW present \in SUBSET Ids,
           NEW t \in present, s # t
    PROVE  EdgesOf(SyncEdges(E, s, c, present), s, t) = LinksTo(c, t)
<1> DEFINE made == {[src |-> s, tgt |-> l[2], rel |-> l[1], linked |-> TRUE, active |-> TRUE] :
                       l \in {k \in Wanted(s, c) : k[2] \in present}}
           kept == {e \in E : e.src = s => /\ ~(e.linked /\ <<e.rel, e.tgt>> \notin Wanted(s, c))
                                           /\ \A m \in made : <<m.tgt, m.rel>> # <<e.tgt, e.rel>>}
<1>0. SyncEdges(E, s, c, present) = made \cup kept
  BY DEF SyncEdges
<1>1. \A l \in Links[c] : l[1] \in Kinds /\ l[2] \in Ids /\ l = <<l[1], l[2]>>
  BY ConstantsAssumption
<1>2. \A e \in kept : ~(Ends(e) = <<s, t>> /\ e.linked)
  <2> SUFFICES ASSUME NEW e \in kept, e.src = s, e.tgt = t, e.linked
               PROVE  FALSE
    BY DEF Ends
  <2>1. <<e.rel, t>> \in Wanted(s, c)
    OBVIOUS
  <2>2. [src |-> s, tgt |-> t, rel |-> e.rel, linked |-> TRUE, active |-> TRUE] \in made
    BY <2>1
  <2> QED BY <2>2
<1>3. {e.rel : e \in {d \in made : Ends(d) = <<s, t>> /\ d.linked}} = {l[1] : l \in {k \in Links[c] : k[2] = t}}
  <2>1. ASSUME NEW e \in made, Ends(e) = <<s, t>>
        PROVE  \E l \in {k \in Links[c] : k[2] = t} : e.rel = l[1]
    BY <2>1 DEF Ends, Wanted
  <2>2. ASSUME NEW l \in Links[c], l[2] = t
        PROVE  \E e \in {d \in made : Ends(d) = <<s, t>> /\ d.linked} : e.rel = l[1]
    <3> DEFINE e == [src |-> s, tgt |-> l[2], rel |-> l[1], linked |-> TRUE, active |-> TRUE]
    <3>1. e \in made
      BY <2>2 DEF Wanted
    <3>2. Ends(e) = <<s, t>> /\ e.linked /\ e.rel = l[1]
      BY <2>2 DEF Ends
    <3> QED BY <3>1, <3>2
  <2> QED BY <2>1, <2>2
<1> QED BY <1>0, <1>2, <1>3 DEF EdgesOf, LinksTo

\* A save touches no edge of another memory.
LEMMA SyncEdgesOthers ==
    ASSUME NEW E \in SUBSET Edge, NEW s \in Ids, NEW c \in Contents, NEW present \in SUBSET Ids,
           NEW e, e.src # s
    PROVE  e \in SyncEdges(E, s, c, present) <=> e \in E
BY DEF SyncEdges

LEMMA ValidSubset ==
    ASSUME NEW ts, NEW us \in SUBSET ts, Valid(ts)
    PROVE  Valid(us)
BY DEF Valid

\* What was checked as it was given is admitted in lower case.
LEMMA LoweredValid ==
    ASSUME NEW ts \in SUBSET Given, Valid(ts), AllAsked(ts)
    PROVE  Valid(Lowered(ts))
<1>1. \A t \in ts : Lower(t).ns = t.ns /\ Lower(t).val = t.val
  BY ConstantsAssumption DEF Lower
<1>2. \A s, t \in ts : Lower(s).ns = Lower(t).ns /\ Lower(s).ns \in Singletons => s = t
  BY <1>1 DEF Valid
<1>3. \A t \in ts : Lower(t).ns \in DOMAIN Fixed => Lower(t).val \in Fixed[Lower(t).ns]
  BY <1>1 DEF Valid, AllAsked
<1> QED BY <1>2, <1>3 DEF Valid, Lowered

LEMMA PatchType ==
    ASSUME NEW q, q.ask \in Patch, q.seen \in Row, q.layer \in Layers
    PROVE  Filled(q) \in Draft
<1>1. q.ask.title \in Optional(Titles) /\ q.ask.content \in Optional(Contents) /\ q.ask.tags \in Optional(SUBSET Given)
  BY DEF Patch
<1>2. q.seen.title \in Titles /\ q.seen.content \in Contents /\ q.seen.tags \in SUBSET Given
  BY DEF Row, Stored
<1>3. Or(q.ask.title, q.seen.title) \in Titles
  BY <1>1, <1>2, OrType
<1>4. Or(q.ask.content, q.seen.content) \in Contents
  BY <1>1, <1>2, OrType
<1>5. Or(q.ask.tags, q.seen.tags) \in SUBSET Given
  BY <1>1, <1>2, OrType
<1> QED BY <1>3, <1>4, <1>5 DEF Filled, Draft

-----------------------------------------------------------------------------
(* Types.                                                                  *)

LEMMA CallsType ==
    ASSUME NEW q \in Calls
    PROVE  /\ q.pc \in {"idle", "patch", "update", "add", "remove"}
           /\ q.pc # "idle" => q.id \in Ids /\ q.seen \in Row /\ q.layer \in Layers
           /\ q.pc \in {"patch", "update"} => q.ask \in Patch
           /\ q.pc \in {"add", "remove"} => q.ask \in SUBSET Given
BY ConstantsAssumption DEF Calls, Idle

LEMMA SaveRowType ==
    ASSUME TypeOK, NEW i \in Ids, NEW r \in Row, SaveRow(i, r)
    PROVE  /\ rows' \in [Ids -> Row \cup {None}]
           /\ journal' \in [Ids -> Contents \cup {None}]
           /\ edges' \subseteq Edge
           /\ loose' \subseteq Ids \X Ids
<1>1. r.content \in Contents /\ Live \cup {i} \in SUBSET Ids
  BY DEF Row, Live
<1>2. edges' \in SUBSET Edge
  BY <1>1, SyncEdgesType DEF TypeOK, SaveRow
<1>3. rows' \in [Ids -> Row \cup {None}] /\ journal' \in [Ids -> Contents \cup {None}]
  BY <1>1 DEF TypeOK, SaveRow
<1>4. loose' \subseteq Ids \X Ids
  BY DEF TypeOK, SaveRow, Live
<1> QED BY <1>2, <1>3, <1>4

LEMMA PutType ==
    ASSUME TypeOK, NEW i \in Ids, NEW m \in Draft, Put(i, m), batch' \in Seq([id : Ids, draft : Drafts]),
           ops' \in 0..MaxOps
    PROVE  TypeOK'
<1>1. RowOf(m) \in Row
  BY RowType
<1>2. SaveRow(i, RowOf(m))
  BY DEF Put
<1> QED BY <1>1, <1>2, SaveRowType DEF Put, Mark, TypeOK

LEMMA ReturnType ==
    ASSUME TypeOK, NEW c \in Clients, NEW a \in {"none", "ok", "gone", "error"}, Return(c, a)
    PROVE  call' \in [Clients -> Calls]
BY DEF Return, TypeOK, Calls

LEMMA RetagType ==
    ASSUME TypeOK, NEW q \in Calls, q.pc \in {"add", "remove"}, rows[q.id] # None,
           NEW seenTags \in SUBSET Stored, NEW newTags \in SUBSET Stored, Retag(q, seenTags, newTags)
    PROVE  /\ rows' \in [Ids -> Row \cup {None}]
           /\ journal' \in [Ids -> Contents \cup {None}]
<1>1. q.id \in Ids /\ q.seen \in Row
  BY CallsType
<1>2. rows[q.id] \in Row
  BY <1>1 DEF TypeOK
<1>3. HashOf(q.seen.title, q.seen.content, seenTags, q.seen.layer) \in Hash
  BY <1>1 DEF HashOf, Hash, Draft, Row, Stored
<1>4. [rows[q.id] EXCEPT !.tags = newTags, !.hash = HashOf(q.seen.title, q.seen.content, seenTags, q.seen.layer)] \in Row
  BY <1>2, <1>3 DEF Row
<1>5. rows' \in [Ids -> Row \cup {None}]
  BY <1>1, <1>4 DEF Retag, TypeOK
<1> QED BY <1>1, <1>5 DEF Retag, TypeOK, Row

LEMMA TypeInit == Init => TypeOK
<1> SUFFICES ASSUME Init PROVE TypeOK
  OBVIOUS
<1>1. RowOf(First) \in Row
  BY RowType, ConstantsAssumption
<1>2. rows \in [Ids -> Row \cup {None}]
  BY <1>1 DEF Init
<1>3. journal \in [Ids -> Contents \cup {None}]
  BY <1>2 DEF Init, Row
<1>4. call \in [Clients -> Calls]
  BY DEF Init, Calls
<1>5. batch \in Seq([id : Ids, draft : Drafts])
  BY DEF Init
<1> QED BY <1>2, <1>3, <1>4, <1>5, ConstantsAssumption DEF Init, TypeOK

LEMMA RequestType ==
    ASSUME TypeOK, Request
    PROVE  ops' \in 0..MaxOps
BY ConstantsAssumption DEF TypeOK, Request

LEMMA RowStepType ==
    ASSUME TypeOK, RowStep
    PROVE  TypeOK'
<1>1. ASSUME NEW i \in Ids, NEW m \in Drafts, Store(i, m) PROVE TypeOK'
  <2>1. m \in Draft
    BY ConstantsAssumption
  <2> QED BY <1>1, <2>1, PutType, RequestType DEF Store, TypeOK
<1>2. ASSUME NEW gone \in SUBSET Ids, Remove(gone)
      PROVE  /\ rows' \in [Ids -> Row \cup {None}] /\ tombs' \subseteq Ids /\ edges' \subseteq Edge
             /\ feedback' \subseteq [id : Ids, pending : BOOLEAN]
             /\ stale' \subseteq Ids /\ slipped' \subseteq Ids
  BY <1>2 DEF Remove, TypeOK
<1>3. ASSUME NEW i \in Ids, Delete(i) PROVE TypeOK'
  <2>1. Remove({i})
    BY <1>3 DEF Delete
  <2> QED BY <1>2, <1>3, <2>1, RequestType DEF Delete, TypeOK
<1>4. ASSUME DeleteAll PROVE TypeOK'
  <2>1. Remove(Live) /\ Live \in SUBSET Ids
    BY <1>4 DEF DeleteAll, Live
  <2>2. journal' \in [Ids -> Contents \cup {None}]
    BY <1>4 DEF DeleteAll
  <2> QED BY <1>2, <1>4, <2>1, <2>2, RequestType DEF DeleteAll, TypeOK
<1>5. ASSUME NEW b \in Imports, BeginImport(b) PROVE TypeOK'
  <2>1. batch' \in Seq([id : Ids, draft : Drafts])
    BY <1>5, ConstantsAssumption DEF BeginImport
  <2> QED BY <1>5, <2>1, RequestType DEF BeginImport, TypeOK, marks
<1>6. ASSUME ImportNext PROVE TypeOK'
  <2> DEFINE S == [id : Ids, draft : Drafts]
  <2>0. batch \in Seq(S) /\ batch # << >>
    BY <1>6 DEF ImportNext, TypeOK
  <2>1. Head(batch) \in S /\ Tail(batch) \in Seq(S)
    <3> HIDE DEF S
    <3> QED BY <2>0
  <2>2. Head(batch).id \in Ids /\ Head(batch).draft \in Draft
    BY <2>1, ConstantsAssumption
  <2> QED BY <1>6, <2>1, <2>2, PutType DEF ImportNext, TypeOK
<1>7. ASSUME ImportStops PROVE TypeOK'
  BY <1>7 DEF ImportStops, TypeOK, marks
<1> QED BY <1>1, <1>3, <1>4, <1>5, <1>6, <1>7 DEF RowStep

LEMMA BeginType ==
    ASSUME TypeOK, NEW c \in Clients, NEW i \in Ids, NEW k \in {"patch", "add", "remove"}, NEW r,
           k = "patch" => r \in Patch, k # "patch" => r \in TagSets, Begin(c, i, k, r)
    PROVE  TypeOK'
<1>1. rows[i] \in Row /\ rows[i].layer \in Layers
  BY DEF Begin, TypeOK, Row
<1>2. [pc |-> k, id |-> i, ask |-> r, seen |-> rows[i], layer |-> rows[i].layer, answer |-> "none"] \in Calls
  BY <1>1, ConstantsAssumption DEF Calls
<1>3. call' \in [Clients -> Calls]
  BY <1>2 DEF Begin, TypeOK
<1> QED BY <1>3, RequestType DEF Begin, TypeOK, marks

LEMMA RecallType ==
    ASSUME TypeOK, NEW c \in Clients, Recall(c)
    PROVE  TypeOK'
<1>1. call[c] \in Calls /\ call[c].pc = "patch"
  BY DEF TypeOK, Recall
<1>2. call[c].id \in Ids /\ call[c].ask \in Patch /\ call[c].seen \in Row
  BY <1>1, CallsType
<1>3. ASSUME rows[call[c].id] # None
      PROVE  [call EXCEPT ![c].pc = "update", ![c].layer = rows[call[c].id].layer] \in [Clients -> Calls]
  <2>1. rows[call[c].id].layer \in Layers
    BY <1>2, <1>3 DEF TypeOK, Row
  <2>2. call[c] \in [pc : {"patch", "update"}, id : Ids, ask : Patch, seen : Row, layer : Layers, answer : {"none"}]
    BY <1>1 DEF Calls, Idle
  <2>3. [call[c] EXCEPT !.pc = "update", !.layer = rows[call[c].id].layer] \in Calls
    BY <2>1, <2>2 DEF Calls
  <2> QED BY <2>3 DEF TypeOK
<1>4. call' \in [Clients -> Calls]
  <2>1. CASE Return(c, "error") \/ Return(c, "gone")
    BY <2>1, ReturnType
  <2>2. CASE ~(Return(c, "error") \/ Return(c, "gone"))
    BY <1>3, <2>2 DEF Recall
  <2> QED BY <2>1, <2>2
<1> QED BY <1>4 DEF Recall, NoEffect, TypeOK, marks

LEMMA UpdateType ==
    ASSUME TypeOK, NEW c \in Clients, Update(c)
    PROVE  TypeOK'
<1> DEFINE q == call[c]
           m == Filled(q)
           r == [title |-> m.title, content |-> m.content, tags |-> Lowered(m.tags),
                 layer |-> rows[q.id].layer, hash |-> HashOf(m.title, m.content, m.tags, m.layer)]
<1>1. q \in Calls /\ q.pc = "update"
  BY DEF TypeOK, Update
<1>2. q.id \in Ids /\ q.ask \in Patch /\ q.seen \in Row /\ q.layer \in Layers
  BY <1>1, CallsType
<1>3. m \in Draft
  BY <1>2, PatchType
<1>4. CASE rows[q.id] = None
  <2>1. call' \in [Clients -> Calls]
    BY <1>4, ReturnType DEF Update
  <2> QED BY <1>4, <2>1 DEF Update, NoEffect, TypeOK, marks
<1>5. CASE rows[q.id] # None
  <2>1. r \in Row
    <3>1. rows[q.id].layer \in Layers
      BY <1>2, <1>5 DEF TypeOK, Row
    <3>2. Lowered(m.tags) \in SUBSET Stored
      BY <1>3, LoweredType DEF Draft
    <3> QED BY <1>3, <3>1, <3>2 DEF Row, Hash, HashOf, Draft
  <2>2. SaveRow(q.id, r) /\ Return(c, "ok")
    BY <1>5 DEF Update
  <2>3. call' \in [Clients -> Calls]
    BY <2>2, ReturnType
  <2>4. stale' \subseteq Ids /\ slipped' \subseteq Ids
    BY <1>2, <1>5 DEF Update, Mark, TypeOK
  <2>5. UNCHANGED <<tombs, feedback, flagging, batch, ops>>
    BY <1>5 DEF Update
  <2> HIDE DEF r, m
  <2> QED BY <1>2, <2>1, <2>2, <2>3, <2>4, <2>5, SaveRowType DEF TypeOK
<1> QED BY <1>4, <1>5

LEMMA TagStepType ==
    ASSUME TypeOK, NEW c \in Clients, AddTags(c) \/ RemoveTags(c)
    PROVE  TypeOK'
<1> DEFINE q == call[c]
<1>1. q \in Calls /\ q.pc \in {"add", "remove"}
  BY DEF TypeOK, AddTags, RemoveTags
<1>2. q.id \in Ids /\ q.seen \in Row /\ Lowered(q.ask) \in SUBSET Stored
  BY <1>1, CallsType, LoweredType
<1>3. call' \in [Clients -> Calls]
  BY ReturnType DEF AddTags, RemoveTags
<1>4. CASE NoEffect
  BY <1>3, <1>4 DEF NoEffect, TypeOK, marks
<1>5. CASE RemoveTags(c) /\ rows[q.id] = None
  <2>1. journal' \in [Ids -> Contents \cup {None}]
    BY <1>2, <1>5 DEF RemoveTags, TypeOK, Row
  <2> QED BY <1>3, <1>5, <2>1 DEF RemoveTags, TypeOK, marks
<1>10. ASSUME NEW x, NEW y, Mark(q.id, x, y)
       PROVE  stale' \subseteq Ids /\ slipped' \subseteq Ids
  BY <1>2, <1>10 DEF Mark, TypeOK
<1>6. ASSUME rows[q.id] # None, stale' \subseteq Ids /\ slipped' \subseteq Ids, NEW seenTags \in SUBSET Stored, NEW newTags \in SUBSET Stored,
             Retag(q, seenTags, newTags)
      PROVE  TypeOK'
  <2>1. rows' \in [Ids -> Row \cup {None}] /\ journal' \in [Ids -> Contents \cup {None}]
    BY <1>1, <1>6, RetagType
  <2> QED BY <1>3, <1>6, <2>1 DEF Retag, TypeOK
<1>7. rows[q.id] # None => rows[q.id].tags \in SUBSET Stored /\ q.seen.tags \in SUBSET Stored
  BY <1>2 DEF TypeOK, Row
<1>8. CASE AddTags(c) /\ rows[q.id] # None /\ ~NoEffect
  <2>1. Retag(q, q.seen.tags \cup Lowered(q.ask), rows[q.id].tags \cup Lowered(q.ask))
        /\ Mark(q.id, Undisturbed(q), q.seen.tags = rows[q.id].tags)
    BY <1>8 DEF AddTags
  <2>2. stale' \subseteq Ids /\ slipped' \subseteq Ids
    BY <1>10, <2>1
  <2> QED BY <1>2, <1>6, <1>7, <1>8, <2>1, <2>2
<1>9. CASE RemoveTags(c) /\ rows[q.id] # None
  <2>1. Retag(q, q.seen.tags \ Lowered(q.ask), rows[q.id].tags \ Lowered(q.ask))
        /\ Mark(q.id, Undisturbed(q), q.id \notin slipped)
    BY <1>9 DEF RemoveTags
  <2>2. stale' \subseteq Ids /\ slipped' \subseteq Ids
    BY <1>10, <2>1
  <2> QED BY <1>2, <1>6, <1>7, <1>9, <2>1, <2>2
<1> QED BY <1>4, <1>5, <1>8, <1>9 DEF AddTags, RemoveTags

LEMMA CallStepType ==
    ASSUME TypeOK, NEW c \in Clients, CallStep(c)
    PROVE  TypeOK'
<1>1. ASSUME NEW i \in Ids, NEW r \in Patches, BeginPatch(c, i, r) PROVE TypeOK'
  <2>1. Begin(c, i, "patch", r)
    BY <1>1 DEF BeginPatch
  <2> QED BY <2>1, BeginType, ConstantsAssumption
<1>2. ASSUME NEW i \in Ids, NEW ts \in TagSets, BeginAddTags(c, i, ts) \/ BeginRemoveTags(c, i, ts) PROVE TypeOK'
  <2>1. CASE Begin(c, i, "add", ts)
    BY <2>1, BeginType
  <2>2. CASE Begin(c, i, "remove", ts)
    BY <2>2, BeginType
  <2> QED BY <1>2, <2>1, <2>2 DEF BeginAddTags, BeginRemoveTags
<1>3. ASSUME NEW i \in Ids, BeginFeedback(c, i) PROVE TypeOK'
  BY <1>3, RequestType DEF BeginFeedback, TypeOK, marks
<1>4. CASE CreateFeedback(c)
  <2>1. flagging[c] \in Ids
    BY <1>4 DEF CreateFeedback, TypeOK
  <2>2. [id |-> flagging[c], pending |-> TRUE] \in [id : Ids, pending : BOOLEAN]
    BY <2>1
  <2>4. feedback' = feedback \/ feedback' = feedback \cup {[id |-> flagging[c], pending |-> TRUE]}
    BY <1>4 DEF CreateFeedback
  <2>5. feedback' \subseteq [id : Ids, pending : BOOLEAN]
    BY <2>2, <2>4 DEF TypeOK
  <2>3. flagging' \in [Clients -> Ids \cup {None}]
    BY <1>4 DEF CreateFeedback, TypeOK
  <2> QED BY <1>4, <2>5, <2>3 DEF CreateFeedback, TypeOK, marks
<1> QED BY <1>1, <1>2, <1>3, <1>4, RecallType, UpdateType, TagStepType DEF CallStep

LEMMA EdgeStepType ==
    ASSUME TypeOK, EdgeStep
    PROVE  TypeOK'
<1>1. ASSUME NEW e \in Proposals, CreateEdge(e) PROVE TypeOK'
  <2>1. e \in Edge
    BY ConstantsAssumption
  <2>2. Ends(e) \in Ids \X Ids
    BY <2>1 DEF Edge, Ends
  <2> QED BY <1>1, <2>1, <2>2, RequestType DEF CreateEdge, TypeOK
<1>2. ASSUME NEW e \in edges, NEW rel \in Kinds, NEW linked \in BOOLEAN, UpdateEdge(e, rel, linked) PROVE TypeOK'
  <2>1. e \in Edge /\ [e EXCEPT !.rel = rel, !.linked = e.linked \/ linked] \in Edge
    BY <1>2 DEF TypeOK, Edge
  <2>2. Ends(e) \in Ids \X Ids
    BY <2>1 DEF Edge, Ends
  <2> QED BY <1>2, <2>1, <2>2, RequestType DEF UpdateEdge, TypeOK
<1>3. ASSUME NEW e \in edges, NEW a \in BOOLEAN, SetEdgeStatus(e, a) PROVE TypeOK'
  <2>1. [e EXCEPT !.active = a] \in Edge
    BY <1>3 DEF TypeOK, Edge
  <2> QED BY <1>3, <2>1, RequestType DEF SetEdgeStatus, TypeOK, marks
<1>4. ASSUME NEW f \in feedback, NEW p \in BOOLEAN, SetFeedbackStatus(f, p) PROVE TypeOK'
  <2>1. [f EXCEPT !.pending = p] \in [id : Ids, pending : BOOLEAN]
    BY <1>4 DEF TypeOK
  <2> QED BY <1>4, <2>1, RequestType DEF SetFeedbackStatus, TypeOK, marks
<1> QED BY <1>1, <1>2, <1>3, <1>4 DEF EdgeStep

LEMMA CrashType ==
    ASSUME TypeOK, Crash
    PROVE  TypeOK'
<1>1. call' \in [Clients -> Calls] /\ batch' \in Seq([id : Ids, draft : Drafts])
  BY DEF Crash, Calls
<1> QED BY <1>1, RequestType DEF Crash, TypeOK, marks

LEMMA TypeStep == TypeOK /\ [Next]_vars => TypeOK'
<1> SUFFICES ASSUME TypeOK, [Next]_vars PROVE TypeOK'
  OBVIOUS
<1>1. CASE UNCHANGED vars
  BY <1>1 DEF vars, TypeOK
<1> QED BY <1>1, RowStepType, CallStepType, EdgeStepType, CrashType DEF Next

(* Every reachable state is well typed, for any memories, clients and       *)
(* bound.                                                                  *)
THEOREM TypeCorrect == Spec => []TypeOK
BY TypeInit, TypeStep, PTL DEF Spec

-----------------------------------------------------------------------------
(* What is derived from a row, its tags, and the edges of its links.       *)

\* An edit that has passed the checks writes tags that the registry admits.
Checked == \A c \in Clients : call[c].pc = "update" => Valid(Filled(call[c]).tags)

IInv == TypeOK /\ DerivedIsOwn /\ TagsAreAdmitted /\ LinksAreEdges /\ Checked

Shown(s, t) == EdgesOf(edges, s, t)
Written(s, t) == LinksTo(rows[s].content, t)

LEMMA LinksAreEdgesBy ==
    LinksAreEdges <=> \A s, t \in Live : s # t /\ <<s, t>> \notin loose => Shown(s, t) = Written(s, t)
BY DEF LinksAreEdges, Shown, Written, EdgesOf, LinksTo

\* The edges of links stay when the contents and these edges do.
LEMMA LinksKept ==
    ASSUME LinksAreEdges, Live' \subseteq Live,
           \A s \in Live' : rows'[s].content = rows[s].content,
           \A s, t \in Live' : s # t /\ <<s, t>> \notin loose' =>
               <<s, t>> \notin loose /\ Shown(s, t)' = Shown(s, t)
    PROVE  LinksAreEdges'
<1> SUFFICES ASSUME NEW s \in Live', NEW t \in Live', s # t, <<s, t>> \notin loose'
             PROVE  Shown(s, t)' = Written(s, t)'
  BY DEF LinksAreEdges, Shown, Written, EdgesOf, LinksTo
<1>1. s \in Live /\ t \in Live /\ <<s, t>> \notin loose /\ Shown(s, t)' = Shown(s, t)
  OBVIOUS
<1>2. Shown(s, t) = Written(s, t)
  BY <1>1, LinksAreEdgesBy
<1> QED BY <1>1, <1>2 DEF Written, LinksTo

LEMMA RowLive ==
    ASSUME TypeOK, NEW i \in Ids, NEW r \in Row, rows' = [rows EXCEPT ![i] = r]
    PROVE  Live' = Live \cup {i} /\ \A j \in Ids : rows'[j] = IF j = i THEN r ELSE rows[j]
<1>1. r # None
  BY ConstantsAssumption
<1> QED BY <1>1 DEF Live, TypeOK

LEMMA SaveLive ==
    ASSUME TypeOK, NEW i \in Ids, NEW r \in Row, SaveRow(i, r)
    PROVE  Live' = Live \cup {i} /\ \A j \in Ids : rows'[j] = IF j = i THEN r ELSE rows[j]
BY RowLive DEF SaveRow

\* A row is written together with the edges of its links.
LEMMA LinksWritten ==
    ASSUME TypeOK, LinksAreEdges, NEW i \in Ids, NEW r \in Row, rows' = [rows EXCEPT ![i] = r],
           edges' = SyncEdges(edges, i, r.content, Live \cup {i}),
           \A s, t \in Live' : s # i /\ <<s, t>> \notin loose' =>
               s \in Live /\ t \in Live /\ <<s, t>> \notin loose
    PROVE  LinksAreEdges'
<1> SUFFICES ASSUME NEW s \in Live', NEW t \in Live', s # t, <<s, t>> \notin loose'
             PROVE  Shown(s, t)' = Written(s, t)'
  BY DEF LinksAreEdges, Shown, Written, EdgesOf, LinksTo
<1>0. Live' = Live \cup {i} /\ \A j \in Ids : rows'[j] = IF j = i THEN r ELSE rows[j]
  BY RowLive
<1>1. Live' = Live \cup {i} /\ Live \in SUBSET Ids /\ r.content \in Contents /\ edges \in SUBSET Edge
  BY <1>0 DEF Live, Row, TypeOK
<1>3. CASE s = i
  <2>1. rows'[s].content = r.content
    BY <1>0, <1>3
  <2>2. EdgesOf(SyncEdges(edges, s, r.content, Live \cup {i}), s, t) = LinksTo(r.content, t)
    <3> DEFINE present == Live \cup {i}
    <3>1. present \in SUBSET Ids /\ s \in Ids /\ t \in present
      BY <1>1, <1>3
    <3> HIDE DEF present
    <3>2. EdgesOf(SyncEdges(edges, s, r.content, present), s, t) = LinksTo(r.content, t)
      BY <1>1, <3>1, SyncEdgesExact
    <3> QED BY <3>2 DEF present
  <2> QED BY <1>3, <2>1, <2>2 DEF Shown, Written, EdgesOf, LinksTo
<1>4. CASE s # i
  <2>1. s \in Live /\ t \in Live /\ <<s, t>> \notin loose
    BY <1>4
  <2>2. rows'[s].content = rows[s].content
    BY <1>0, <1>1, <1>4, <2>1
  <2>3. \A e : Ends(e) = <<s, t>> => (e \in edges' <=> e \in edges)
    BY <1>1, <1>4, SyncEdgesOthers DEF Ends
  <2>4. Shown(s, t)' = Shown(s, t)
    BY <2>3 DEF Shown, EdgesOf
  <2> QED BY <2>1, <2>2, <2>4, LinksAreEdgesBy DEF Written, LinksTo
<1> QED BY <1>3, <1>4

LEMMA SaveLinks ==
    ASSUME TypeOK, LinksAreEdges, NEW i \in Ids, NEW r \in Row, SaveRow(i, r)
    PROVE  LinksAreEdges'
<1>1. Live' = Live \cup {i} /\ Live \in SUBSET Ids
  BY SaveLive DEF Live
<1>2. ASSUME NEW s \in Live', NEW t \in Live', s # i, <<s, t>> \notin loose'
      PROVE  s \in Live /\ t \in Live /\ <<s, t>> \notin loose
  BY <1>1, <1>2 DEF SaveRow
<1> QED BY <1>2, LinksWritten DEF SaveRow

\* A row whose hash, journal row and tags were made of what is written.
LEMMA SaveDerived ==
    ASSUME TypeOK, DerivedIsOwn, TagsAreAdmitted, NEW i \in Ids, NEW r \in Row, SaveRow(i, r),
           NEW exact \in BOOLEAN, NEW checked \in BOOLEAN, Mark(i, exact, checked),
           exact => r.hash = Memory(r), checked => Valid(r.tags)
    PROVE  DerivedIsOwn' /\ TagsAreAdmitted'
<1>1. \A j \in Live' : rows'[j] = IF j = i THEN r ELSE rows[j]
  BY SaveLive DEF Live
<1>2. \A j \in Live' : j # i => j \in Live
  BY SaveLive
<1>3. \A j \in Ids : journal'[j] = IF j = i THEN r.content ELSE journal[j]
  BY DEF SaveRow, TypeOK
<1>4. DerivedIsOwn'
  <2> SUFFICES ASSUME NEW j \in Live', j \notin stale'
               PROVE  rows'[j].hash = Memory(rows'[j]) /\ journal'[j] \in {None, rows'[j].content}
    BY DEF DerivedIsOwn, Memory
  <2>1. CASE j = i
    BY <1>1, <1>3, <2>1 DEF Mark
  <2>2. CASE j # i
    <3>1. j \in Live /\ j \in Ids /\ j \notin stale
      BY <1>2, <2>2 DEF Mark, Live
    <3> QED BY <1>1, <1>3, <2>2, <3>1 DEF DerivedIsOwn
  <2> QED BY <2>1, <2>2
<1>5. TagsAreAdmitted'
  <2> SUFFICES ASSUME NEW j \in Live', j \notin slipped'
               PROVE  Valid(rows'[j].tags)
    BY DEF TagsAreAdmitted, Valid
  <2>1. CASE j = i
    BY <1>1, <2>1 DEF Mark
  <2>2. CASE j # i
    BY <1>1, <1>2, <2>2 DEF Mark, TagsAreAdmitted
  <2> QED BY <2>1, <2>2
<1> QED BY <1>4, <1>5

LEMMA PutInv ==
    ASSUME IInv, TypeOK', NEW i \in Ids, NEW m \in Draft, Valid(m.tags), Put(i, m)
    PROVE  IInv'
<1>1. RowOf(m) \in Row /\ SaveRow(i, RowOf(m)) /\ Mark(i, m.tags \subseteq Stored, AllAsked(m.tags))
  BY RowType DEF Put
<1>2. m.tags \subseteq Stored => Lowered(m.tags) = m.tags
  BY LoweredStored DEF Draft
<1>3. /\ m.tags \subseteq Stored => RowOf(m).hash = Memory(RowOf(m))
      /\ AllAsked(m.tags) => Valid(RowOf(m).tags)
  BY <1>2, LoweredValid DEF RowOf, Memory, HashOf, Draft
<1>4. DerivedIsOwn' /\ TagsAreAdmitted'
  <2> DEFINE r == RowOf(m)
             x == m.tags \subseteq Stored
             y == AllAsked(m.tags)
  <2>1. x \in BOOLEAN /\ y \in BOOLEAN
    BY DEF AllAsked
  <2>2. r \in Row /\ SaveRow(i, r) /\ Mark(i, x, y) /\ (x => r.hash = Memory(r)) /\ (y => Valid(r.tags))
    BY <1>1, <1>3
  <2> HIDE DEF r, x, y
  <2> QED BY <2>1, <2>2, SaveDerived DEF IInv
<1>5. LinksAreEdges'
  BY <1>1, SaveLinks DEF IInv
<1>6. Checked'
  BY DEF Put, IInv, Checked, Valid, Filled, Or
<1> QED BY <1>4, <1>5, <1>6 DEF IInv

LEMMA RemoveInv ==
    ASSUME IInv, TypeOK', NEW gone \in SUBSET Ids, Remove(gone), loose' = loose, UNCHANGED call,
           \A i \in Ids : journal'[i] \in {None, journal[i]}
    PROVE  IInv'
<1>1. Live' = Live \ gone /\ \A i \in Live' : rows'[i] = rows[i]
  BY DEF Remove, Live
<1>2. DerivedIsOwn'
  <2> SUFFICES ASSUME NEW j \in Live', j \notin stale'
               PROVE  rows'[j].hash = Memory(rows'[j]) /\ journal'[j] \in {None, rows'[j].content}
    BY DEF DerivedIsOwn, Memory
  <2>1. j \in Live \ stale /\ j \in Ids /\ rows'[j] = rows[j]
    BY <1>1 DEF Remove, Live
  <2> QED BY <2>1 DEF IInv, DerivedIsOwn
<1>3. TagsAreAdmitted'
  BY <1>1 DEF Remove, IInv, TagsAreAdmitted, Valid
<1>4. LinksAreEdges'
  <2>1. \A s, t \in Live' : Shown(s, t)' = Shown(s, t)
    <3> SUFFICES ASSUME NEW s \in Live', NEW t \in Live'
                 PROVE  Shown(s, t)' = Shown(s, t)
      OBVIOUS
    <3>1. \A e : Ends(e) = <<s, t>> => (e \in edges' <=> e \in edges)
      BY <1>1 DEF Remove, Ends
    <3> QED BY <3>1 DEF Shown, EdgesOf
  <2> QED BY <1>1, <2>1, LinksKept DEF IInv
<1>5. Checked'
  BY DEF IInv, Checked, Valid, Filled, Or
<1> QED BY <1>2, <1>3, <1>4, <1>5 DEF IInv

\* A step that leaves the rows and all that hangs on them alone.
LEMMA ElsewhereInv ==
    ASSUME IInv, TypeOK', Checked', UNCHANGED <<rows, journal, edges, stale, slipped, loose>>
    PROVE  IInv'
BY DEF IInv, DerivedIsOwn, TagsAreAdmitted, LinksAreEdges, Live, Memory, Valid, Ends

LEMMA CallsKept ==
    ASSUME Checked, UNCHANGED call
    PROVE  Checked'
BY DEF Checked, Valid, Filled, Or

\* A call of one client that does not come to write an edit.
LEMMA CallsMoved ==
    ASSUME TypeOK, Checked, NEW c \in Clients, NEW q, q.pc # "update", call' = [call EXCEPT ![c] = q]
    PROVE  Checked'
<1>1. \A d \in Clients : call'[d] = IF d = c THEN q ELSE call[d]
  BY DEF TypeOK
<1> QED BY <1>1 DEF Checked, Valid, Filled, Or

LEMMA RowStepInv ==
    ASSUME IInv, TypeOK', RowStep
    PROVE  IInv'
<1>0. TypeOK /\ Checked
  BY DEF IInv
<1>1. ASSUME NEW i \in Ids, NEW m \in Drafts, Store(i, m) PROVE IInv'
  <2>1. m \in Draft
    BY ConstantsAssumption
  <2> QED BY <1>1, <2>1, PutInv DEF Store, Storable
<1>2. ASSUME NEW i \in Ids, Delete(i) PROVE IInv'
  <2>1. Remove({i}) /\ {i} \in SUBSET Ids /\ loose' = loose /\ UNCHANGED <<call, journal>>
    BY <1>2 DEF Delete
  <2> QED BY <2>1, RemoveInv
<1>3. CASE DeleteAll
  <2>1. Remove(Live) /\ Live \in SUBSET Ids /\ loose' = loose /\ UNCHANGED call /\ \A i \in Ids : journal'[i] = None
    BY <1>3 DEF DeleteAll, Live
  <2> QED BY <2>1, RemoveInv
<1>4. ASSUME NEW b \in Imports, BeginImport(b) PROVE IInv'
  BY <1>0, <1>4, CallsKept, ElsewhereInv DEF BeginImport, marks
<1>5. CASE ImportNext
  <2> DEFINE S == [id : Ids, draft : Drafts]
  <2>0. batch \in Seq(S) /\ batch # << >>
    BY <1>0, <1>5 DEF ImportNext, TypeOK
  <2>1. Head(batch) \in S
    <3> HIDE DEF S
    <3> QED BY <2>0
  <2>2. Head(batch).id \in Ids /\ Head(batch).draft \in Draft
    BY <2>1, ConstantsAssumption
  <2> QED BY <1>5, <2>2, PutInv DEF ImportNext, Storable
<1>6. CASE ImportStops
  BY <1>0, <1>6, CallsKept, ElsewhereInv DEF ImportStops, marks
<1> QED BY <1>1, <1>2, <1>3, <1>4, <1>5, <1>6 DEF RowStep

LEMMA BeginInv ==
    ASSUME IInv, TypeOK', NEW c \in Clients, NEW i, NEW k \in {"patch", "add", "remove"}, NEW r, Begin(c, i, k, r)
    PROVE  IInv'
<1>1. Checked'
  <2> DEFINE q == [pc |-> k, id |-> i, ask |-> r, seen |-> rows[i], layer |-> rows[i].layer, answer |-> "none"]
  <2>1. q.pc # "update" /\ call' = [call EXCEPT ![c] = q]
    BY DEF Begin
  <2> HIDE DEF q
  <2> QED BY <2>1, CallsMoved DEF IInv
<1> QED BY <1>1, ElsewhereInv DEF Begin, marks

LEMMA ReturnChecked ==
    ASSUME IInv, NEW c \in Clients, NEW a, Return(c, a)
    PROVE  Checked'
<1>1. Idle(a).pc # "update" /\ call' = [call EXCEPT ![c] = Idle(a)]
  BY DEF Idle, Return
<1> QED BY <1>1, CallsMoved DEF IInv

LEMMA RecallInv ==
    ASSUME IInv, TypeOK', NEW c \in Clients, Recall(c)
    PROVE  IInv'
<1>1. Checked'
  <2>1. CASE Return(c, "error") \/ Return(c, "gone")
    BY <2>1, ReturnChecked
  <2>2. CASE ~(Return(c, "error") \/ Return(c, "gone"))
    <3>1. Valid(Filled(call[c]).tags)
      BY <2>2 DEF Recall
    <3> DEFINE q == [call[c] EXCEPT !.pc = "update", !.layer = rows[call[c].id].layer]
    <3>2. call' = [call EXCEPT ![c] = q]
      BY <2>2 DEF Recall
    <3>3. \A d \in Clients : call'[d] = IF d = c THEN q ELSE call[d]
      BY <3>2 DEF IInv, TypeOK
    <3>4. q.ask = call[c].ask /\ q.seen = call[c].seen
      BY DEF IInv, TypeOK, Calls, Idle
    <3>5. Filled(q).tags = Filled(call[c]).tags
      BY <3>4 DEF Filled
    <3> HIDE DEF q
    <3> SUFFICES ASSUME NEW d \in Clients, call'[d].pc = "update"
                 PROVE  Valid(Filled(call'[d]).tags)
      BY DEF Checked, Valid, Filled, Or
    <3>6. CASE d = c
      BY <3>1, <3>3, <3>5, <3>6
    <3>7. CASE d # c
      BY <3>3, <3>7 DEF IInv, Checked
    <3> QED BY <3>6, <3>7
  <2> QED BY <2>1, <2>2
<1> QED BY <1>1, ElsewhereInv DEF Recall, NoEffect, marks

LEMMA UpdateInv ==
    ASSUME IInv, TypeOK', NEW c \in Clients, Update(c)
    PROVE  IInv'
<1> DEFINE q == call[c]
           m == Filled(q)
           r == [title |-> m.title, content |-> m.content, tags |-> Lowered(m.tags),
                 layer |-> rows[q.id].layer, hash |-> HashOf(m.title, m.content, m.tags, m.layer)]
           x == m.tags \subseteq Stored /\ m.layer = rows[q.id].layer
           y == AllAsked(m.tags)
<1>0. TypeOK /\ Checked
  BY DEF IInv
<1>1. q \in Calls /\ q.pc = "update"
  BY <1>0 DEF TypeOK, Update
<1>2. q.id \in Ids /\ q.ask \in Patch /\ q.seen \in Row /\ q.layer \in Layers
  BY <1>1, CallsType
<1>3. m \in Draft /\ Valid(m.tags)
  BY <1>0, <1>1, <1>2, PatchType DEF Checked
<1>4. Checked'
  BY ReturnChecked DEF Update
<1>5. CASE rows[q.id] = None
  BY <1>4, <1>5, ElsewhereInv DEF Update, NoEffect, marks
<1>6. CASE rows[q.id] # None
  <2>1. r \in Row
    <3>1. rows[q.id].layer \in Layers
      BY <1>0, <1>2, <1>6 DEF TypeOK, Row
    <3>2. Lowered(m.tags) \in SUBSET Stored
      BY <1>3, LoweredType DEF Draft
    <3> QED BY <1>3, <3>1, <3>2 DEF Row, Hash, HashOf, Draft
  <2>2. SaveRow(q.id, r) /\ Mark(q.id, x, y) /\ x \in BOOLEAN /\ y \in BOOLEAN
    BY <1>6 DEF Update, AllAsked
  <2>3. m.tags \subseteq Stored => Lowered(m.tags) = m.tags
    BY <1>3, LoweredStored DEF Draft
  <2>4. (x => r.hash = Memory(r)) /\ (y => Valid(r.tags))
    BY <1>3, <2>3, LoweredValid DEF Memory, HashOf, Draft
  <2> HIDE DEF r, x, y, m, q
  <2>5. DerivedIsOwn' /\ TagsAreAdmitted'
    BY <1>2, <2>1, <2>2, <2>4, SaveDerived DEF IInv
  <2>6. LinksAreEdges'
    BY <1>2, <2>1, <2>2, SaveLinks DEF IInv
  <2> QED BY <1>4, <2>5, <2>6 DEF IInv
<1> QED BY <1>5, <1>6

\* A change of tags: the row keeps all but its tags and hash.
LEMMA RetagInv ==
    ASSUME IInv, TypeOK', Checked', NEW q \in Calls, q.pc \in {"add", "remove"}, rows[q.id] # None,
           NEW seenTags \in SUBSET Stored, NEW newTags \in SUBSET Stored, Retag(q, seenTags, newTags),
           NEW checked \in BOOLEAN, Mark(q.id, Undisturbed(q), checked),
           Undisturbed(q) => seenTags = newTags, checked => Valid(newTags)
    PROVE  IInv'
<1> DEFINE i == q.id
           r == rows'[i]
<1>1. i \in Ids /\ q.seen \in Row /\ rows[i] \in Row
  BY CallsType DEF IInv, TypeOK
<1>2. \A j \in Ids : j # i => rows'[j] = rows[j] /\ journal'[j] = journal[j]
  BY DEF Retag, IInv, TypeOK
<1>3. r = [rows[i] EXCEPT !.tags = newTags, !.hash = HashOf(q.seen.title, q.seen.content, seenTags, q.seen.layer)]
  BY <1>1 DEF Retag, IInv, TypeOK
<1>4. journal'[i] = q.seen.content
  BY <1>1 DEF Retag, IInv, TypeOK
<1>5. /\ r.title = rows[i].title /\ r.content = rows[i].content /\ r.layer = rows[i].layer
      /\ r.tags = newTags /\ r.hash = HashOf(q.seen.title, q.seen.content, seenTags, q.seen.layer)
  BY <1>1, <1>3 DEF Row
<1>6. Live' = Live
  <2>0. HashOf(q.seen.title, q.seen.content, seenTags, q.seen.layer) \in Hash
    BY <1>1 DEF HashOf, Hash, Draft, Row, Stored
  <2>1. r \in Row
    BY <1>1, <1>3, <2>0 DEF Row
  <2> QED BY <1>1, <1>2, <2>1, ConstantsAssumption DEF Live
<1>7. Undisturbed(q) => r.hash = Memory(r) /\ journal'[i] = r.content
  BY <1>4, <1>5 DEF Undisturbed, Memory, HashOf
<1> HIDE DEF r
<1>8. DerivedIsOwn'
  <2> SUFFICES ASSUME NEW j \in Live', j \notin stale'
               PROVE  rows'[j].hash = Memory(rows'[j]) /\ journal'[j] \in {None, rows'[j].content}
    BY DEF DerivedIsOwn, Memory
  <2>1. CASE j = i
    BY <1>7, <2>1 DEF Mark, r
  <2>2. CASE j # i
    <3>1. j \in Live /\ j \in Ids /\ j \notin stale
      BY <1>6, <2>2 DEF Mark, Live
    <3> QED BY <1>2, <2>2, <3>1 DEF IInv, DerivedIsOwn
  <2> QED BY <2>1, <2>2
<1>9. TagsAreAdmitted'
  <2> SUFFICES ASSUME NEW j \in Live', j \notin slipped'
               PROVE  Valid(rows'[j].tags)
    BY DEF TagsAreAdmitted, Valid
  <2>1. CASE j = i
    BY <1>5, <2>1 DEF Mark, r
  <2>2. CASE j # i
    <3>1. j \in Live /\ j \in Ids /\ j \notin slipped
      BY <1>6, <2>2 DEF Mark, Live
    <3> QED BY <1>2, <2>2, <3>1 DEF IInv, TagsAreAdmitted
  <2> QED BY <2>1, <2>2
<1>10. LinksAreEdges'
  <2>1. \A s \in Live' : rows'[s].content = rows[s].content
    BY <1>2, <1>5 DEF r, Live
  <2>2. \A s, t : Shown(s, t)' = Shown(s, t)
    BY DEF Shown, EdgesOf, Retag, Ends
  <2> QED BY <1>6, <2>1, <2>2, LinksKept DEF IInv, Retag
<1> QED BY <1>8, <1>9, <1>10 DEF IInv

LEMMA TagStepInv ==
    ASSUME IInv, TypeOK', NEW c \in Clients, AddTags(c) \/ RemoveTags(c)
    PROVE  IInv'
<1> DEFINE q == call[c]
<1>1. q \in Calls /\ q.pc \in {"add", "remove"}
  BY DEF IInv, TypeOK, AddTags, RemoveTags
<1>2. q.id \in Ids /\ q.seen \in Row /\ Lowered(q.ask) \in SUBSET Stored
  BY <1>1, CallsType, LoweredType
<1>3. Checked'
  BY ReturnChecked DEF AddTags, RemoveTags
<1>4. CASE NoEffect
  BY <1>3, <1>4, ElsewhereInv DEF NoEffect, marks
<1>5. CASE RemoveTags(c) /\ rows[q.id] = None
  <2>1. \A j \in Live : journal'[j] = journal[j]
    BY <1>5 DEF RemoveTags, IInv, TypeOK, Live
  <2>2. UNCHANGED <<rows, edges, stale, slipped, loose>>
    BY <1>5 DEF RemoveTags, marks
  <2>3. DerivedIsOwn'
    BY <2>1, <2>2 DEF IInv, DerivedIsOwn, Live, Memory
  <2>4. TagsAreAdmitted' /\ LinksAreEdges'
    BY <2>2 DEF IInv, TagsAreAdmitted, LinksAreEdges, Live, Valid, Ends
  <2> QED BY <1>3, <2>3, <2>4 DEF IInv
<1>6. rows[q.id] # None => rows[q.id].tags \in SUBSET Stored /\ q.seen.tags \in SUBSET Stored
  BY <1>2 DEF IInv, TypeOK, Row
<1>7. Undisturbed(q) => q.seen.tags = rows[q.id].tags
  BY DEF Undisturbed, Memory
<1>8. CASE AddTags(c) /\ rows[q.id] # None /\ ~NoEffect
  <2>1. /\ Retag(q, q.seen.tags \cup Lowered(q.ask), rows[q.id].tags \cup Lowered(q.ask))
        /\ Mark(q.id, Undisturbed(q), q.seen.tags = rows[q.id].tags)
        /\ Valid(q.seen.tags \cup Lowered(q.ask))
    BY <1>8 DEF AddTags
  <2>2. q.seen.tags \cup Lowered(q.ask) \in SUBSET Stored /\ rows[q.id].tags \cup Lowered(q.ask) \in SUBSET Stored
    BY <1>2, <1>6, <1>8
  <2>3. (q.seen.tags = rows[q.id].tags) \in BOOLEAN
    OBVIOUS
  <2>4. /\ Undisturbed(q) => q.seen.tags \cup Lowered(q.ask) = rows[q.id].tags \cup Lowered(q.ask)
        /\ q.seen.tags = rows[q.id].tags => Valid(rows[q.id].tags \cup Lowered(q.ask))
    BY <1>7, <2>1
  <2> QED BY <1>1, <1>3, <1>8, <2>1, <2>2, <2>3, <2>4, RetagInv
<1>9. CASE RemoveTags(c) /\ rows[q.id] # None
  <2>1. /\ Retag(q, q.seen.tags \ Lowered(q.ask), rows[q.id].tags \ Lowered(q.ask))
        /\ Mark(q.id, Undisturbed(q), q.id \notin slipped)
    BY <1>9 DEF RemoveTags
  <2>2. q.seen.tags \ Lowered(q.ask) \in SUBSET Stored /\ rows[q.id].tags \ Lowered(q.ask) \in SUBSET Stored
    BY <1>6, <1>9
  <2>3. q.id \notin slipped => Valid(rows[q.id].tags \ Lowered(q.ask))
    <3>1. q.id \notin slipped => Valid(rows[q.id].tags)
      BY <1>2, <1>9 DEF IInv, TagsAreAdmitted, Live
    <3> QED BY <3>1, ValidSubset
  <2>4. Undisturbed(q) => q.seen.tags \ Lowered(q.ask) = rows[q.id].tags \ Lowered(q.ask)
    BY <1>7
  <2>5. (q.id \notin slipped) \in BOOLEAN
    OBVIOUS
  <2> QED BY <1>1, <1>3, <1>9, <2>1, <2>2, <2>3, <2>4, <2>5, RetagInv
<1> QED BY <1>4, <1>5, <1>8, <1>9 DEF AddTags, RemoveTags

LEMMA CallStepInv ==
    ASSUME IInv, TypeOK', NEW c \in Clients, CallStep(c)
    PROVE  IInv'
<1>1. ASSUME NEW i \in Ids, NEW r \in Patches, BeginPatch(c, i, r) PROVE IInv'
  BY <1>1, BeginInv DEF BeginPatch
<1>2. ASSUME NEW i \in Ids, NEW ts \in TagSets, BeginAddTags(c, i, ts) PROVE IInv'
  BY <1>2, BeginInv DEF BeginAddTags
<1>3. ASSUME NEW i \in Ids, NEW ts \in TagSets, BeginRemoveTags(c, i, ts) PROVE IInv'
  BY <1>3, BeginInv DEF BeginRemoveTags
<1>4. ASSUME NEW i \in Ids, BeginFeedback(c, i) PROVE IInv'
  BY <1>4, CallsKept, ElsewhereInv DEF IInv, BeginFeedback, marks
<1>5. CASE CreateFeedback(c)
  BY <1>5, CallsKept, ElsewhereInv DEF IInv, CreateFeedback, marks
<1> QED BY <1>1, <1>2, <1>3, <1>4, <1>5, RecallInv, UpdateInv, TagStepInv DEF CallStep

LEMMA EdgeStepInv ==
    ASSUME IInv, TypeOK', EdgeStep
    PROVE  IInv'
\* Edges between a settled pair stay, as far as they stand for links.
<1>0. ASSUME UNCHANGED <<rows, journal, call, stale, slipped>>,
             \A s, t : <<s, t>> \notin loose' => <<s, t>> \notin loose /\ Shown(s, t)' = Shown(s, t)
      PROVE  IInv'
  <2>1. Live' = Live
    BY <1>0 DEF Live
  <2>2. LinksAreEdges'
    BY <1>0, <2>1, LinksKept DEF IInv
  <2>3. DerivedIsOwn' /\ TagsAreAdmitted' /\ Checked'
    BY <1>0, <2>1, CallsKept DEF IInv, DerivedIsOwn, TagsAreAdmitted, Memory, Valid
  <2> QED BY <2>2, <2>3 DEF IInv
<1>1. ASSUME NEW e \in Proposals, CreateEdge(e) PROVE IInv'
  <2>1. \A s, t : <<s, t>> \notin loose' => <<s, t>> \notin loose /\ Shown(s, t)' = Shown(s, t)
    BY <1>1 DEF CreateEdge, Shown, EdgesOf, Ends
  <2> QED BY <1>0, <1>1, <2>1 DEF CreateEdge
<1>2. ASSUME NEW e \in edges, NEW rel \in Kinds, NEW linked \in BOOLEAN, UpdateEdge(e, rel, linked) PROVE IInv'
  <2> DEFINE new == [e EXCEPT !.rel = rel, !.linked = e.linked \/ linked]
  <2>1. Ends(new) = Ends(e)
    BY <1>2 DEF Ends, IInv, TypeOK, Edge
  <2>2. edges' = (edges \ {e}) \cup {new} /\ loose' = loose \cup {Ends(e)}
    BY <1>2 DEF UpdateEdge
  <2> HIDE DEF new
  <2>3. \A s, t : <<s, t>> \notin loose' => <<s, t>> \notin loose /\ Shown(s, t)' = Shown(s, t)
    <3> SUFFICES ASSUME NEW s, NEW t, <<s, t>> \notin loose'
                 PROVE  <<s, t>> \notin loose /\ Shown(s, t)' = Shown(s, t)
      OBVIOUS
    <3>1. <<s, t>> # Ends(e)
      BY <2>2
    <3>2. \A d : Ends(d) = <<s, t>> => (d \in edges' <=> d \in edges)
      BY <2>1, <2>2, <3>1
    <3> QED BY <2>2, <3>2 DEF Shown, EdgesOf
  <2> QED BY <1>0, <1>2, <2>3 DEF UpdateEdge
<1>3. ASSUME NEW e \in edges, NEW a \in BOOLEAN, SetEdgeStatus(e, a) PROVE IInv'
  <2> DEFINE new == [e EXCEPT !.active = a]
  <2>1. Ends(new) = Ends(e) /\ new.rel = e.rel /\ new.linked = e.linked
    BY <1>3 DEF Ends, IInv, TypeOK, Edge
  <2>2. edges' = (edges \ {e}) \cup {new} /\ loose' = loose
    BY <1>3 DEF SetEdgeStatus, marks
  <2> HIDE DEF new
  <2>3. \A s, t : Shown(s, t)' = Shown(s, t)
    <3> SUFFICES ASSUME NEW s, NEW t
                 PROVE  Shown(s, t)' = Shown(s, t)
      OBVIOUS
    <3>1. ASSUME NEW d \in edges, Ends(d) = <<s, t>>, d.linked
          PROVE  \E x \in edges' : Ends(x) = <<s, t>> /\ x.linked /\ x.rel = d.rel
      BY <2>1, <2>2, <3>1
    <3>2. ASSUME NEW d \in edges', Ends(d) = <<s, t>>, d.linked
          PROVE  \E x \in edges : Ends(x) = <<s, t>> /\ x.linked /\ x.rel = d.rel
      BY <2>1, <2>2, <3>2
    <3> QED BY <3>1, <3>2 DEF Shown, EdgesOf
  <2> QED BY <1>0, <1>3, <2>2, <2>3 DEF SetEdgeStatus, marks
<1>4. ASSUME NEW f \in feedback, NEW p \in BOOLEAN, SetFeedbackStatus(f, p) PROVE IInv'
  BY <1>4, CallsKept, ElsewhereInv DEF IInv, SetFeedbackStatus, marks
<1> QED BY <1>1, <1>2, <1>3, <1>4 DEF EdgeStep

LEMMA StepInv == IInv /\ [Next]_vars => IInv'
<1> SUFFICES ASSUME IInv, [Next]_vars PROVE IInv'
  OBVIOUS
<1>0. TypeOK'
  BY TypeStep DEF IInv
<1>1. CASE UNCHANGED vars
  BY <1>0, <1>1, CallsKept, ElsewhereInv DEF vars, IInv
<1>2. CASE Crash
  <2>1. Checked'
    BY <1>2 DEF Crash, Checked, Idle
  <2> QED BY <1>0, <1>2, <2>1, ElsewhereInv DEF Crash, marks
<1> QED BY <1>0, <1>1, <1>2, RowStepInv, CallStepInv, EdgeStepInv DEF Next

LEMMA InitInv == Init => IInv
<1> SUFFICES ASSUME Init PROVE IInv
  OBVIOUS
<1>0. \A i \in Live : rows[i] = RowOf(First)
  BY DEF Init, Live
<1>1. First \in Draft /\ Lowered(First.tags) = First.tags /\ Links[First.content] = {}
  BY LoweredStored, ConstantsAssumption DEF Draft
<1>2. DerivedIsOwn
  BY <1>0, <1>1 DEF DerivedIsOwn, Init, Live, RowOf, Memory, HashOf
<1>3. TagsAreAdmitted
  BY <1>0, <1>1, ConstantsAssumption DEF TagsAreAdmitted, RowOf, Valid
<1>4. LinksAreEdges
  <2>1. \A s \in Live : Links[rows[s].content] = {}
    BY <1>0, <1>1 DEF RowOf
  <2> QED BY <2>1 DEF LinksAreEdges, Init
<1>5. Checked
  BY DEF Init, Checked, Idle
<1> QED BY <1>2, <1>3, <1>4, <1>5, TypeInit DEF IInv

LEMMA InvCorrect == Spec => []IInv
BY InitInv, StepInv, PTL DEF Spec

(* The hash and the journal row of a memory say what its row says, unless   *)
(* its last write hashed what it had read before somebody else wrote.      *)
THEOREM DerivedStaysOwn == Spec => []DerivedIsOwn
<1>1. IInv => DerivedIsOwn
  BY DEF IInv
<1> QED BY <1>1, InvCorrect, PTL

(* The registry admits the tags of every memory whose tags were checked as  *)
(* they are.                                                               *)
THEOREM TagsStayAdmitted == Spec => []TagsAreAdmitted
<1>1. IInv => TagsAreAdmitted
  BY DEF IInv
<1> QED BY <1>1, InvCorrect, PTL

(* The edges that stand for links are those of the present content.        *)
THEOREM LinksStayEdges == Spec => []LinksAreEdges
<1>1. IInv => LinksAreEdges
  BY DEF IInv
<1> QED BY <1>1, InvCorrect, PTL

-----------------------------------------------------------------------------
(* The store implements AtomicStore.                                       *)

\* What AtomicStore sees of the store.
Shadow == [i \in Ids |-> IF rows[i] = None THEN None ELSE Memory(rows[i])]
Requests == [c \in Clients |-> Abstract(call[c])]
Memories == [title : Titles, content : Contents, tags : SUBSET Stored, layer : Layers]
StoredPatches == [title : Optional(Titles), content : Optional(Contents), tags : Optional(SUBSET Stored)]

LEMMA MemoryIsNotNone ==
    ASSUME NEW r \in Row
    PROVE  Memory(r) \in Memories /\ Memory(r) # None
<1>1. Memory(r) \in Memories
  BY MemoryType DEF Memories
<1>2. Memory(r) \in Draft
  BY <1>1 DEF Memories, Draft, Stored
<1> QED BY <1>1, <1>2, ConstantsAssumption

LEMMA ShadowOf ==
    ASSUME TypeOK, NEW i \in Ids
    PROVE  /\ rows[i] = None => Shadow[i] = None
           /\ rows[i] # None => Shadow[i] = Memory(rows[i]) /\ Shadow[i] # None
<1>1. rows[i] # None => rows[i] \in Row
  BY DEF TypeOK
<1> QED BY <1>1, MemoryIsNotNone DEF Shadow

LEMMA ShadowSaved ==
    ASSUME TypeOK, NEW i \in Ids, NEW r \in Row, rows' = [rows EXCEPT ![i] = r]
    PROVE  Shadow' = [Shadow EXCEPT ![i] = Memory(r)]
<1>1. \A j \in Ids : rows'[j] = IF j = i THEN r ELSE rows[j]
  BY DEF TypeOK
<1>2. r # None
  BY ConstantsAssumption
<1> QED BY <1>1, <1>2 DEF Shadow, Memory

LEMMA RequestsMoved ==
    ASSUME TypeOK, NEW c \in Clients, NEW q, call' = [call EXCEPT ![c] = q]
    PROVE  Requests' = [Requests EXCEPT ![c] = Abstract(q)]
<1>1. \A d \in Clients : call'[d] = IF d = c THEN q ELSE call[d]
  BY DEF TypeOK
<1>2. Requests' = [d \in Clients |-> Abstract(call'[d])]
  BY DEF Requests, Abstract, LowerPatch, TagPatch, Lowered, Lower, Memory
<1>3. Requests = [d \in Clients |-> Abstract(call[d])]
  BY DEF Requests
<1> QED BY <1>1, <1>2, <1>3

LEMMA Answered ==
    ASSUME TypeOK, NEW c \in Clients, NEW a \in {"none", "ok", "gone", "error"}, Return(c, a)
    PROVE  Requests' = [Requests EXCEPT ![c] = Atomic!Idle(IF a \in {"gone", "error"} THEN "no" ELSE a)]
<1>1. call' = [call EXCEPT ![c] = Idle(a)]
  BY DEF Return
<1>2. Abstract(Idle(a)) = Atomic!Idle(IF a \in {"gone", "error"} THEN "no" ELSE a)
  BY DEF Abstract, Idle, Atomic!Idle
<1> HIDE DEF Idle
<1> QED BY <1>1, <1>2, RequestsMoved

LEMMA PutRefines ==
    ASSUME TypeOK, NEW i \in Ids, NEW m \in Draft, Put(i, m)
    PROVE  Atomic!Next
<1>1. RowOf(m) \in Row /\ rows' = [rows EXCEPT ![i] = RowOf(m)] /\ UNCHANGED call
  BY RowType DEF Put, SaveRow
<1>2. Shadow' = [Shadow EXCEPT ![i] = Memory(RowOf(m))] /\ Memory(RowOf(m)) \in Memories
  BY <1>1, ShadowSaved, MemoryIsNotNone
<1>3. Shadow'[i] = Memory(RowOf(m))
  BY <1>2 DEF Shadow
<1>4. UNCHANGED Requests
  BY <1>1 DEF Requests, Abstract, LowerPatch, TagPatch, Lowered, Lower, Memory
<1>5. Atomic!Put(i)
  BY <1>2, <1>3, <1>4 DEF Atomic!Put, Shadow, Requests, Memories
<1> QED BY <1>5 DEF Atomic!Next

LEMMA RemoveRefines ==
    ASSUME TypeOK, NEW gone \in SUBSET Ids, Remove(gone), UNCHANGED call
    PROVE  Atomic!Next
<1>1. Shadow' = [i \in Ids |-> IF i \in gone THEN None ELSE Shadow[i]]
  BY DEF Remove, Shadow, Memory
<1>2. UNCHANGED Requests
  BY DEF Requests, Abstract, LowerPatch, TagPatch, Lowered, Lower, Memory
<1>3. Atomic!Clear(gone)
  BY <1>1, <1>2 DEF Atomic!Clear, Shadow, Requests
<1> QED BY <1>3 DEF Atomic!Next

LEMMA StutterRefines ==
    ASSUME UNCHANGED <<rows, call>>
    PROVE  UNCHANGED Atomic!vars
<1>1. UNCHANGED Shadow /\ UNCHANGED Requests
  BY DEF Shadow, Requests, Abstract, LowerPatch, TagPatch, Lowered, Lower, Memory
<1> QED BY <1>1 DEF Atomic!vars, Shadow, Requests

LEMMA PatchStored ==
    /\ \A r \in Patch : LowerPatch(r) \in StoredPatches
    /\ \A ts \in SUBSET Given : TagPatch(ts) \in StoredPatches
<1>1. ASSUME NEW r \in Patch PROVE LowerPatch(r) \in StoredPatches
  <2>1. r.title \in Optional(Titles) /\ r.content \in Optional(Contents) /\ r.tags \in Optional(SUBSET Given)
    BY DEF Patch
  <2>2. {Lowered(ts) : ts \in r.tags} \in Optional(SUBSET Stored)
    <3>1. CASE r.tags = {}
      BY <3>1 DEF Optional
    <3>2. ASSUME NEW ts \in SUBSET Given, r.tags = {ts} PROVE {Lowered(us) : us \in r.tags} \in Optional(SUBSET Stored)
      <4>1. {Lowered(us) : us \in r.tags} = {Lowered(ts)}
        BY <3>2
      <4> QED BY <4>1, LoweredType DEF Optional
    <3> QED BY <2>1, <3>1, <3>2 DEF Optional
  <2>3. LowerPatch(r) = [title |-> r.title, content |-> r.content, tags |-> {Lowered(ts) : ts \in r.tags}]
    BY DEF LowerPatch, Patch
  <2> HIDE DEF Optional
  <2> QED BY <2>1, <2>2, <2>3 DEF StoredPatches
<1>2. ASSUME NEW ts \in SUBSET Given PROVE TagPatch(ts) \in StoredPatches
  BY LoweredType DEF TagPatch, StoredPatches, Optional
<1> QED BY <1>1, <1>2

LEMMA BeginRefines ==
    ASSUME TypeOK, NEW c \in Clients, NEW i \in Ids, NEW k \in {"patch", "add", "remove"}, NEW r,
           k = "patch" => r \in Patch, k # "patch" => r \in TagSets, Begin(c, i, k, r)
    PROVE  Atomic!Next
<1> DEFINE q == [pc |-> k, id |-> i, ask |-> r, seen |-> rows[i], layer |-> rows[i].layer, answer |-> "none"]
           p == IF k = "patch" THEN LowerPatch(r) ELSE TagPatch(r)
           a == [kind |-> k, id |-> i, ask |-> p, look |-> Memory(rows[i]), answer |-> "none"]
<1>1. p \in StoredPatches
  BY PatchStored, ConstantsAssumption
<1>2. Abstract(q) = a
  BY DEF Abstract
<1>3. Requests' = [Requests EXCEPT ![c] = a]
  <2>1. call' = [call EXCEPT ![c] = q]
    BY DEF Begin
  <2> HIDE DEF q, a
  <2> QED BY <1>2, <2>1, RequestsMoved
<1>4. Requests[c].kind = "idle"
  BY DEF Requests, Abstract, Begin
<1>5. Requests'[c] = a
  BY <1>3 DEF Requests
<1>6. UNCHANGED Shadow /\ Shadow[i] = Memory(rows[i]) /\ Shadow[i] # None
  BY ShadowOf DEF Begin, Shadow, Memory
<1>7. Requests' = [Requests EXCEPT ![c] = [kind |-> Requests'[c].kind, id |-> i, ask |-> Requests'[c].ask,
                                           look |-> Shadow[i], answer |-> "none"]]
  BY <1>3, <1>5, <1>6
<1>8. Requests'[c].kind \in {"patch", "add", "remove"} /\ Requests'[c].ask \in StoredPatches
  BY <1>1, <1>5
<1> HIDE DEF p, a, q
<1>9. Atomic!Ask(c)
  BY <1>4, <1>6, <1>7, <1>8 DEF Atomic!Ask, Atomic!Open, Shadow, Requests, StoredPatches
<1> QED BY <1>9 DEF Atomic!Next

\* A call under way that is refused.
LEMMA DeclineRefines ==
    ASSUME TypeOK, NEW c \in Clients, call[c].pc # "idle", NEW a \in {"gone", "error"}, Return(c, a), UNCHANGED rows
    PROVE  Atomic!Next
<1>1. Requests' = [Requests EXCEPT ![c] = Atomic!Idle("no")]
  BY Answered
<1>2. Requests[c].kind # "idle"
  BY CallsType DEF Requests, Abstract, TypeOK
<1>3. UNCHANGED Shadow
  BY DEF Shadow, Memory
<1>4. Atomic!Decline(c)
  BY <1>1, <1>2, <1>3 DEF Atomic!Decline, Atomic!Open, Atomic!Return, Shadow, Requests
<1> QED BY <1>4 DEF Atomic!Next

\* A call under way that changes its memory.
LEMMA ApplyRefines ==
    ASSUME TypeOK, NEW c \in Clients, call[c].pc # "idle", rows[call[c].id] # None, Return(c, "ok"),
           NEW r \in Row, rows' = [rows EXCEPT ![call[c].id] = r],
           LET q == Abstract(call[c])
           IN  Memory(r) = Atomic!Change(Memory(rows[q.id]), q.kind, q.ask, q.look)
    PROVE  Atomic!Next
<1> DEFINE i == call[c].id
<1>0. i \in Ids /\ call[c].pc \in {"patch", "update", "add", "remove"}
  BY CallsType DEF TypeOK
<1>1. Requests[c] = Abstract(call[c]) /\ Requests[c].id = i /\ Requests[c].kind # "idle"
  BY <1>0 DEF Requests, Abstract
<1>2. Requests' = [Requests EXCEPT ![c] = Atomic!Idle("ok")]
  BY Answered
<1>3. Shadow[i] = Memory(rows[i]) /\ Shadow[i] # None
  BY <1>0, ShadowOf
<1>4. Shadow' = [Shadow EXCEPT ![i] = Memory(r)]
  BY <1>0, ShadowSaved
<1>5. Memory(r) = Atomic!Change(Shadow[i], Requests[c].kind, Requests[c].ask, Requests[c].look)
  BY <1>1, <1>3
<1>6. Shadow' = [Shadow EXCEPT ![Requests[c].id] = Atomic!Change(Shadow[Requests[c].id], Requests[c].kind, Requests[c].ask, Requests[c].look)]
  BY <1>1, <1>4, <1>5
<1>7. Atomic!Apply(c)
  BY <1>1, <1>2, <1>3, <1>6 DEF Atomic!Apply, Atomic!Open, Atomic!Return, Shadow, Requests
<1> QED BY <1>7 DEF Atomic!Next

\* Filling in what an edit leaves out comes to the same above and below.
LEMMA FilledRefines ==
    ASSUME NEW ask \in Patch, NEW seen \in Row, NEW layer \in Layers, NEW q,
           q.ask = ask, q.seen = seen, q.layer = layer
    PROVE  LET m == Filled(q)
               p == LowerPatch(ask)
           IN  /\ m.title = Atomic!Or(p.title, Memory(seen).title)
               /\ m.content = Atomic!Or(p.content, Memory(seen).content)
               /\ Lowered(m.tags) = Atomic!Or(p.tags, Memory(seen).tags)
<1>1. Filled(q).title = Or(ask.title, seen.title) /\ Filled(q).content = Or(ask.content, seen.content)
      /\ Filled(q).tags = Or(ask.tags, seen.tags)
  BY DEF Filled
<1>2. Filled(q).title = Atomic!Or(LowerPatch(ask).title, Memory(seen).title)
      /\ Filled(q).content = Atomic!Or(LowerPatch(ask).content, Memory(seen).content)
  BY <1>1 DEF Or, Atomic!Or, LowerPatch, Memory
<1>3. Lowered(Filled(q).tags) = Atomic!Or(LowerPatch(ask).tags, Memory(seen).tags)
  <2>0. ask.tags \in Optional(SUBSET Given) /\ seen.tags \in SUBSET Given /\ seen.tags \subseteq Stored
    BY DEF Patch, Row, Stored
  <2>1. CASE ask.tags = {}
    <3>1. Lowered(seen.tags) = seen.tags
      BY <2>0, LoweredStored
    <3> QED BY <1>1, <2>1, <3>1 DEF Or, Atomic!Or, LowerPatch, Memory
  <2>2. ASSUME NEW ts \in SUBSET Given, ask.tags = {ts}
        PROVE  Lowered(Filled(q).tags) = Atomic!Or(LowerPatch(ask).tags, Memory(seen).tags)
    <3>1. Filled(q).tags = ts
      BY <1>1, <2>2 DEF Or
    <3>2. LowerPatch(ask).tags = {Lowered(ts)}
      BY <2>2 DEF LowerPatch
    <3> QED BY <3>1, <3>2 DEF Atomic!Or
  <2> QED BY <2>0, <2>1, <2>2 DEF Optional
<1> QED BY <1>2, <1>3

LEMMA RecallRefines ==
    ASSUME TypeOK, NEW c \in Clients, Recall(c)
    PROVE  [Atomic!Next]_(Atomic!vars)
<1>1. CASE Return(c, "error")
  BY <1>1, DeclineRefines DEF Recall, NoEffect
<1>2. CASE Return(c, "gone")
  BY <1>2, DeclineRefines DEF Recall, NoEffect
<1>3. CASE ~Return(c, "error") /\ ~Return(c, "gone")
  <2> DEFINE q == [call[c] EXCEPT !.pc = "update", !.layer = rows[call[c].id].layer]
  <2>1. call' = [call EXCEPT ![c] = q] /\ UNCHANGED rows /\ call[c].pc = "patch"
    BY <1>3 DEF Recall, NoEffect
  <2>2. q.pc = "update" /\ q.id = call[c].id /\ q.ask = call[c].ask /\ q.seen = call[c].seen
    BY <2>1 DEF TypeOK, Calls, Idle
  <2>3. Abstract(q) = Abstract(call[c])
    BY <2>1, <2>2 DEF Abstract
  <2> HIDE DEF q
  <2>4. Requests' = [Requests EXCEPT ![c] = Requests[c]]
    BY <2>1, <2>3, RequestsMoved DEF Requests
  <2>5. UNCHANGED Requests
    BY <2>4 DEF Requests
  <2>6. UNCHANGED Shadow
    BY <2>1 DEF Shadow, Memory
  <2> QED BY <2>5, <2>6 DEF Atomic!vars, Shadow, Requests
<1> QED BY <1>1, <1>2, <1>3

LEMMA UpdateRefines ==
    ASSUME TypeOK, NEW c \in Clients, Update(c)
    PROVE  Atomic!Next
<1> DEFINE q == call[c]
           m == Filled(q)
           r == [title |-> m.title, content |-> m.content, tags |-> Lowered(m.tags),
                 layer |-> rows[q.id].layer, hash |-> HashOf(m.title, m.content, m.tags, m.layer)]
<1>1. q \in Calls /\ q.pc = "update"
  BY DEF TypeOK, Update
<1>2. q.id \in Ids /\ q.ask \in Patch /\ q.seen \in Row /\ q.layer \in Layers
  BY <1>1, CallsType
<1>3. CASE rows[q.id] = None
  BY <1>1, <1>3, DeclineRefines DEF Update, NoEffect
<1>4. CASE rows[q.id] # None
  <2>1. rows' = [rows EXCEPT ![q.id] = r] /\ Return(c, "ok")
    BY <1>4 DEF Update, SaveRow
  <2>2. rows'[q.id] = r /\ r # None
    <3>1. r \in Row
      <4>1. m \in Draft
        BY <1>2, PatchType
      <4>2. rows[q.id].layer \in Layers
        BY <1>2, <1>4 DEF TypeOK, Row
      <4>3. Lowered(m.tags) \in SUBSET Stored
        BY <4>1, LoweredType DEF Draft
      <4> QED BY <4>1, <4>2, <4>3 DEF Row, Hash, HashOf, Draft
    <3> QED BY <1>2, <2>1, <3>1, ConstantsAssumption DEF TypeOK
  <2>3. r \in Row
    BY <1>2, <2>2, UpdateType DEF TypeOK
  <2>4. LET a == Abstract(q)
        IN  Memory(r) = Atomic!Change(Memory(rows[a.id]), a.kind, a.ask, a.look)
    <3> DEFINE p == LowerPatch(q.ask)
               look == Memory(q.seen)
    <3>1. Abstract(q) = [kind |-> "patch", id |-> q.id, ask |-> p, look |-> look, answer |-> "none"]
      BY <1>1 DEF Abstract
    <3>2. m.title = Atomic!Or(p.title, look.title) /\ m.content = Atomic!Or(p.content, look.content)
          /\ Lowered(m.tags) = Atomic!Or(p.tags, look.tags)
      BY <1>2, FilledRefines
    <3>3. Memory(r) = [title |-> m.title, content |-> m.content, tags |-> Lowered(m.tags), layer |-> rows[q.id].layer]
      BY DEF Memory
    <3> HIDE DEF m, p, look, r
    <3> QED BY <3>1, <3>2, <3>3 DEF Atomic!Change, Memory
  <2> HIDE DEF r
  <2> QED BY <1>1, <1>4, <2>1, <2>3, <2>4, ApplyRefines
<1> QED BY <1>3, <1>4

LEMMA TagsRefine ==
    ASSUME TypeOK, NEW c \in Clients, AddTags(c) \/ RemoveTags(c)
    PROVE  Atomic!Next
<1> DEFINE q == call[c]
<1>1. q \in Calls /\ q.pc \in {"add", "remove"}
  BY DEF TypeOK, AddTags, RemoveTags
<1>2. q.id \in Ids /\ q.seen \in Row /\ q.ask \in SUBSET Given
  BY <1>1, CallsType
<1>3. Abstract(q) = [kind |-> q.pc, id |-> q.id, ask |-> TagPatch(q.ask), look |-> Memory(q.seen), answer |-> "none"]
  BY <1>1 DEF Abstract
<1>4. UNION TagPatch(q.ask).tags = Lowered(q.ask)
  BY DEF TagPatch
<1>5. CASE Return(c, "error") /\ UNCHANGED rows
  BY <1>1, <1>5, DeclineRefines
<1>6. CASE RemoveTags(c) /\ rows[q.id] = None
  <2>1. Requests' = [Requests EXCEPT ![c] = Atomic!Idle("ok")]
    BY <1>6, Answered DEF RemoveTags
  <2>2. Requests[c].kind = "remove" /\ Requests[c].id = q.id
    BY <1>3, <1>6 DEF Requests, RemoveTags
  <2>3. UNCHANGED Shadow /\ Shadow[q.id] = None
    BY <1>2, <1>6, ShadowOf DEF RemoveTags, Shadow, Memory
  <2>4. Atomic!NothingLeft(c)
    BY <2>1, <2>2, <2>3 DEF Atomic!NothingLeft, Atomic!Return, Shadow, Requests
  <2> QED BY <2>4 DEF Atomic!Next
<1>7. ASSUME rows[q.id] # None, Return(c, "ok"), NEW seenTags \in SUBSET Stored, NEW newTags \in SUBSET Stored,
             Retag(q, seenTags, newTags),
             q.pc = "add" => newTags = rows[q.id].tags \cup Lowered(q.ask),
             q.pc = "remove" => newTags = rows[q.id].tags \ Lowered(q.ask)
      PROVE  Atomic!Next
  <2> DEFINE h == HashOf(q.seen.title, q.seen.content, seenTags, q.seen.layer)
             old == rows[q.id]
             r == [old EXCEPT !.tags = newTags, !.hash = h]
  <2>1. rows' = [rows EXCEPT ![q.id] = r]
    BY <1>7 DEF Retag
  <2>2. old \in Row /\ h \in Hash
    BY <1>2, <1>7 DEF TypeOK, Row, HashOf, Hash, Draft, Stored
  <2>3. r \in Row /\ Memory(r) = [Memory(old) EXCEPT !.tags = newTags]
    <3> HIDE DEF h, old
    <3>1. r \in Row
      BY <2>2 DEF Row
    <3>2. Memory(r) = [Memory(old) EXCEPT !.tags = newTags]
      BY <2>2 DEF Row, Memory
    <3> QED BY <3>1, <3>2
  <2>4. LET a == Abstract(q)
        IN  Memory(r) = Atomic!Change(Memory(rows[a.id]), a.kind, a.ask, a.look)
    <3>1. Memory(old).tags = old.tags
      BY DEF Memory
    <3>2. CASE q.pc = "add"
      <4>1. Memory(r) = [Memory(old) EXCEPT !.tags = Memory(old).tags \cup UNION TagPatch(q.ask).tags]
        BY <1>4, <1>7, <2>3, <3>1, <3>2
      <4> HIDE DEF r
      <4> QED BY <1>3, <3>2, <4>1 DEF Atomic!Change
    <3>3. CASE q.pc = "remove"
      <4>1. Memory(r) = [Memory(old) EXCEPT !.tags = Memory(old).tags \ UNION TagPatch(q.ask).tags]
        BY <1>4, <1>7, <2>3, <3>1, <3>3
      <4> HIDE DEF r
      <4> QED BY <1>3, <3>3, <4>1 DEF Atomic!Change
    <3> QED BY <1>1, <3>2, <3>3
  <2>5. r \in Row
    BY <2>3
  <2> HIDE DEF r
  <2> QED BY <1>1, <1>7, <2>1, <2>4, <2>5, ApplyRefines
<1>8. rows[q.id] # None => rows[q.id].tags \in SUBSET Stored /\ q.seen.tags \in SUBSET Stored
  BY <1>2 DEF TypeOK, Row
<1>9. Lowered(q.ask) \in SUBSET Stored
  BY <1>2, LoweredType
<1>10. CASE AddTags(c) /\ ~(Return(c, "error") /\ UNCHANGED rows)
  <2>1. rows[q.id] # None /\ Return(c, "ok") /\ q.pc = "add"
        /\ Retag(q, q.seen.tags \cup Lowered(q.ask), rows[q.id].tags \cup Lowered(q.ask))
    BY <1>10 DEF AddTags, NoEffect
  <2> QED BY <1>7, <1>8, <1>9, <2>1
<1>11. CASE RemoveTags(c) /\ rows[q.id] # None
  <2>1. Return(c, "ok") /\ q.pc = "remove"
        /\ Retag(q, q.seen.tags \ Lowered(q.ask), rows[q.id].tags \ Lowered(q.ask))
    BY <1>11 DEF RemoveTags
  <2> QED BY <1>7, <1>8, <1>11, <2>1
<1> QED BY <1>5, <1>6, <1>10, <1>11

LEMMA StepRefines == TypeOK /\ [Next]_vars => [Atomic!Next]_(Atomic!vars)
<1> SUFFICES ASSUME TypeOK, [Next]_vars PROVE [Atomic!Next]_(Atomic!vars)
  OBVIOUS
<1>1. CASE UNCHANGED vars
  BY <1>1, StutterRefines DEF vars
<1>2. CASE RowStep
  <2>1. ASSUME NEW i \in Ids, NEW m \in Drafts, Store(i, m) PROVE Atomic!Next
    <3>1. m \in Draft /\ Put(i, m)
      BY <2>1, ConstantsAssumption DEF Store
    <3> QED BY <3>1, PutRefines
  <2>2. ASSUME NEW i \in Ids, Delete(i) PROVE Atomic!Next
    BY <2>2, RemoveRefines DEF Delete
  <2>3. CASE DeleteAll
    <3>1. Remove(Live) /\ UNCHANGED call /\ Live \in SUBSET Ids
      BY <2>3 DEF DeleteAll, Live
    <3> QED BY <3>1, RemoveRefines
  <2>4. CASE ImportStops \/ \E b \in Imports : BeginImport(b)
    BY <2>4, StutterRefines DEF ImportStops, BeginImport
  <2>5. CASE ImportNext
    <3> DEFINE S == [id : Ids, draft : Drafts]
    <3>0. batch \in Seq(S) /\ batch # << >>
      BY <2>5 DEF ImportNext, TypeOK
    <3>1. Head(batch) \in S
      <4> HIDE DEF S
      <4> QED BY <3>0
    <3>2. Head(batch).id \in Ids /\ Head(batch).draft \in Draft
      BY <3>1, ConstantsAssumption
    <3> QED BY <2>5, <3>2, PutRefines DEF ImportNext
  <2> QED BY <1>2, <2>1, <2>2, <2>3, <2>4, <2>5 DEF RowStep
<1>3. CASE EdgeStep
  BY <1>3, StutterRefines DEF EdgeStep, CreateEdge, UpdateEdge, SetEdgeStatus, SetFeedbackStatus
<1>4. CASE Crash
  <2>1. UNCHANGED Shadow
    BY <1>4 DEF Crash, Shadow, Memory
  <2>2. Requests' = [c \in Clients |-> Atomic!Idle("none")]
    <3>1. Abstract(Idle("none")) = Atomic!Idle("none")
      BY DEF Abstract, Idle, Atomic!Idle
    <3>2. call' = [c \in Clients |-> Idle("none")]
      BY <1>4 DEF Crash
    <3>3. Requests' = [c \in Clients |-> Abstract(call'[c])]
      BY DEF Requests, Abstract, LowerPatch, TagPatch, Lowered, Lower, Memory
    <3> QED BY <3>1, <3>2, <3>3
  <2>3. Atomic!Crash
    BY <2>1, <2>2 DEF Atomic!Crash, Shadow, Requests
  <2> QED BY <2>3 DEF Atomic!Next
<1>5. ASSUME NEW c \in Clients, CallStep(c) PROVE [Atomic!Next]_(Atomic!vars)
  <2>1. ASSUME NEW i \in Ids, NEW r \in Patches, BeginPatch(c, i, r) PROVE Atomic!Next
    <3>1. Begin(c, i, "patch", r)
      BY <2>1 DEF BeginPatch
    <3> QED BY <3>1, BeginRefines, ConstantsAssumption
  <2>2. ASSUME NEW i \in Ids, NEW ts \in TagSets, BeginAddTags(c, i, ts) PROVE Atomic!Next
    <3>1. Begin(c, i, "add", ts)
      BY <2>2 DEF BeginAddTags
    <3> QED BY <3>1, BeginRefines
  <2>3. ASSUME NEW i \in Ids, NEW ts \in TagSets, BeginRemoveTags(c, i, ts) PROVE Atomic!Next
    <3>1. Begin(c, i, "remove", ts)
      BY <2>3 DEF BeginRemoveTags
    <3> QED BY <3>1, BeginRefines
  <2>4. CASE CreateFeedback(c) \/ \E i \in Ids : BeginFeedback(c, i)
    BY <2>4, StutterRefines DEF CreateFeedback, BeginFeedback
  <2> QED BY <1>5, <2>1, <2>2, <2>3, <2>4, RecallRefines, UpdateRefines, TagsRefine DEF CallStep
<1> QED BY <1>1, <1>2, <1>3, <1>4, <1>5 DEF Next

(* The store implements AtomicStore: its edits and tag changes, which read  *)
(* the memory before they take the lock, take effect at one instant all    *)
(* the same, never on a memory that is gone, and say whether they did.     *)
THEOREM StoreIsAtomic == Spec => ImplementsAtomicStore
<1>1. Init => Atomic!Init
  <2> SUFFICES ASSUME Init PROVE Atomic!Init
    OBVIOUS
  <2>1. Shadow \in [Ids -> Memories \cup {None}]
    BY TypeInit, MemoryIsNotNone DEF Shadow, TypeOK
  <2>2. Requests = [c \in Clients |-> Atomic!Idle("none")]
    BY DEF Init, Requests, Abstract, Idle, Atomic!Idle
  <2> QED BY <2>1, <2>2 DEF Atomic!Init, Shadow, Requests, Memories
<1> QED BY <1>1, StepRefines, TypeCorrect, PTL DEF Spec, ImplementsAtomicStore, Atomic!Spec

-----------------------------------------------------------------------------
(* Conflicts: what the sync loop and those who resolve conflicts do to the  *)
(* store.                                                                  *)

LEMMA SyncedRow ==
    ASSUME TypeOK, NEW i \in Ids, NEW c \in Contents, Synced(i, c)
    PROVE  \E r \in Row :
             /\ rows' = [rows EXCEPT ![i] = r]
             /\ r.content = c /\ r.hash = Memory(r) /\ r.tags = rows[i].tags
<1> DEFINE old == rows[i]
           h == [Memory(old) EXCEPT !.content = c]
           r == [old EXCEPT !.content = c, !.hash = h]
<1>1. old \in Row
  BY DEF Synced, TypeOK
<1>2. h = [title |-> old.title, content |-> c, tags |-> old.tags, layer |-> old.layer]
  BY DEF Memory
<1>3. h \in Hash
  BY <1>1, <1>2 DEF Row, Hash, Draft, Stored
<1>4. r \in Row
  <2> HIDE DEF h, old
  <2> QED BY <1>1, <1>3 DEF Row
<1>5. r.content = c /\ r.hash = h /\ r.tags = old.tags /\ r.title = old.title /\ r.layer = old.layer
  <2> HIDE DEF h, old
  <2> QED BY <1>1 DEF Row
<1>6. r.hash = Memory(r)
  <2> HIDE DEF r
  <2> QED BY <1>2, <1>5 DEF Memory
<1>7. rows' = [rows EXCEPT ![i] = r]
  BY <1>1 DEF Synced, TypeOK
<1> HIDE DEF r, h
<1> QED BY <1>4, <1>5, <1>6, <1>7

LEMMA SyncedType ==
    ASSUME TypeOK, NEW i \in Ids, NEW c \in Contents, Synced(i, c)
    PROVE  TypeOK'
<1>1. PICK r \in Row : rows' = [rows EXCEPT ![i] = r]
  BY SyncedRow
<1>2. rows' \in [Ids -> Row \cup {None}]
  BY <1>1 DEF TypeOK
<1>3. journal' \in [Ids -> Contents \cup {None}]
  BY DEF Synced, TypeOK
<1>4. edges' \in SUBSET Edge
  <2>1. edges \in SUBSET Edge /\ Live \in SUBSET Ids
    BY DEF TypeOK, Live
  <2> QED BY <2>1, SyncEdgesType DEF Synced
<1>5. stale' \subseteq Ids /\ loose' \subseteq Ids \X Ids
  BY DEF Synced, TypeOK
<1> QED BY <1>2, <1>3, <1>4, <1>5 DEF Synced, TypeOK

\* What another device wrote arrives whole: with its hash, its edges, and
\* the same tags.
LEMMA SyncedInv ==
    ASSUME IInv, NEW i \in Ids, NEW c \in Contents, Synced(i, c)
    PROVE  IInv'
<1>0. TypeOK /\ TypeOK'
  BY SyncedType DEF IInv
<1>1. PICK r \in Row : /\ rows' = [rows EXCEPT ![i] = r]
                       /\ r.content = c /\ r.hash = Memory(r) /\ r.tags = rows[i].tags
  BY <1>0, SyncedRow
<1>2. i \in Live /\ Live' = Live /\ \A j \in Ids : rows'[j] = IF j = i THEN r ELSE rows[j]
  <2>1. Live' = Live \cup {i} /\ \A j \in Ids : rows'[j] = IF j = i THEN r ELSE rows[j]
    BY <1>0, <1>1, RowLive
  <2>2. i \in Live
    BY DEF Synced, Live
  <2> QED BY <2>1, <2>2
<1>3. DerivedIsOwn'
  <2> SUFFICES ASSUME NEW j \in Live', j \notin stale'
               PROVE  rows'[j].hash = Memory(rows'[j]) /\ journal'[j] \in {None, rows'[j].content}
    BY DEF DerivedIsOwn, Memory
  <2>0. j \in Ids
    BY <1>2 DEF Live
  <2>1. CASE j = i
    <3>1. rows'[j] = r
      BY <1>2, <2>0, <2>1
    <3>2. journal'[j] \in {None, c}
      BY <1>0, <2>1 DEF Synced, TypeOK
    <3> QED BY <1>1, <3>1, <3>2
  <2>2. CASE j # i
    <3>1. j \in Live /\ j \notin stale /\ rows'[j] = rows[j]
      BY <1>2, <2>0, <2>2 DEF Synced
    <3>2. journal'[j] = journal[j]
      BY <1>0, <2>0, <2>2 DEF Synced, TypeOK
    <3> QED BY <3>1, <3>2 DEF IInv, DerivedIsOwn
  <2> QED BY <2>1, <2>2
<1>4. TagsAreAdmitted'
  <2> SUFFICES ASSUME NEW j \in Live', j \notin slipped'
               PROVE  Valid(rows'[j].tags)
    BY DEF TagsAreAdmitted, Valid
  <2>1. j \in Live /\ j \notin slipped /\ rows'[j].tags = rows[j].tags
    BY <1>1, <1>2 DEF Synced, Live
  <2> QED BY <2>1 DEF IInv, TagsAreAdmitted
<1>5. LinksAreEdges'
  <2>1. edges' = SyncEdges(edges, i, r.content, Live \cup {i})
    <3>1. Live \cup {i} = Live
      BY <1>2
    <3> QED BY <1>1, <3>1 DEF Synced
  <2>2. ASSUME NEW s \in Live', NEW t \in Live', s # i, <<s, t>> \notin loose'
        PROVE  s \in Live /\ t \in Live /\ <<s, t>> \notin loose
    BY <1>2, <2>2 DEF Synced
  <2>3. LinksAreEdges
    BY DEF IInv
  <2> QED BY <1>0, <1>1, <2>1, <2>2, <2>3, LinksWritten
<1>6. Checked'
  BY CallsKept DEF IInv, Synced
<1> QED BY <1>0, <1>3, <1>4, <1>5, <1>6 DEF IInv

LEMMA SyncedNewInv ==
    ASSUME IInv, NEW i \in Ids, NEW m \in Drafts, SyncedNew(i, m)
    PROVE  IInv'
<1>1. m \in Draft /\ Valid(m.tags) /\ Put(i, m)
  BY ConstantsAssumption DEF SyncedNew, Storable
<1>2. TypeOK'
  BY <1>1, PutType DEF SyncedNew, IInv, TypeOK
<1> QED BY <1>1, <1>2, PutInv

LEMMA SyncedAwayInv ==
    ASSUME IInv, NEW i \in Ids, SyncedAway(i)
    PROVE  IInv'
<1>1. Remove({i}) /\ loose' = loose /\ UNCHANGED <<call, flagging, batch, ops>>
  BY DEF SyncedAway
<1>2. journal' \in [Ids -> Contents \cup {None}] /\ \A j \in Ids : journal'[j] \in {None, journal[j]}
  BY DEF SyncedAway, IInv, TypeOK
<1>3. TypeOK'
  BY <1>1, <1>2 DEF Remove, IInv, TypeOK
<1> QED BY <1>1, <1>2, <1>3, RemoveInv

LEMMA DropJournalInv ==
    ASSUME IInv, SyncTypeOK, DropJournal
    PROVE  IInv'
<1>0. loop.row[1] \in Ids
  BY DEF SyncTypeOK, JournalRow, DropJournal
<1>1. journal' \in [Ids -> Contents \cup {None}] /\ \A i \in Ids : journal'[i] \in {None, journal[i]}
  BY <1>0 DEF DropJournal, IInv, TypeOK
<1>2. TypeOK'
  BY <1>1 DEF DropJournal, IInv, TypeOK, marks
<1>3. DerivedIsOwn'
  <2> SUFFICES ASSUME NEW j \in Live', j \notin stale'
               PROVE  rows'[j].hash = Memory(rows'[j]) /\ journal'[j] \in {None, rows'[j].content}
    BY DEF DerivedIsOwn, Memory
  <2>1. j \in Live /\ j \notin stale /\ rows'[j] = rows[j] /\ j \in Ids
    BY DEF DropJournal, marks, Live
  <2> QED BY <1>1, <2>1 DEF IInv, DerivedIsOwn
<1>4. TagsAreAdmitted' /\ LinksAreEdges'
  <2>1. /\ rows' = rows /\ edges' = edges /\ slipped' = slipped /\ loose' = loose
        /\ TagsAreAdmitted /\ LinksAreEdges
    BY DEF DropJournal, marks, IInv
  <2>2. Live' = Live
    BY <2>1 DEF Live
  <2>3. TagsAreAdmitted'
    BY <2>1, <2>2 DEF TagsAreAdmitted, Valid
  <2>4. LinksAreEdges'
    BY <2>1, <2>2 DEF LinksAreEdges, Ends
  <2> QED BY <2>3, <2>4
<1>5. Checked'
  BY CallsKept DEF IInv, DropJournal
<1> QED BY <1>2, <1>3, <1>4, <1>5 DEF IInv

\* The ways the store changes, whoever is at work.
OnlyCounted == Request /\ UNCHANGED <<rows, tombs, journal, edges, feedback, call, flagging, batch, marks>>

LEMMA StoreMoves ==
    ASSUME SyncTypeOK, SyncNext
    PROVE  \/ [Next]_vars
           \/ \E i \in Ids, c \in Contents : Synced(i, c)
           \/ \E i \in Ids, m \in Drafts : SyncedNew(i, m)
           \/ \E i \in Ids : SyncedAway(i)
           \/ DropJournal
           \/ \E c \in Clients, i \in Ids, r \in Patch : BeginPatch(c, i, r)
           \/ OnlyCounted
<1>1. CASE LocalStep
  BY <1>1 DEF LocalStep, Next
<1>2. CASE CrashStep
  BY <1>2 DEF CrashStep, Next
<1>3. CASE LoopStep
  BY <1>3 DEF LoopStep, TakeJournal, SyncFails, DbSync, Compare, RecordConflict, EndCycle, SameStore, vars
<1>4. ASSUME NEW i \in Ids, NEW p \in Peers, NEW t \in Contents, RecordFromPeer(i, p, t) \/ CrashWhileRecording(i, p, t)
      PROVE  [Next]_vars
  BY <1>4 DEF RecordFromPeer, CrashWhileRecording, Next, vars
<1>5. ASSUME NEW c \in Clients, EndResolve(c)
      PROVE  [Next]_vars
  BY <1>5 DEF EndResolve
<1>6. ASSUME NEW c \in Clients, NEW x \in conflicts, NEW k \in BOOLEAN, BeginResolve(c, x, k)
      PROVE  OnlyCounted \/ \E i \in Ids, r \in Patch : BeginPatch(c, i, r)
  <2>1. CASE k = FALSE
    BY <1>6, <2>1 DEF BeginResolve, OnlyCounted
  <2>2. CASE k = TRUE
    <3> DEFINE old == rows[x.id]
               r == [title |-> {old.title}, content |-> {x.local}, tags |-> {old.tags}]
    <3>1. x.id \in Ids /\ x.local \in Contents
      BY DEF SyncTypeOK, Conflict
    <3>2. BeginPatch(c, x.id, r)
      BY <1>6, <2>2 DEF BeginResolve
    <3>3. old \in Row
      BY <3>1, <3>2 DEF BeginPatch, Begin, SyncTypeOK, TypeOK
    <3>4. old.title \in Titles /\ old.tags \in SUBSET Given
      BY <3>3 DEF Row, Stored
    <3>5. r \in Patch
      <4>1. {old.title} \in Optional(Titles) /\ {x.local} \in Optional(Contents) /\ {old.tags} \in Optional(SUBSET Given)
        BY <3>1, <3>4 DEF Optional
      <4> HIDE DEF old
      <4> QED BY <4>1 DEF Patch
    <3> HIDE DEF r
    <3> QED BY <3>1, <3>2, <3>5
  <2> QED BY <2>1, <2>2
<1> QED BY <1>1, <1>2, <1>3, <1>4, <1>5, <1>6 DEF SyncNext, ConflictStep

LEMMA StoreInv ==
    ASSUME IInv, SyncTypeOK, SyncNext
    PROVE  IInv'
<1>1. CASE [Next]_vars
  BY <1>1, StepInv
<1>2. ASSUME NEW i \in Ids, NEW c \in Contents, Synced(i, c) PROVE IInv'
  BY <1>2, SyncedInv
<1>6. ASSUME NEW i \in Ids, NEW m \in Drafts, SyncedNew(i, m) PROVE IInv'
  BY <1>6, SyncedNewInv
<1>7. ASSUME NEW i \in Ids, SyncedAway(i) PROVE IInv'
  BY <1>7, SyncedAwayInv
<1>3. CASE DropJournal
  BY <1>3, DropJournalInv
<1>4. ASSUME NEW c \in Clients, NEW i \in Ids, NEW r \in Patch, BeginPatch(c, i, r) PROVE IInv'
  <2>1. Begin(c, i, "patch", r)
    BY <1>4 DEF BeginPatch
  <2>2. TypeOK'
    BY <2>1, BeginType DEF IInv
  <2> QED BY <2>1, <2>2, BeginInv
<1>5. CASE OnlyCounted
  <2>1. TypeOK'
    BY <1>5, RequestType DEF OnlyCounted, IInv, TypeOK, marks
  <2> QED BY <1>5, <2>1, CallsKept, ElsewhereInv DEF OnlyCounted, IInv, marks
<1> QED BY <1>1, <1>2, <1>3, <1>4, <1>5, <1>6, <1>7, StoreMoves

LEMMA StoreRefines ==
    ASSUME SyncTypeOK, SyncNext
    PROVE  [Atomic!Next]_(Atomic!vars)
<1>0. TypeOK
  BY DEF SyncTypeOK
<1>1. CASE [Next]_vars
  BY <1>0, <1>1, StepRefines
<1>2. ASSUME NEW i \in Ids, NEW c \in Contents, Synced(i, c) PROVE Atomic!Next
  <2>1. PICK r \in Row : rows' = [rows EXCEPT ![i] = r]
    BY <1>0, <1>2, SyncedRow
  <2>2. Shadow' = [Shadow EXCEPT ![i] = Memory(r)] /\ Memory(r) \in Memories
    BY <1>0, <2>1, ShadowSaved, MemoryIsNotNone
  <2>3. Shadow'[i] = Memory(r)
    BY <2>2 DEF Shadow
  <2>4. UNCHANGED Requests
    BY <1>2 DEF Synced, Requests, Abstract, LowerPatch, TagPatch, Lowered, Lower, Memory
  <2>5. Atomic!Put(i)
    BY <2>2, <2>3, <2>4 DEF Atomic!Put, Shadow, Requests, Memories
  <2> QED BY <2>5 DEF Atomic!Next
<1>6. ASSUME NEW i \in Ids, NEW m \in Drafts, SyncedNew(i, m) PROVE Atomic!Next
  BY <1>0, <1>6, PutRefines, ConstantsAssumption DEF SyncedNew
<1>7. ASSUME NEW i \in Ids, SyncedAway(i) PROVE Atomic!Next
  BY <1>0, <1>7, RemoveRefines DEF SyncedAway
<1>3. CASE DropJournal
  BY <1>3, StutterRefines DEF DropJournal
<1>4. ASSUME NEW c \in Clients, NEW i \in Ids, NEW r \in Patch, BeginPatch(c, i, r) PROVE Atomic!Next
  <2>1. Begin(c, i, "patch", r)
    BY <1>4 DEF BeginPatch
  <2> QED BY <1>0, <2>1, BeginRefines
<1>5. CASE OnlyCounted
  BY <1>5, StutterRefines DEF OnlyCounted
<1> QED BY <1>1, <1>2, <1>3, <1>4, <1>5, <1>6, <1>7, StoreMoves

\* What is recorded, resolved and counted, and how far the loop is.
ConflictsOK ==
    /\ conflicts \subseteq Conflict
    /\ recorded \in 0..MaxConflicts
    /\ count \in [Peers -> Nat]
    /\ resolving \in [Clients -> [conflict : Conflict, updates : BOOLEAN] \cup {None}]
    /\ miscounted \subseteq Peers \cup {None}
LoopOK ==
    /\ loop \in [pc : {"asleep", "syncing", "detect", "record", "drop"}, todo : SUBSET JournalRow,
                 row : JournalRow \cup {None}, theirs : Contents \cup {None}]
    /\ loop.pc \in {"record", "drop"} => loop.row \in loop.todo
    /\ loop.pc = "record" => loop.theirs # None
    /\ syncs \in 0..MaxSyncs
    /\ owed \subseteq JournalRow /\ disturbed \subseteq Ids

LEMMA SyncTypeParts == SyncTypeOK <=> TypeOK /\ mode \in Modes /\ ConflictsOK /\ LoopOK
BY DEF SyncTypeOK, ConflictsOK, LoopOK

LEMMA RecordedType ==
    ASSUME ConflictsOK, NEW i \in Ids, NEW theirs \in Contents, NEW ours \in Contents, NEW p \in Peers \cup {None},
           NewConflict(i, theirs, ours, p)
    PROVE  conflicts' \subseteq Conflict /\ recorded' \in 0..MaxConflicts
<1>1. recorded \in Nat /\ recorded' \in 0..MaxConflicts
  BY ConflictsAssumption DEF ConflictsOK, NewConflict
<1>2. [n |-> recorded, id |-> i, remote |-> theirs, local |-> ours, peer |-> p, pending |-> TRUE] \in Conflict
  BY <1>1 DEF Conflict
<1> QED BY <1>1, <1>2 DEF ConflictsOK, NewConflict

LEMMA EndResolveType ==
    ASSUME ConflictsOK, NEW c \in Clients, EndResolve(c)
    PROVE  ConflictsOK'
<1>1. resolving' \in [Clients -> [conflict : Conflict, updates : BOOLEAN] \cup {None}]
  BY DEF EndResolve, ConflictsOK
<1>2. CASE UNCHANGED <<conflicts, count, miscounted>>
  BY <1>1, <1>2 DEF EndResolve, ConflictsOK
<1>3. CASE ~UNCHANGED <<conflicts, count, miscounted>>
  <2>1. PICK y \in conflicts :
          /\ conflicts' = (conflicts \ {y}) \cup {[y EXCEPT !.pending = FALSE]}
          /\ miscounted' = IF y.pending THEN miscounted ELSE miscounted \cup {y.peer}
    BY <1>3 DEF EndResolve
  <2>2. y \in Conflict /\ [y EXCEPT !.pending = FALSE] \in Conflict /\ y.peer \in Peers \cup {None}
    BY DEF ConflictsOK, Conflict
  <2>3. conflicts' \subseteq Conflict /\ miscounted' \subseteq Peers \cup {None}
    BY <2>1, <2>2 DEF ConflictsOK
  <2>4. count' \in [Peers -> Nat]
    <3>1. count' = [p \in Peers |-> IF p = resolving[c].conflict.peer /\ count[p] > 0 THEN count[p] - 1 ELSE count[p]]
      BY <1>3 DEF EndResolve
    <3>2. \A p \in Peers : count[p] \in Nat
      BY DEF ConflictsOK
    <3> QED BY <3>1, <3>2
  <2> QED BY <1>1, <2>3, <2>4 DEF EndResolve, ConflictsOK
<1> QED BY <1>2, <1>3

LEMMA GoneType ==
    ASSUME ConflictsOK, ConflictsGo, UNCHANGED <<recorded, count, resolving>>
    PROVE  ConflictsOK'
<1>1. conflicts' \subseteq conflicts /\ miscounted' \subseteq miscounted \cup {x.peer : x \in conflicts}
  BY DEF ConflictsGo
<1>2. \A x \in conflicts : x.peer \in Peers \cup {None}
  BY DEF ConflictsOK, Conflict
<1> QED BY <1>1, <1>2 DEF ConflictsOK

LEMMA ConflictsStepType ==
    ASSUME SyncTypeOK, SyncNext
    PROVE  ConflictsOK'
<1>0. ConflictsOK
  BY SyncTypeParts
<1>1. CASE LocalStep
  BY <1>0, <1>1, GoneType DEF LocalStep
<1>2. CASE CrashStep
  BY <1>0, <1>2 DEF CrashStep, Restarted, ConflictsOK
<1>3. CASE LoopStep
  <2>1. CASE UNCHANGED <<conflicts, recorded, count, resolving, miscounted>>
    BY <1>0, <2>1 DEF ConflictsOK
  <2>2. CASE RecordConflict /\ NewConflict(loop.row[1], loop.theirs, loop.row[2], None)
    <3>1. loop.row[1] \in Ids /\ loop.row[2] \in Contents /\ loop.theirs \in Contents
      BY <2>2 DEF RecordConflict, SyncTypeOK, JournalRow
    <3>2. conflicts' \subseteq Conflict /\ recorded' \in 0..MaxConflicts
      BY <1>0, <2>2, <3>1, RecordedType
    <3> QED BY <1>0, <2>2, <3>2 DEF ConflictsOK, RecordConflict
  <2>3. CASE DbSync
    BY <1>0, <2>3, GoneType DEF DbSync
  <2> QED BY <1>3, <2>1, <2>2, <2>3
       DEF LoopStep, TakeJournal, SyncFails, Compare, RecordConflict, DropJournal, EndCycle, SameStore
<1>4. ASSUME NEW i \in Ids, NEW p \in Peers, NEW t \in Contents, RecordFromPeer(i, p, t) \/ CrashWhileRecording(i, p, t)
      PROVE  ConflictsOK'
  <2>1. rows[i].content \in Contents /\ NewConflict(i, t, rows[i].content, p)
    BY <1>4 DEF RecordFromPeer, CrashWhileRecording, SyncTypeOK, TypeOK, Row
  <2>2. conflicts' \subseteq Conflict /\ recorded' \in 0..MaxConflicts
    BY <1>0, <2>1, RecordedType
  <2>3. CASE RecordFromPeer(i, p, t)
    BY <1>0, <2>2, <2>3 DEF RecordFromPeer, ConflictsOK
  <2>4. CASE CrashWhileRecording(i, p, t)
    BY <1>0, <2>2, <2>4 DEF CrashWhileRecording, Restarted, ConflictsOK
  <2> QED BY <1>4, <2>3, <2>4
<1>5. ASSUME NEW c \in Clients, NEW x \in conflicts, NEW k \in BOOLEAN, BeginResolve(c, x, k)
      PROVE  ConflictsOK'
  <2>1. [conflict |-> x, updates |-> k] \in [conflict : Conflict, updates : BOOLEAN]
    BY <1>0 DEF ConflictsOK
  <2>2. resolving' \in [Clients -> [conflict : Conflict, updates : BOOLEAN] \cup {None}]
    BY <1>0, <1>5, <2>1 DEF BeginResolve, ConflictsOK
  <2> QED BY <1>0, <1>5, <2>2 DEF BeginResolve, ConflictsOK
<1> QED BY <1>0, <1>1, <1>2, <1>3, <1>4, <1>5, EndResolveType DEF SyncNext, ConflictStep

LEMMA AsleepType == CycleEnds /\ syncs' \in 0..MaxSyncs => LoopOK'
BY DEF CycleEnds, Asleep, LoopOK

LEMMA LoopStepType ==
    ASSUME SyncTypeOK, LoopStep
    PROVE  LoopOK'
<1> DEFINE Loops == [pc : {"asleep", "syncing", "detect", "record", "drop"}, todo : SUBSET JournalRow,
                     row : JournalRow \cup {None}, theirs : Contents \cup {None}]
<1>0. LoopOK /\ TypeOK /\ loop \in Loops
  BY DEF SyncTypeOK, LoopOK
<1>1. CASE TakeJournal
  <2>1. PICK todo \in {{}, {<<i, journal[i]>> : i \in {j \in Ids : journal[j] # None}}} :
          loop' = [Asleep EXCEPT !.pc = "syncing", !.todo = todo]
    BY <1>1 DEF TakeJournal, Cycle
  <2>2. todo \in SUBSET JournalRow
    BY <1>0 DEF TypeOK, JournalRow
  <2>3. loop' \in Loops /\ loop'.pc = "syncing"
    BY <2>1, <2>2 DEF Asleep
  <2>4. syncs' \in 0..MaxSyncs
    BY <1>0, <1>1, ConflictsAssumption DEF TakeJournal, LoopOK
  <2> QED BY <1>0, <1>1, <2>3, <2>4 DEF TakeJournal, SameMarks, LoopOK
<1>2. CASE CycleEnds /\ UNCHANGED syncs
  BY <1>0, <1>2, AsleepType DEF LoopOK
<1>3. CASE DbSync
  <2>1. loop' \in Loops /\ loop'.pc = "detect"
    BY <1>0, <1>3 DEF DbSync, Cycle
  <2>2. owed' \subseteq loop.todo
    BY <1>3 DEF DbSync, Synced, SyncedNew, SyncedAway
  <2> QED BY <1>0, <1>3, <2>1, <2>2 DEF DbSync, LoopOK
<1>4. CASE Compare
  <2>1. PICK j \in loop.todo :
          \/ /\ rows[j[1]] # None
             /\ loop' = [loop EXCEPT !.pc = "record", !.row = j, !.theirs = rows[j[1]].content]
          \/ loop' = [loop EXCEPT !.pc = "drop", !.row = j]
    BY <1>4 DEF Compare, Cycle
  <2>2. j \in JournalRow /\ j[1] \in Ids
    BY <1>0 DEF JournalRow
  <2>3. rows[j[1]] # None => rows[j[1]].content \in Contents
    BY <1>0, <2>2 DEF TypeOK, Row
  <2>4. loop' \in Loops /\ loop'.row = j /\ loop'.todo = loop.todo
        /\ (loop'.pc = "record" => loop'.theirs \in Contents)
    BY <1>0, <2>1, <2>2, <2>3
  <2>5. loop'.row \in loop'.todo /\ (loop'.pc = "record" => loop'.theirs # None)
    BY <2>4, ConstantsAssumption
  <2> QED BY <1>0, <1>4, <2>4, <2>5 DEF Compare, SameMarks, LoopOK
<1>5. CASE RecordConflict /\ ~CycleEnds
  <2>1. loop' = [loop EXCEPT !.pc = "drop"] /\ owed' = owed \ {loop.row} /\ UNCHANGED <<disturbed, syncs>>
    BY <1>5 DEF RecordConflict, Cycle
  <2>2. loop' \in Loops /\ loop'.pc = "drop" /\ loop'.row = loop.row /\ loop'.todo = loop.todo
    BY <1>0, <2>1
  <2> QED BY <1>0, <1>5, <2>1, <2>2 DEF RecordConflict, LoopOK
<1>6. CASE DropJournal
  <2>1. loop' \in Loops /\ loop'.pc = "detect"
    BY <1>0, <1>6 DEF DropJournal, Cycle, Asleep
  <2> QED BY <1>0, <1>6, <2>1 DEF DropJournal, LoopOK
<1> QED BY <1>1, <1>2, <1>3, <1>4, <1>5, <1>6 DEF LoopStep, SyncFails, RecordConflict, EndCycle

LEMMA SyncTypeStep ==
    ASSUME SyncTypeOK, TypeOK', SyncNext
    PROVE  SyncTypeOK'
<1>1. ConflictsOK'
  BY ConflictsStepType
<1>2. LoopOK /\ mode \in Modes
  BY SyncTypeParts
<1>3. mode' = mode
  BY DEF SyncNext, LocalStep, CrashStep, LoopStep, ConflictStep, TakeJournal, SyncFails, DbSync, Compare,
         RecordConflict, DropJournal, EndCycle, SameStore, RecordFromPeer, CrashWhileRecording, BeginResolve, EndResolve
<1>4. LoopOK'
  <2>1. CASE LocalStep
    BY <1>2, <2>1 DEF LocalStep, LoopOK
  <2>2. CASE CrashStep \/ \E i \in Ids, p \in Peers, t \in Contents : CrashWhileRecording(i, p, t)
    <3>1. CycleEnds /\ UNCHANGED syncs
      BY <2>2 DEF CrashStep, CrashWhileRecording, Restarted, CycleEnds
    <3> QED BY <1>2, <3>1, AsleepType DEF LoopOK
  <2>3. CASE LoopStep
    BY <2>3, LoopStepType
  <2>4. CASE UNCHANGED <<loop, syncs, owed, disturbed>>
    BY <1>2, <2>4 DEF LoopOK
  <2> QED BY <2>1, <2>2, <2>3, <2>4 DEF SyncNext, ConflictStep, RecordFromPeer, BeginResolve, EndResolve
<1>5. (SyncTypeOK <=> TypeOK /\ mode \in Modes /\ ConflictsOK /\ LoopOK)'
  BY DEF SyncTypeOK, ConflictsOK, LoopOK
<1> QED BY <1>1, <1>2, <1>3, <1>4, <1>5

LEMMA SyncTypeInit == SyncInit => SyncTypeOK
<1> SUFFICES ASSUME SyncInit PROVE SyncTypeOK
  OBVIOUS
<1>1. TypeOK
  BY TypeInit DEF SyncInit
<1>2. LoopOK
  BY ConflictsAssumption DEF SyncInit, Asleep, LoopOK
<1>3. ConflictsOK
  BY ConflictsAssumption DEF SyncInit, ConflictsOK
<1> QED BY <1>1, <1>2, <1>3, SyncTypeParts DEF SyncInit

-----------------------------------------------------------------------------
(* The count of a peer's pending conflicts.                                *)

\* No two conflicts have one number, and a resolution under way is of the
\* conflict it read, as far as that is still there.
Numbered ==
    /\ IsFiniteSet(conflicts)
    /\ \A x \in conflicts : x.n < recorded
    /\ \A x, y \in conflicts : x.n = y.n => x = y
ResolvesItsOwn ==
    \A c \in Clients : resolving[c] # None =>
        LET x == resolving[c].conflict IN
        x.n < recorded /\ \A y \in conflicts : y.n = x.n => y.peer = x.peer

Accounts == Numbered /\ ResolvesItsOwn /\ CountIsPending

\* Fewer conflicts, none of which was pending for a peer still counted on.
LEMMA FewerAccounts ==
    ASSUME SyncTypeOK, Accounts, conflicts' \subseteq conflicts, UNCHANGED <<recorded, count>>,
           \A c \in Clients : resolving'[c] \in {None, resolving[c]},
           miscounted \cup {x.peer : x \in {y \in conflicts \ conflicts' : y.pending}} \subseteq miscounted'
    PROVE  Accounts'
<1>1. IsFiniteSet(conflicts')
  BY FS_Subset DEF Accounts, Numbered
<1>2. Numbered' /\ ResolvesItsOwn'
  BY <1>1 DEF Accounts, Numbered, ResolvesItsOwn
<1>3. ASSUME NEW p \in Peers, p \notin miscounted' PROVE count'[p] = Cardinality(Pending(p)')
  <2>1. Pending(p)' = Pending(p)
    BY <1>3 DEF Pending
  <2>2. count[p] = Cardinality(Pending(p))
    BY <1>3 DEF Accounts, CountIsPending
  <2> QED BY <2>1, <2>2
<1>4. CountIsPending'
  BY <1>3 DEF CountIsPending, Pending
<1> QED BY <1>2, <1>4 DEF Accounts

\* One more conflict.
LEMMA RecordedAccounts ==
    ASSUME SyncTypeOK, Accounts, NEW i \in Ids, NEW theirs, NEW ours, NEW q \in Peers \cup {None},
           NewConflict(i, theirs, ours, q),
           \A c \in Clients : resolving'[c] \in {None, resolving[c]},
           \A p \in Peers \ miscounted' :
               p \notin miscounted /\ count'[p] = IF p = q THEN count[p] + 1 ELSE count[p]
    PROVE  Accounts'
<1> DEFINE x == [n |-> recorded, id |-> i, remote |-> theirs, local |-> ours, peer |-> q, pending |-> TRUE]
<1>0. conflicts' = conflicts \cup {x} /\ recorded' = recorded + 1 /\ recorded \in Nat
  BY ConflictsAssumption DEF NewConflict, SyncTypeOK
<1>1. x.n = recorded /\ x.peer = q /\ x.pending = TRUE
  OBVIOUS
<1> HIDE DEF x
<1>2. \A y \in conflicts : y.n \in Nat /\ y.n < recorded
  BY DEF SyncTypeOK, Conflict, Accounts, Numbered
<1>3. x \notin conflicts
  BY <1>0, <1>1, <1>2
<1>4. Numbered'
  <2>1. IsFiniteSet(conflicts')
    BY <1>0, FS_AddElement DEF Accounts, Numbered
  <2>2. \A y \in conflicts' : y.n < recorded'
    BY <1>0, <1>1, <1>2
  <2>3. \A y, z \in conflicts' : y.n = z.n => y = z
    BY <1>0, <1>1, <1>2 DEF Accounts, Numbered
  <2> QED BY <2>1, <2>2, <2>3 DEF Numbered
<1>5. ResolvesItsOwn'
  <2> SUFFICES ASSUME NEW c \in Clients, resolving'[c] # None
               PROVE  /\ resolving'[c].conflict.n < recorded'
                      /\ \A y \in conflicts' : y.n = resolving'[c].conflict.n => y.peer = resolving'[c].conflict.peer
    BY DEF ResolvesItsOwn
  <2>1. resolving'[c] = resolving[c] /\ resolving[c] # None
    OBVIOUS
  <2>2. resolving[c].conflict.n \in Nat
    BY <2>1 DEF SyncTypeOK, Conflict
  <2>3. /\ resolving[c].conflict.n < recorded
        /\ \A y \in conflicts : y.n = resolving[c].conflict.n => y.peer = resolving[c].conflict.peer
    BY <2>1 DEF Accounts, ResolvesItsOwn
  <2> QED BY <1>0, <1>1, <2>1, <2>2, <2>3
<1>6. ASSUME NEW p \in Peers, p \notin miscounted' PROVE count'[p] = Cardinality(Pending(p)')
  <2>1. count[p] = Cardinality(Pending(p)) /\ count'[p] = IF p = q THEN count[p] + 1 ELSE count[p]
    BY <1>6 DEF Accounts, CountIsPending
  <2>2. IsFiniteSet(Pending(p)) /\ x \notin Pending(p)
    <3>1. Pending(p) \in SUBSET conflicts
      BY DEF Pending
    <3> QED BY <1>3, <3>1, FS_Subset DEF Accounts, Numbered
  <2>3. CASE p = q
    <3>1. Pending(p)' = Pending(p) \cup {x}
      BY <1>0, <1>1, <2>3 DEF Pending
    <3>2. Cardinality(Pending(p) \cup {x}) = Cardinality(Pending(p)) + 1
      BY <2>2, FS_AddElement
    <3> QED BY <2>1, <2>3, <3>1, <3>2
  <2>4. CASE p # q
    <3>1. Pending(p)' = Pending(p)
      BY <1>0, <1>1, <2>4 DEF Pending
    <3> QED BY <2>1, <2>4, <3>1
  <2> QED BY <2>3, <2>4
<1>7. CountIsPending'
  BY <1>6 DEF CountIsPending, Pending
<1> QED BY <1>4, <1>5, <1>7 DEF Accounts

\* The end of a resolution: of the conflict that was read, whose peer is
\* counted down once.
LEMMA EndResolveAccounts ==
    ASSUME SyncTypeOK, Accounts, NEW c \in Clients, EndResolve(c)
    PROVE  Accounts'
<1> DEFINE x == resolving[c].conflict
<1>0. resolving[c] # None /\ recorded' = recorded /\ \A d \in Clients : resolving'[d] \in {None, resolving[d]}
  BY DEF EndResolve, SyncTypeOK
<1>1. CASE UNCHANGED <<conflicts, count, miscounted>>
  <2>1. {z.peer : z \in {y \in conflicts \ conflicts' : y.pending}} = {}
    BY <1>1
  <2> QED BY <1>0, <1>1, <2>1, FewerAccounts
<1>2. CASE ~UNCHANGED <<conflicts, count, miscounted>>
  <2>1. PICK y \in conflicts :
          /\ y.n = x.n
          /\ conflicts' = (conflicts \ {y}) \cup {[y EXCEPT !.pending = FALSE]}
          /\ miscounted' = IF y.pending THEN miscounted ELSE miscounted \cup {y.peer}
    BY <1>2 DEF EndResolve
  <2>2. count' = [p \in Peers |-> IF p = x.peer /\ count[p] > 0 THEN count[p] - 1 ELSE count[p]]
    BY <1>2 DEF EndResolve
  <2>3. y.peer = x.peer
    BY <1>0, <2>1 DEF Accounts, ResolvesItsOwn
  <2> DEFINE z == [y EXCEPT !.pending = FALSE]
  <2>4. z.n = y.n /\ z.peer = y.peer /\ ~z.pending
    BY DEF SyncTypeOK, Conflict
  <2>5. conflicts' = (conflicts \ {y}) \cup {z}
    BY <2>1
  <2> HIDE DEF z, x
  <2>6. Numbered'
    <3>1. IsFiniteSet(conflicts')
      BY <2>5, FS_AddElement, FS_RemoveElement DEF Accounts, Numbered
    <3> QED BY <1>0, <2>4, <2>5, <3>1 DEF Accounts, Numbered
  <2>7. ResolvesItsOwn'
    BY <1>0, <2>4, <2>5 DEF Accounts, ResolvesItsOwn
  <2>8. ASSUME NEW p \in Peers, p \notin miscounted' PROVE count'[p] = Cardinality(Pending(p)')
    <3>1. count[p] = Cardinality(Pending(p)) /\ count[p] \in Nat
      BY <2>1, <2>8 DEF Accounts, CountIsPending, SyncTypeOK
    <3>2. CASE p # y.peer
      <4>1. Pending(p)' = Pending(p)
        BY <2>4, <2>5, <3>2 DEF Pending
      <4>2. count'[p] = count[p]
        BY <2>2, <2>3, <3>2
      <4> QED BY <3>1, <4>1, <4>2
    <3>3. CASE p = y.peer
      <4>1. y.pending
        BY <2>1, <2>8, <3>3
      <4>2. y \in Pending(p) /\ Pending(p) \in SUBSET conflicts
        BY <3>3, <4>1 DEF Pending
      <4>3. IsFiniteSet(Pending(p))
        BY <4>2, FS_Subset DEF Accounts, Numbered
      <4>4. Pending(p)' = Pending(p) \ {y}
        BY <2>4, <2>5 DEF Pending
      <4>5. Cardinality(Pending(p) \ {y}) = Cardinality(Pending(p)) - 1 /\ Cardinality(Pending(p)) # 0
        BY <4>2, <4>3, FS_RemoveElement, FS_EmptySet
      <4>6. count[p] > 0
        BY <3>1, <4>5
      <4>7. count'[p] = count[p] - 1
        BY <2>2, <2>3, <3>3, <4>6
      <4> QED BY <3>1, <4>4, <4>5, <4>7
    <3> QED BY <3>2, <3>3
  <2>9. CountIsPending'
    BY <2>8 DEF CountIsPending, Pending
  <2> QED BY <2>6, <2>7, <2>9 DEF Accounts
<1> QED BY <1>1, <1>2

LEMMA AccountsStep ==
    ASSUME SyncTypeOK, Accounts, SyncNext
    PROVE  Accounts'
<1>0. \A c \in Clients : UNCHANGED resolving => resolving'[c] \in {None, resolving[c]}
  OBVIOUS
<1>1. CASE ConflictsGo /\ UNCHANGED <<recorded, count, resolving>>
  <2>1. conflicts' \subseteq conflicts
    BY <1>1 DEF ConflictsGo
  <2> QED BY <1>0, <1>1, <2>1, FewerAccounts DEF ConflictsGo
<1>2. ASSUME UNCHANGED <<conflicts, recorded, count, miscounted>>, \A c \in Clients : resolving'[c] \in {None, resolving[c]}
      PROVE  Accounts'
  <2>1. {z.peer : z \in {y \in conflicts \ conflicts' : y.pending}} = {}
    BY <1>2
  <2> QED BY <1>2, <2>1, FewerAccounts
<1>3. CASE CrashStep
  <2>1. \A c \in Clients : resolving'[c] = None
    BY <1>3 DEF CrashStep, Restarted
  <2> QED BY <1>2, <1>3, <2>1 DEF CrashStep
<1>4. CASE LoopStep
  <2>0. CASE DbSync
    BY <1>1, <2>0 DEF DbSync
  <2>1. ~DbSync => UNCHANGED <<count, resolving, miscounted>>
    BY <1>4 DEF LoopStep, TakeJournal, SyncFails, Compare, RecordConflict, DropJournal, EndCycle, SameStore
  <2>2. CASE ~DbSync /\ UNCHANGED <<conflicts, recorded>>
    <3>1. UNCHANGED <<conflicts, recorded, count, miscounted>> /\ UNCHANGED resolving
      BY <2>1, <2>2
    <3>2. \A c \in Clients : resolving'[c] \in {None, resolving[c]}
      BY <1>0, <3>1
    <3> QED BY <1>2, <3>1, <3>2
  <2>3. CASE ~DbSync /\ NewConflict(loop.row[1], loop.theirs, loop.row[2], None) /\ loop.row[1] \in Ids
    <3>1. \A p \in Peers \ miscounted' : p \notin miscounted /\ count'[p] = IF p = None THEN count[p] + 1 ELSE count[p]
      BY <2>1, <2>3, ConflictsAssumption
    <3> QED BY <1>0, <2>1, <2>3, <3>1, RecordedAccounts
  <2>4. CASE RecordConflict
    <3>1. loop.row[1] \in Ids
      BY <2>4 DEF RecordConflict, SyncTypeOK, JournalRow
    <3> QED BY <2>0, <2>2, <2>3, <2>4, <3>1 DEF RecordConflict
  <2> QED BY <1>4, <2>0, <2>2, <2>4
       DEF LoopStep, TakeJournal, SyncFails, Compare, DropJournal, EndCycle, SameStore
<1>5. ASSUME NEW i \in Ids, NEW p \in Peers, NEW t \in Contents, RecordFromPeer(i, p, t) PROVE Accounts'
  <2>1. \A d \in Peers \ miscounted' : d \notin miscounted /\ count'[d] = IF d = p THEN count[d] + 1 ELSE count[d]
    BY <1>5 DEF RecordFromPeer, SyncTypeOK
  <2> QED BY <1>0, <1>5, <2>1, RecordedAccounts DEF RecordFromPeer
<1>6. ASSUME NEW i \in Ids, NEW p \in Peers, NEW t \in Contents, CrashWhileRecording(i, p, t) PROVE Accounts'
  <2>1. \A c \in Clients : resolving'[c] = None
    BY <1>6 DEF CrashWhileRecording, Restarted
  <2>2. \A d \in Peers \ miscounted' : d \notin miscounted /\ count'[d] = IF d = p THEN count[d] + 1 ELSE count[d]
    BY <1>6 DEF CrashWhileRecording
  <2> QED BY <1>6, <2>1, <2>2, RecordedAccounts DEF CrashWhileRecording
<1>7. ASSUME NEW c \in Clients, NEW x \in conflicts, NEW k \in BOOLEAN, BeginResolve(c, x, k) PROVE Accounts'
  <2> DEFINE q == [conflict |-> x, updates |-> k]
  <2>1. resolving' = [resolving EXCEPT ![c] = q] /\ UNCHANGED <<conflicts, recorded, count, miscounted>>
    BY <1>7 DEF BeginResolve
  <2>2. q.conflict = x
    OBVIOUS
  <2> HIDE DEF q
  <2>3. \A d \in Clients : resolving'[d] = IF d = c THEN q ELSE resolving[d]
    BY <2>1 DEF SyncTypeOK
  <2>4. ResolvesItsOwn'
    BY <2>1, <2>2, <2>3 DEF Accounts, Numbered, ResolvesItsOwn
  <2>5. Numbered' /\ CountIsPending'
    BY <2>1 DEF Accounts, Numbered, CountIsPending, Pending
  <2> QED BY <2>4, <2>5 DEF Accounts
<1>8. CASE LocalStep
  BY <1>1, <1>8 DEF LocalStep
<1> QED BY <1>3, <1>4, <1>5, <1>6, <1>7, <1>8, EndResolveAccounts DEF SyncNext, ConflictStep

LEMMA AccountsInit == SyncInit => Accounts
<1> SUFFICES ASSUME SyncInit PROVE Accounts
  OBVIOUS
<1>1. \A p : Pending(p) = {}
  BY DEF SyncInit, Pending
<1>2. CountIsPending
  BY <1>1, FS_EmptySet DEF SyncInit, CountIsPending
<1>3. Numbered
  BY FS_EmptySet DEF SyncInit, Numbered
<1>4. ResolvesItsOwn
  BY DEF SyncInit, ResolvesItsOwn
<1> QED BY <1>2, <1>3, <1>4 DEF Accounts

-----------------------------------------------------------------------------
(* What a cycle of the sync loop raises.                                   *)

\* Memories that are as they were when the loop took the journal, but for
\* what the sync wrote; journal rows that are not what the memory says; the
\* one that is about to be dropped.
Kept(i) == rows[i] # None /\ i \notin disturbed
Differs(j) == rows[j[1]].content # j[2]
Passed(j) == loop.pc = "drop" /\ j = loop.row

Marked ==
    /\ loop.pc \in {"asleep", "syncing"} => owed = {}
    /\ loop.pc = "asleep" => disturbed = {}
    /\ \A j, k \in loop.todo : j[1] = k[1] => j = k
    /\ loop.pc = "syncing" => \A j \in loop.todo : j[1] \notin disturbed => journal[j[1]] = j[2]
    /\ loop.pc = "record" /\ loop.row[1] \notin disturbed => rows[loop.row[1]] # None /\ Differs(loop.row)
RaisedAreOwed ==
    loop.pc \in {"detect", "record", "drop"} =>
    \A j \in loop.todo : Kept(j[1]) /\ Differs(j) /\ ~Passed(j) => j \in owed \/ journal[j[1]] = j[2]
OwedAreRaised ==
    \A o \in owed : Kept(o[1]) => o \in loop.todo /\ Differs(o) /\ ~Passed(o)

Cycling == Marked /\ RaisedAreOwed /\ OwedAreRaised

\* Others write meanwhile: what they touch is disturbed.
LEMMA CyclingElsewhere ==
    ASSUME SyncTypeOK, Cycling, UNCHANGED <<loop, owed>>, loop.pc = "asleep" => disturbed' = {},
           disturbed \subseteq disturbed',
           loop.pc # "asleep" => \A i \in Ids \ disturbed' : rows'[i] = rows[i] /\ journal'[i] = journal[i]
    PROVE  Cycling'
<1>0. /\ \A j \in loop.todo : j[1] \in Ids
      /\ \A o \in owed : o[1] \in Ids
      /\ loop.pc = "record" => loop.row[1] \in Ids
  BY DEF SyncTypeOK, JournalRow
<1>1. Marked'
  BY <1>0 DEF Cycling, Marked, Differs
<1>2. RaisedAreOwed'
  BY <1>0 DEF Cycling, RaisedAreOwed, Kept, Differs, Passed
<1>3. OwedAreRaised'
  <2>1. loop.pc = "asleep" => owed = {}
    BY DEF Cycling, Marked
  <2> QED BY <1>0, <2>1 DEF Cycling, OwedAreRaised, Kept, Differs, Passed
<1> QED BY <1>1, <1>2, <1>3 DEF Cycling

LEMMA CyclingEnds ==
    ASSUME CycleEnds
    PROVE  Cycling'
BY DEF CycleEnds, Asleep, Cycling, Marked, RaisedAreOwed, OwedAreRaised

LEMMA TakeJournalCycling ==
    ASSUME Cycling, TakeJournal
    PROVE  Cycling'
<1>1. PICK todo \in {{}, {<<i, journal[i]>> : i \in {j \in Ids : journal[j] # None}}} :
        loop' = [Asleep EXCEPT !.pc = "syncing", !.todo = todo]
  BY DEF TakeJournal, Cycle
<1>2. loop'.pc = "syncing" /\ loop'.todo = todo
  BY <1>1 DEF Asleep
<1>3. owed' = {} /\ UNCHANGED journal
  BY DEF TakeJournal, SameMarks, SameStore, vars, Cycling, Marked
<1>4. \A j \in todo : j = <<j[1], journal[j[1]]>>
  OBVIOUS
<1>5. Marked'
  BY <1>2, <1>3, <1>4 DEF Marked
<1> QED BY <1>2, <1>3, <1>5 DEF Cycling, RaisedAreOwed, OwedAreRaised

\* The sync overwrites one memory, and what it overwrites is owed.
LEMMA DbSyncCycling ==
    ASSUME IInv, SyncTypeOK, Cycling, DbSync
    PROVE  Cycling'
<1>0. /\ loop.pc = "syncing" /\ disturbed' = disturbed
      /\ \A j \in loop.todo : j[1] \in Ids /\ j[2] \in Contents
      /\ \A j \in loop.todo : j[1] \notin disturbed => journal[j[1]] = j[2]
  BY DEF DbSync, SyncTypeOK, JournalRow, Cycling, Marked
<1>1. loop'.pc = "detect" /\ loop'.todo = loop.todo
  BY DEF DbSync, Cycle, SyncTypeOK
<1>2. Marked'
  BY <1>1 DEF Cycling, Marked
\* What is not stale and not disturbed is as the journal says.
<1>3. ASSUME NEW j \in loop.todo, Kept(j[1]), Differs(j) PROVE journal[j[1]] = j[2]
  BY <1>0, <1>3 DEF Kept
<1>4. CASE UNCHANGED vars /\ owed' = {}
  <2>1. RaisedAreOwed'
    BY <1>0, <1>1, <1>3, <1>4 DEF vars, RaisedAreOwed, Kept, Differs
  <2> QED BY <1>2, <1>4, <2>1 DEF Cycling, OwedAreRaised
<1>5. ASSUME NEW i \in Ids, NEW c \in Contents, Synced(i, c) PROVE Cycling'
  <2>1. PICK r \in Row : rows' = [rows EXCEPT ![i] = r] /\ r.content = c
    BY <1>5, SyncedRow DEF IInv
  <2>2. \A k \in Ids : rows'[k] = IF k = i THEN r ELSE rows[k]
    BY <2>1 DEF IInv, TypeOK
  <2>3. \A k \in Ids \ {i} : journal'[k] = journal[k]
    BY <1>5 DEF Synced, IInv, TypeOK
  <2>4. owed' = {j \in loop.todo : j[1] = i /\ j[2] # c}
    BY <1>5 DEF Synced
  <2>5. RaisedAreOwed'
    <3> SUFFICES ASSUME NEW j \in loop.todo, Kept(j[1])', Differs(j)'
                 PROVE  j \in owed' \/ journal'[j[1]] = j[2]
      BY <1>1 DEF RaisedAreOwed
    <3>1. CASE j[1] = i
      BY <1>0, <2>1, <2>2, <2>4, <3>1 DEF Differs
    <3>2. CASE j[1] # i
      BY <1>0, <2>2, <2>3, <3>2 DEF Kept
    <3> QED BY <3>1, <3>2
  <2>6. OwedAreRaised'
    BY <1>0, <1>1, <2>1, <2>2, <2>4 DEF OwedAreRaised, Differs, Passed
  <2> QED BY <1>2, <2>5, <2>6 DEF Cycling
<1>6. ASSUME NEW i \in Ids, NEW m \in Drafts, SyncedNew(i, m) PROVE Cycling'
  <2>1. m \in Draft /\ RowOf(m) \in Row /\ RowOf(m).content = m.content
    BY RowType, ConstantsAssumption DEF RowOf
  <2>2. \A k \in Ids : rows'[k] = IF k = i THEN RowOf(m) ELSE rows[k]
    BY <1>6, <2>1 DEF SyncedNew, Put, SaveRow, IInv, TypeOK
  <2>3. \A k \in Ids \ {i} : journal'[k] = journal[k]
    BY <1>6 DEF SyncedNew, Put, SaveRow, IInv, TypeOK
  <2>4. owed' = {j \in loop.todo : j[1] = i /\ j[2] # m.content}
    BY <1>6 DEF SyncedNew
  <2>5. RaisedAreOwed'
    <3> SUFFICES ASSUME NEW j \in loop.todo, Kept(j[1])', Differs(j)'
                 PROVE  j \in owed' \/ journal'[j[1]] = j[2]
      BY <1>1 DEF RaisedAreOwed
    <3>1. CASE j[1] = i
      BY <1>0, <2>1, <2>2, <2>4, <3>1 DEF Differs
    <3>2. CASE j[1] # i
      BY <1>0, <2>2, <2>3, <3>2 DEF Kept
    <3> QED BY <3>1, <3>2
  <2>6. OwedAreRaised'
    BY <1>0, <1>1, <2>1, <2>2, <2>4 DEF OwedAreRaised, Differs, Passed
  <2> QED BY <1>2, <2>5, <2>6 DEF Cycling
<1>7. ASSUME NEW i \in Ids, SyncedAway(i) PROVE Cycling'
  <2>1. rows'[i] = None /\ owed' = {} /\ \A k \in Ids \ {i} : rows'[k] = rows[k] /\ journal'[k] = journal[k]
    BY <1>7 DEF SyncedAway, Remove, IInv, TypeOK
  <2>2. RaisedAreOwed'
    BY <1>0, <1>1, <2>1 DEF RaisedAreOwed, Kept
  <2> QED BY <1>2, <2>1, <2>2 DEF Cycling, OwedAreRaised
<1> QED BY <1>4, <1>5, <1>6, <1>7 DEF DbSync

LEMMA CompareCycling ==
    ASSUME SyncTypeOK, Cycling, Compare
    PROVE  Cycling'
<1>0. loop.pc = "detect" /\ UNCHANGED <<rows, journal, owed, disturbed>>
  BY DEF Compare, SameStore, SameMarks, vars
<1>1. PICK j \in loop.todo :
        \/ /\ rows[j[1]] # None /\ rows[j[1]].content # j[2]
           /\ loop' = [loop EXCEPT !.pc = "record", !.row = j, !.theirs = rows[j[1]].content]
        \/ /\ rows[j[1]] = None \/ rows[j[1]].content = j[2]
           /\ loop' = [loop EXCEPT !.pc = "drop", !.row = j]
  BY DEF Compare, Cycle
<1>2. loop'.todo = loop.todo /\ loop'.row = j /\ loop'.pc \in {"record", "drop"}
  BY <1>1 DEF SyncTypeOK
<1>3. loop'.pc = "record" => rows[j[1]] # None /\ Differs(j)
  BY <1>1 DEF SyncTypeOK, Differs
<1>4. loop'.pc = "drop" => ~(Kept(j[1]) /\ Differs(j))
  BY <1>1 DEF SyncTypeOK, Differs, Kept
<1>5. Marked'
  BY <1>0, <1>2, <1>3 DEF Cycling, Marked, Differs
<1>6. RaisedAreOwed'
  BY <1>0, <1>2 DEF Cycling, RaisedAreOwed, Kept, Differs, Passed
<1>7. OwedAreRaised'
  BY <1>0, <1>2, <1>4 DEF Cycling, OwedAreRaised, Kept, Differs, Passed
<1> QED BY <1>5, <1>6, <1>7 DEF Cycling

LEMMA RecordConflictCycling ==
    ASSUME SyncTypeOK, Cycling, RecordConflict
    PROVE  Cycling'
<1>1. CASE CycleEnds
  BY <1>1, CyclingEnds
<1>2. CASE ~CycleEnds
  <2>0. /\ loop.pc = "record" /\ UNCHANGED <<rows, journal, disturbed>>
        /\ loop' = [loop EXCEPT !.pc = "drop"] /\ owed' = owed \ {loop.row}
    BY <1>2 DEF RecordConflict, Cycle, vars
  <2>1. loop'.pc = "drop" /\ loop'.row = loop.row /\ loop'.todo = loop.todo
    BY <2>0 DEF SyncTypeOK
  <2>2. Marked'
    BY <2>0, <2>1 DEF Cycling, Marked
  <2>3. RaisedAreOwed'
    BY <2>0, <2>1 DEF Cycling, RaisedAreOwed, Kept, Differs, Passed
  <2>4. OwedAreRaised'
    BY <2>0, <2>1 DEF Cycling, OwedAreRaised, Kept, Differs, Passed
  <2> QED BY <2>2, <2>3, <2>4 DEF Cycling
<1> QED BY <1>1, <1>2

LEMMA DropJournalCycling ==
    ASSUME SyncTypeOK, Cycling, DropJournal
    PROVE  Cycling'
<1>0. /\ loop.pc = "drop" /\ UNCHANGED <<rows, owed, disturbed>>
      /\ journal' = [journal EXCEPT ![loop.row[1]] = None]
      /\ loop.row \in loop.todo
  BY DEF DropJournal, SyncTypeOK
<1>1. loop'.pc = "detect" /\ loop'.todo = loop.todo \ {loop.row}
  BY DEF DropJournal, Cycle, Asleep
<1>2. \A j \in loop'.todo : j[1] \in Ids /\ j[1] # loop.row[1]
  BY <1>0, <1>1 DEF SyncTypeOK, JournalRow, Cycling, Marked
<1>3. \A j \in loop'.todo : journal'[j[1]] = journal[j[1]]
  BY <1>0, <1>2 DEF SyncTypeOK, TypeOK
<1>4. Marked'
  BY <1>1 DEF Cycling, Marked
<1>5. RaisedAreOwed'
  BY <1>0, <1>1, <1>3 DEF Cycling, RaisedAreOwed, Kept, Differs, Passed
<1>6. OwedAreRaised'
  BY <1>0, <1>1 DEF Cycling, OwedAreRaised, Kept, Differs, Passed
<1> QED BY <1>4, <1>5, <1>6 DEF Cycling

LEMMA CyclingStep ==
    ASSUME IInv, SyncTypeOK, Cycling, SyncNext
    PROVE  Cycling'
<1>1. CASE LocalStep
  <2>1. UNCHANGED <<loop, owed>> /\ disturbed \subseteq disturbed'
    BY <1>1 DEF LocalStep
  <2>2. loop.pc = "asleep" => disturbed' = {}
    BY <1>1 DEF LocalStep, Cycling, Marked
  <2>3. loop.pc # "asleep" => \A i \in Ids \ disturbed' : rows'[i] = rows[i] /\ journal'[i] = journal[i]
    BY <1>1 DEF LocalStep
  <2> QED BY <2>1, <2>2, <2>3, CyclingElsewhere
<1>2. CASE UNCHANGED <<rows, journal, loop, owed, disturbed>>
  <2>1. loop.pc = "asleep" => disturbed' = {}
    BY <1>2 DEF Cycling, Marked
  <2> QED BY <1>2, <2>1, CyclingElsewhere
<1>3. CASE CycleEnds
  BY <1>3, CyclingEnds
<1>4. CASE CrashStep
  BY <1>3, <1>4 DEF CrashStep, Restarted, CycleEnds
<1>5. ASSUME NEW i \in Ids, NEW p \in Peers, NEW t \in Contents, CrashWhileRecording(i, p, t) PROVE Cycling'
  BY <1>3, <1>5 DEF CrashWhileRecording, Restarted, CycleEnds
<1>6. CASE LoopStep
  BY <1>3, <1>6, TakeJournalCycling, DbSyncCycling, CompareCycling, RecordConflictCycling, DropJournalCycling
     DEF LoopStep, SyncFails, EndCycle
<1>7. ASSUME NEW i \in Ids, NEW p \in Peers, NEW t \in Contents, RecordFromPeer(i, p, t) PROVE Cycling'
  BY <1>2, <1>7 DEF RecordFromPeer, vars
<1>8. ASSUME NEW c \in Clients, EndResolve(c) PROVE Cycling'
  BY <1>2, <1>8 DEF EndResolve, vars
<1>9. ASSUME NEW c \in Clients, NEW x \in conflicts, NEW k \in BOOLEAN, BeginResolve(c, x, k) PROVE Cycling'
  BY <1>2, <1>9 DEF BeginResolve, BeginPatch, Begin
<1> QED BY <1>1, <1>4, <1>5, <1>6, <1>7, <1>8, <1>9 DEF SyncNext, ConflictStep

LEMMA CyclingInit == SyncInit => Cycling
BY DEF SyncInit, Asleep, Cycling, Marked, RaisedAreOwed, OwedAreRaised

-----------------------------------------------------------------------------
(* A store that is synced, in a hive, or alone.                            *)

SyncInv == IInv /\ SyncTypeOK /\ Accounts /\ Cycling

LEMMA SyncStepInv == SyncInv /\ [SyncNext]_allVars => SyncInv'
<1> SUFFICES ASSUME SyncInv, [SyncNext]_allVars PROVE SyncInv'
  OBVIOUS
<1>0. IInv /\ SyncTypeOK /\ Accounts /\ Cycling
  BY DEF SyncInv
<1>1. CASE SyncNext
  <2>1. IInv'
    BY <1>0, <1>1, StoreInv
  <2>2. SyncTypeOK'
    BY <1>0, <1>1, <2>1, SyncTypeStep DEF IInv
  <2> QED BY <1>0, <1>1, <2>1, <2>2, AccountsStep, CyclingStep DEF SyncInv
<1>2. CASE UNCHANGED allVars
  <2>1. IInv'
    BY <1>0, <1>2, StepInv DEF allVars
  <2>2. SyncTypeOK'
    BY <1>0, <1>2, <2>1 DEF allVars, syncVars, IInv, SyncTypeOK
  <2>3. Accounts'
    BY <1>0, <1>2 DEF allVars, syncVars, Accounts, Numbered, ResolvesItsOwn, CountIsPending, Pending
  <2>4. Cycling'
    BY <1>0, <1>2 DEF allVars, syncVars, vars, Cycling, Marked, RaisedAreOwed, OwedAreRaised, Kept, Differs, Passed
  <2> QED BY <2>1, <2>2, <2>3, <2>4 DEF SyncInv
<1> QED BY <1>1, <1>2

LEMMA SyncInvariance == SyncSpec => []SyncInv
<1>1. SyncInit => SyncInv
  BY InitInv, SyncTypeInit, AccountsInit, CyclingInit DEF SyncInit, SyncInv
<1> QED BY <1>1, SyncStepInv, PTL DEF SyncSpec

(* Every reachable state of a store with conflicts is well typed, whatever  *)
(* the device is configured to.                                            *)
THEOREM SyncTypeCorrect == SyncSpec => []SyncTypeOK
<1>1. SyncInv => SyncTypeOK
  BY DEF SyncInv
<1> QED BY <1>1, SyncInvariance, PTL

(* What is derived from rows, the tags and the edges of links hold together *)
(* in a store that is synced or in a hive as in one that is alone: what     *)
(* arrives from another device, and what a resolution writes, included.     *)
THEOREM SyncedStoreHoldsTogether == SyncSpec => [](DerivedIsOwn /\ TagsAreAdmitted /\ LinksAreEdges)
<1>1. SyncInv => DerivedIsOwn /\ TagsAreAdmitted /\ LinksAreEdges
  BY DEF SyncInv, IInv
<1> QED BY <1>1, SyncInvariance, PTL

(* A store with conflicts implements AtomicStore: the sync loop writes a    *)
(* memory at one instant, and keeping the local side of a conflict is an    *)
(* edit like any other.                                                    *)
THEOREM SyncedStoreIsAtomic == SyncSpec => ImplementsAtomicStore
<1>1. SyncInit => Atomic!Init
  <2> SUFFICES ASSUME SyncInit PROVE Atomic!Init
    OBVIOUS
  <2>1. Shadow \in [Ids -> Memories \cup {None}]
    BY TypeInit, MemoryIsNotNone DEF SyncInit, Shadow, TypeOK
  <2>2. Requests = [c \in Clients |-> Atomic!Idle("none")]
    BY DEF SyncInit, Init, Requests, Abstract, Idle, Atomic!Idle
  <2> QED BY <2>1, <2>2 DEF Atomic!Init, Shadow, Requests, Memories
<1>2. SyncTypeOK /\ [SyncNext]_allVars => [Atomic!Next]_(Atomic!vars)
  <2> SUFFICES ASSUME SyncTypeOK, UNCHANGED allVars PROVE UNCHANGED Atomic!vars
    BY StoreRefines
  <2> QED BY StutterRefines DEF allVars, vars
<1> QED BY <1>1, <1>2, SyncTypeCorrect, PTL DEF SyncSpec, ImplementsAtomicStore, Atomic!Spec

(* The count of a peer's pending conflicts is right, whichever way they are *)
(* resolved and by however many people, for the peers whose conflicts were  *)
(* changed one at a time.                                                  *)
THEOREM CountsAreRight == SyncSpec => []CountIsPending
<1>1. SyncInv => CountIsPending
  BY DEF SyncInv, Accounts
<1> QED BY <1>1, SyncInvariance, PTL

(* A cycle of the sync loop raises a conflict for what this device had      *)
(* written and the sync overwrote, for nothing else, and leaves none out.   *)
THEOREM CyclesRaiseTheirs == SyncSpec => OverwritesAreRaised
<1>1. ASSUME SyncInv,
             loop.pc = "record", loop.row[1] \notin disturbed \cup stale
      PROVE  loop.row \in owed
  <2>1. loop.row \in loop.todo /\ loop.row[1] \in Ids /\ loop.row[2] \in Contents
    BY <1>1 DEF SyncInv, SyncTypeOK, JournalRow
  <2>2. Kept(loop.row[1]) /\ Differs(loop.row) /\ ~Passed(loop.row)
    BY <1>1 DEF SyncInv, Cycling, Marked, Kept, Passed
  <2>3. loop.row \in owed \/ journal[loop.row[1]] = loop.row[2]
    BY <1>1, <2>1, <2>2 DEF SyncInv, Cycling, RaisedAreOwed
  <2>4. journal[loop.row[1]] \in {None, rows[loop.row[1]].content}
    BY <1>1, <2>1, <2>2 DEF SyncInv, IInv, DerivedIsOwn, Live, Kept
  <2> QED BY <2>1, <2>2, <2>3, <2>4, ConstantsAssumption DEF Differs
<1>2. ASSUME SyncInv, loop.todo = {}, NEW o \in owed
      PROVE  o[1] \in disturbed \/ rows[o[1]] = None
  BY <1>2 DEF SyncInv, Cycling, OwedAreRaised, Kept
<1>3. SyncInv /\ [SyncNext]_allVars =>
        [/\ (loop.pc = "record" /\ conflicts' # conflicts /\ loop.row[1] \notin disturbed \cup stale)
                => loop.row \in owed
         /\ (loop.pc = "detect" /\ loop.todo = {} /\ loop'.pc = "asleep")
                => \A o \in owed : o[1] \in disturbed \/ rows[o[1]] = None]_allVars
  BY <1>1, <1>2
<1> QED BY <1>3, SyncInvariance, PTL DEF SyncSpec, OverwritesAreRaised
=============================================================================
