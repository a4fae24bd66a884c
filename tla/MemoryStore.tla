---------------------------- MODULE MemoryStore ----------------------------
(* The tables of one store (store.rs) and everything that writes them on   *)
(* behalf of the MCP server, the REST API, the command line and imports:   *)
(* memories with their tags, content hash and journal row, the edges       *)
(* derived from links in the content or made by hand, and feedback.        *)
(*                                                                         *)
(* A write is one transaction under write_lock and so one action; what a   *)
(* function reads before it takes the lock is an action of its own, and    *)
(* others write in between.                                                *)
EXTENDS Naturals, FiniteSets, Sequences

CONSTANTS
    Ids,        \* memories
    Titles, Contents, Layers,
    Links,      \* the relationship links written in a content: kinds and targets
    Large,      \* contents over max_content_tokens
    Given,      \* tags as given: namespace, value, and what of them has capitals
    Single,     \* namespaces registered as single_value
    Fixed,      \* for namespaces with values_mode "fixed", their values
    First,      \* what a memory of the initial state says
    Drafts,     \* what is stored
    Imports,    \* what is imported: sequences of memories
    Proposals,  \* edges that are made by hand
    Patches,    \* what an edit changes
    TagSets,    \* what is added and removed
    Clients,    \* calls under way at the same time
    MaxOps,     \* bound on requests
    None

Kinds == {"parent", "child", "sibling"}    \* VALID_RELATIONSHIPS

\* Capitals in nothing, in the value alone, or in the namespace.
Cases == {"none", "value", "space"}

Lower(t) == [t EXCEPT !.capitals = "none"]
Lowered(ts) == {Lower(t) : t \in ts}
Stored == {t \in Given : t.capitals = "none"}

\* A memory as its caller gives it, and as the table has it.
Draft == [title : Titles, content : Contents, tags : SUBSET Given, layer : Layers]
Hash == Draft
Row == [title : Titles, content : Contents, tags : SUBSET Stored, layer : Layers, hash : Hash]
\* What an edit gives: of each field nothing, or one value.
Optional(S) == {{}} \cup {{x} : x \in S}
Patch == [title : Optional(Titles), content : Optional(Contents), tags : Optional(SUBSET Given)]
Or(given, other) == IF given = {} THEN other ELSE CHOOSE x \in given : TRUE
Edge == [src : Ids, tgt : Ids, rel : Kinds, linked : BOOLEAN, active : BOOLEAN]

ASSUME ConstantsAssumption ==
    /\ Given \subseteq [ns : STRING, val : STRING, capitals : Cases]
    /\ \A t \in Given : Lower(t) \in Given
    /\ Links \in [Contents -> SUBSET (Kinds \X Ids)]
    /\ Large \subseteq Contents
    /\ First \in Draft /\ First.tags = {} /\ Links[First.content] = {}
    /\ Drafts \subseteq Draft
    /\ Imports \subseteq Seq([id : Ids, draft : Drafts])
    /\ Proposals \subseteq Edge
    /\ Patches \subseteq Patch
    /\ TagSets \subseteq SUBSET Given
    /\ MaxOps \in Nat
    /\ None \notin Ids \cup Contents \cup Draft \cup Row

VARIABLES
    rows,       \* memories, memory_tags
    tombs,      \* hive_tombstones
    journal,    \* sync_journal: the content last written
    edges,      \* edges; linked: link_text is not null
    feedback,   \* feedback: the memory, and whether still pending
    call,       \* edits and tag changes under way, by client
    flagging,   \* create_feedback under way, by client
    batch,      \* what an import has yet to store
    ops,        \* requests so far
    stale,      \* history: memories last written by what had read another version
    slipped,    \* history: memories whose tags were checked in another form or set
    loose       \* history: pairs whose edges no save has settled since a change

vars == <<rows, tombs, journal, edges, feedback, call, flagging, batch, ops, stale, slipped, loose>>
marks == <<stale, slipped, loose>>

Live == {i \in Ids : rows[i] # None}
Idle(a) == [pc |-> "idle", id |-> None, ask |-> None, seen |-> None, layer |-> None, answer |-> a]

-----------------------------------------------------------------------------
(* Checks and derived data.                                                *)

Singletons == IF Single = {} THEN {"project"} ELSE Single

\* Tags of one namespace are counted, and values compared, whatever the
\* case, but what values a namespace has is looked up as it is written.
Valid(ts) ==
    /\ \A s, t \in ts : s.ns = t.ns /\ s.ns \in Singletons => s = t
    /\ \A t \in ts : t.capitals # "space" /\ t.ns \in DOMAIN Fixed => t.val \in Fixed[t.ns]

\* Mutant: the registry is not consulted.
StorableBySize(m) == m.content \notin Large

Storable(m) == Valid(m.tags) /\ m.content \notin Large

\* compute_hive_content_hash: the tags as the caller gave them.
HashOf(title, content, tags, layer) ==
    [title |-> title, content |-> content, tags |-> tags, layer |-> layer]

RowOf(m) ==
    [title |-> m.title, content |-> m.content, tags |-> Lowered(m.tags), layer |-> m.layer,
     hash |-> HashOf(m.title, m.content, m.tags, m.layer)]

\* A memory as its row says, without the hash.
Memory(r) == [title |-> r.title, content |-> r.content, tags |-> r.tags, layer |-> r.layer]

Wanted(s, c) == {l \in Links[c] : l[2] # s}

\* Mutant: links that are gone keep their edges.
SyncEdgesAdding(E, s, c, present) ==
    {[src |-> s, tgt |-> l[2], rel |-> l[1], linked |-> TRUE, active |-> TRUE] :
        l \in {k \in Wanted(s, c) : k[2] \in present}} \cup
    {e \in E : <<e.rel, e.tgt>> \notin Wanted(s, c) \/ e.src # s}

\* sync_relationship_edges: an active edge for every link to a memory that
\* exists, and no other edge of this source that has a link text.
SyncEdges(E, s, c, present) ==
    LET made == {[src |-> s, tgt |-> l[2], rel |-> l[1], linked |-> TRUE, active |-> TRUE] :
                    l \in {k \in Wanted(s, c) : k[2] \in present}}
        kept == {e \in E : e.src = s => /\ ~(e.linked /\ <<e.rel, e.tgt>> \notin Wanted(s, c))
                                        /\ \A m \in made : <<m.tgt, m.rel>> # <<e.tgt, e.rel>>}
    IN made \cup kept

-----------------------------------------------------------------------------
(* Transactions.                                                           *)

\* Mutant: the journal is left as it was.
SaveRowUnjournaled(i, r) ==
    /\ rows' = [rows EXCEPT ![i] = r]
    /\ edges' = SyncEdges(edges, i, r.content, Live \cup {i})
    /\ loose' = (loose \ ({i} \X Live)) \cup (IF i \in Live THEN {} ELSE (Ids \ {i}) \X {i})
    /\ UNCHANGED journal

\* Everything a save does besides the row: tombstone, edges, journal.
SaveRow(i, r) ==
    /\ rows' = [rows EXCEPT ![i] = r]
    /\ journal' = [journal EXCEPT ![i] = r.content]
    /\ edges' = SyncEdges(edges, i, r.content, Live \cup {i})
    \* a memory that appears has edges from others only when they are saved
    /\ loose' = (loose \ ({i} \X Live)) \cup
                (IF i \in Live THEN {} ELSE (Ids \ {i}) \X {i})

AllAsked(ts) == \A t \in ts : t.capitals # "space"

\* Whether the hash is that of the row, and the tags were checked as the row
\* has them.
Mark(i, exact, checked) ==
    /\ stale' = IF exact THEN stale \ {i} ELSE stale \cup {i}
    /\ slipped' = IF checked THEN slipped \ {i} ELSE slipped \cup {i}

Put(i, m) ==
    /\ SaveRow(i, RowOf(m))
    /\ tombs' = tombs \ {i}
    /\ Mark(i, m.tags \subseteq Stored, AllAsked(m.tags))
    /\ UNCHANGED <<feedback, call, flagging>>

Request == ops < MaxOps /\ ops' = ops + 1

Store(i, m) == Storable(m) /\ Put(i, m) /\ Request /\ UNCHANGED batch

\* Edges, feedback and conflicts go with the memory, the journal row stays.
Remove(gone) ==
    /\ rows' = [i \in Ids |-> IF i \in gone THEN None ELSE rows[i]]
    /\ tombs' = tombs \cup gone
    /\ edges' = {e \in edges : e.src \notin gone /\ e.tgt \notin gone}
    /\ feedback' = {f \in feedback : f.id \notin gone}
    /\ stale' = stale \ gone /\ slipped' = slipped \ gone

Delete(i) ==
    /\ i \in Live
    /\ Remove({i})
    /\ loose' = loose
    /\ Request
    /\ UNCHANGED <<journal, call, flagging, batch>>

DeleteAll ==
    /\ Remove(Live)
    /\ journal' = [i \in Ids |-> None]
    /\ loose' = loose
    /\ Request
    /\ UNCHANGED <<call, flagging, batch>>

\* Several memories, one after the other. What is checked for all of them
\* before the first is stored leaves out their tags.
BeginImport(b) ==
    /\ batch = << >>
    /\ \A n \in DOMAIN b : b[n].draft.content \notin Large
    /\ batch' = b
    /\ Request
    /\ UNCHANGED <<rows, tombs, journal, edges, feedback, call, flagging, marks>>

ImportNext ==
    /\ batch # << >> /\ Storable(Head(batch).draft)
    /\ Put(Head(batch).id, Head(batch).draft)
    /\ batch' = Tail(batch)
    /\ UNCHANGED ops

ImportStops ==
    /\ batch # << >> /\ ~Storable(Head(batch).draft)
    /\ batch' = << >>
    /\ UNCHANGED <<rows, tombs, journal, edges, feedback, call, flagging, ops, marks>>

-----------------------------------------------------------------------------
(* Edits (PATCH, memory_update, the editor of the command line) and        *)
(* changes of tags. A call about a memory that does not exist returns.     *)

Begin(c, i, k, r) ==
    /\ call[c].pc = "idle" /\ rows[i] # None
    /\ call' = [call EXCEPT ![c] =
          [pc |-> k, id |-> i, ask |-> r, seen |-> rows[i], layer |-> rows[i].layer, answer |-> "none"]]
    /\ Request
    /\ UNCHANGED <<rows, tombs, journal, edges, feedback, flagging, batch, marks>>

BeginPatch(c, i, r) == Begin(c, i, "patch", r)
BeginAddTags(c, i, ts) == Begin(c, i, "add", ts)
BeginRemoveTags(c, i, ts) == Begin(c, i, "remove", ts)

\* Mutant: nobody looks how many rows were changed.
ReturnTrue(c, a) == call' = [call EXCEPT ![c] = Idle("ok")]

Return(c, a) == call' = [call EXCEPT ![c] = Idle(a)]
NoEffect == UNCHANGED <<rows, tombs, journal, edges, feedback, flagging, batch, ops, marks>>

\* What update() is called with: the fields given, and the others as read.
Filled(q) ==
    [title   |-> Or(q.ask.title, q.seen.title),
     content |-> Or(q.ask.content, q.seen.content),
     tags    |-> Or(q.ask.tags, q.seen.tags),
     layer   |-> q.layer]

\* update() looks the memory up again before it takes the lock.
Recall(c) ==
    LET q == call[c] IN
    /\ q.pc = "patch"
    /\ CASE ~Valid(Filled(q).tags) -> Return(c, "error")
         [] Valid(Filled(q).tags) /\ rows[q.id] = None -> Return(c, "gone")
         [] OTHER -> IF Storable(Filled(q))
                     THEN call' = [call EXCEPT ![c].pc = "update", ![c].layer = rows[q.id].layer]
                     ELSE Return(c, "error")
    /\ NoEffect

\* The UPDATE leaves the layer alone; without a row it rolls back.
Update(c) ==
    LET q == call[c]
        m == Filled(q)
        r == [title |-> m.title, content |-> m.content, tags |-> Lowered(m.tags),
              layer |-> rows[q.id].layer, hash |-> HashOf(m.title, m.content, m.tags, m.layer)]
    IN
    /\ q.pc = "update"
    /\ IF rows[q.id] = None THEN Return(c, "gone") /\ NoEffect
       ELSE /\ SaveRow(q.id, r)
            /\ Mark(q.id, m.tags \subseteq Stored /\ m.layer = rows[q.id].layer, AllAsked(m.tags))
            /\ Return(c, "ok")
            /\ UNCHANGED <<tombs, feedback, flagging, batch, ops>>

\* The row and the journal row that a change of tags writes: the tags of
\* the row now, the hash and the content of the row as it was read.
Retag(q, seenTags, newTags) ==
    /\ rows' = [rows EXCEPT ![q.id] =
          [@ EXCEPT !.tags = newTags, !.hash = HashOf(q.seen.title, q.seen.content, seenTags, q.seen.layer)]]
    /\ journal' = [journal EXCEPT ![q.id] = q.seen.content]
    /\ UNCHANGED <<tombs, edges, feedback, flagging, batch, ops, loose>>

Undisturbed(q) == Memory(q.seen) = Memory(rows[q.id])

\* The merged tags are checked as they were read; on a memory deleted
\* meanwhile the foreign key refuses the insert.
AddTags(c) ==
    LET q == call[c]
        merged == q.seen.tags \cup Lowered(q.ask)
    IN
    /\ q.pc = "add"
    /\ IF rows[q.id] = None \/ ~Valid(merged) THEN Return(c, "error") /\ NoEffect
       ELSE /\ Retag(q, merged, rows[q.id].tags \cup Lowered(q.ask))
            /\ Mark(q.id, Undisturbed(q), q.seen.tags = rows[q.id].tags)
            /\ Return(c, "ok")

\* On a memory deleted meanwhile only the journal row is written.
RemoveTags(c) ==
    LET q == call[c] IN
    /\ q.pc = "remove"
    /\ Return(c, "ok")
    /\ IF rows[q.id] = None
       THEN /\ journal' = [journal EXCEPT ![q.id] = q.seen.content]
            /\ UNCHANGED <<rows, tombs, edges, feedback, flagging, batch, ops, marks>>
       ELSE /\ Retag(q, q.seen.tags \ Lowered(q.ask), rows[q.id].tags \ Lowered(q.ask))
            /\ Mark(q.id, Undisturbed(q), q.id \notin slipped)

-----------------------------------------------------------------------------
(* Edges and feedback.                                                     *)

Ends(e) == <<e.src, e.tgt>>

\* Made by a tool, in the dashboard (active or pending) or by an import
\* (any status, any link text). Both directions count as duplicates.
CreateEdge(e) ==
    /\ e.src # e.tgt /\ {e.src, e.tgt} \subseteq Live
    /\ \A d \in edges : d.rel = e.rel => Ends(d) \notin {<<e.src, e.tgt>>, <<e.tgt, e.src>>}
    /\ edges' = edges \cup {e}
    /\ loose' = IF e.linked THEN loose \cup {Ends(e)} ELSE loose
    /\ Request
    /\ UNCHANGED <<rows, tombs, journal, feedback, call, flagging, batch, stale, slipped>>

\* Another relationship or a link text; the index refuses a second edge
\* with the same ends and relationship.
UpdateEdge(e, rel, linked) ==
    /\ e \in edges
    /\ \A d \in edges \ {e} : <<Ends(d), d.rel>> # <<Ends(e), rel>>
    /\ edges' = (edges \ {e}) \cup {[e EXCEPT !.rel = rel, !.linked = e.linked \/ linked]}
    /\ loose' = loose \cup {Ends(e)}
    /\ Request
    /\ UNCHANGED <<rows, tombs, journal, feedback, call, flagging, batch, stale, slipped>>

SetEdgeStatus(e, a) ==
    /\ e \in edges
    /\ edges' = (edges \ {e}) \cup {[e EXCEPT !.active = a]}
    /\ Request
    /\ UNCHANGED <<rows, tombs, journal, feedback, call, flagging, batch, marks>>

\* The memory is looked up before the row that refers to it is inserted.
BeginFeedback(c, i) ==
    /\ flagging[c] = None /\ rows[i] # None
    /\ flagging' = [flagging EXCEPT ![c] = i]
    /\ Request
    /\ UNCHANGED <<rows, tombs, journal, edges, feedback, call, batch, marks>>

CreateFeedback(c) ==
    /\ flagging[c] # None
    /\ flagging' = [flagging EXCEPT ![c] = None]
    /\ feedback' = IF rows[flagging[c]] = None THEN feedback
                   ELSE feedback \cup {[id |-> flagging[c], pending |-> TRUE]}
    /\ UNCHANGED <<rows, tombs, journal, edges, call, batch, ops, marks>>

SetFeedbackStatus(f, p) ==
    /\ f \in feedback
    /\ feedback' = (feedback \ {f}) \cup {[f EXCEPT !.pending = p]}
    /\ Request
    /\ UNCHANGED <<rows, tombs, journal, edges, call, flagging, batch, marks>>

-----------------------------------------------------------------------------

\* The process ends, and with it what is under way.
Crash ==
    /\ call' = [c \in Clients |-> Idle("none")]
    /\ flagging' = [c \in Clients |-> None]
    /\ batch' = << >>
    /\ Request
    /\ UNCHANGED <<rows, tombs, journal, edges, feedback, marks>>

Init ==
    /\ rows \in [Ids -> {None, RowOf(First)}]
    /\ tombs = {} /\ edges = {} /\ feedback = {}
    /\ journal = [i \in Ids |-> IF rows[i] = None THEN None ELSE rows[i].content]
    /\ call = [c \in Clients |-> Idle("none")]
    /\ flagging = [c \in Clients |-> None]
    /\ batch = << >> /\ ops = 0
    /\ stale = {} /\ slipped = {} /\ loose = {}

RowStep ==
    \/ \E i \in Ids, m \in Drafts : Store(i, m)
    \/ \E i \in Ids : Delete(i)
    \/ DeleteAll
    \/ \E b \in Imports : BeginImport(b)
    \/ ImportNext
    \/ ImportStops

CallStep(c) ==
    \/ \E i \in Ids, r \in Patches : BeginPatch(c, i, r)
    \/ \E i \in Ids, ts \in TagSets : BeginAddTags(c, i, ts) \/ BeginRemoveTags(c, i, ts)
    \/ Recall(c) \/ Update(c) \/ AddTags(c) \/ RemoveTags(c)
    \/ \E i \in Ids : BeginFeedback(c, i)
    \/ CreateFeedback(c)

EdgeStep ==
    \/ \E e \in Proposals : CreateEdge(e)
    \/ \E e \in edges, rel \in Kinds, linked \in BOOLEAN : UpdateEdge(e, rel, linked)
    \/ \E e \in edges, a \in BOOLEAN : SetEdgeStatus(e, a)
    \/ \E f \in feedback, p \in BOOLEAN : SetFeedbackStatus(f, p)

Next == RowStep \/ EdgeStep \/ Crash \/ \E c \in Clients : CallStep(c)

Spec == Init /\ [][Next]_vars

-----------------------------------------------------------------------------
(* Properties.                                                             *)

Calls ==
    {Idle(a) : a \in {"none", "ok", "gone", "error"}} \cup
    [pc : {"patch", "update"}, id : Ids, ask : Patch, seen : Row, layer : Layers, answer : {"none"}] \cup
    [pc : {"add", "remove"}, id : Ids, ask : TagSets, seen : Row, layer : Layers, answer : {"none"}]

TypeOK ==
    /\ rows \in [Ids -> Row \cup {None}]
    /\ tombs \subseteq Ids
    /\ journal \in [Ids -> Contents \cup {None}]
    /\ edges \subseteq Edge
    /\ feedback \subseteq [id : Ids, pending : BOOLEAN]
    /\ call \in [Clients -> Calls]
    /\ flagging \in [Clients -> Ids \cup {None}]
    /\ batch \in Seq([id : Ids, draft : Drafts])
    /\ ops \in 0..MaxOps
    /\ stale \subseteq Ids /\ slipped \subseteq Ids /\ loose \subseteq Ids \X Ids

(* The content hash that peers compare and the journal that conflict        *)
(* detection compares say what the row says, unless the last write of the  *)
(* memory hashed what it had read before somebody else wrote, or tags that *)
(* were not given in lower case.                                           *)
DerivedIsOwn ==
    \A i \in Live \ stale :
        /\ rows[i].hash = Memory(rows[i])
        /\ journal[i] \in {None, rows[i].content}

(* Tags in the table satisfy the registry, in one-tag and in fixed-value   *)
(* namespaces alike, unless two additions of tags were checked against the *)
(* same set, or a tag was given with capitals in its namespace.             *)
TagsAreAdmitted == \A i \in Live \ slipped : Valid(rows[i].tags)

(* The edges that stand for links are those the content has now, whatever  *)
(* was stored, deleted and stored again in which order, unless the target  *)
(* appeared, or the edge was changed by hand, since the last save.         *)
LinksAreEdges ==
    \A s, t \in Live : s # t /\ <<s, t>> \notin loose =>
        {e.rel : e \in {d \in edges : Ends(d) = <<s, t>> /\ d.linked}}
            = {l[1] : l \in {k \in Links[rows[s].content] : k[2] = t}}

(* The store keeps the promise of AtomicStore: an edit or a change of tags *)
(* takes effect at one instant on the memory as it then is, never brings   *)
(* back a deleted one, and answers whether it did.                         *)
LowerPatch(r) == [title |-> r.title, content |-> r.content, tags |-> {Lowered(ts) : ts \in r.tags}]
TagPatch(ts) == [title |-> {}, content |-> {}, tags |-> {Lowered(ts)}]
Abstract(q) ==
    IF q.pc = "idle"
    THEN [kind |-> "idle", id |-> None, ask |-> None, look |-> None,
          answer |-> IF q.answer \in {"gone", "error"} THEN "no" ELSE q.answer]
    ELSE [kind |-> IF q.pc = "update" THEN "patch" ELSE q.pc, id |-> q.id,
          ask |-> IF q.pc \in {"patch", "update"} THEN LowerPatch(q.ask) ELSE TagPatch(q.ask),
          look |-> Memory(q.seen), answer |-> "none"]

Atomic == INSTANCE AtomicStore WITH
    Memories <- [title : Titles, content : Contents, tags : SUBSET Stored, layer : Layers],
    Patches <- [title : Optional(Titles), content : Optional(Contents), tags : Optional(SUBSET Stored)],
    live <- [i \in Ids |-> IF rows[i] = None THEN None ELSE Memory(rows[i])],
    call <- [c \in Clients |-> Abstract(call[c])]
ImplementsAtomicStore == Atomic!Spec
=============================================================================
