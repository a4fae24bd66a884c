------------------------------- MODULE Server -------------------------------
(* What the surfaces of mynd do around the stores: the MCP tools            *)
(* (server.rs), the REST handlers (api), the command line (cli) and what    *)
(* peers replicate, on a primary store and an org store; how a dashboard    *)
(* follows them by events, a poller and refreshes (api/mod.rs, http.rs,     *)
(* App.vue, memories.js); and session starts (session.rs).                  *)
(*                                                                          *)
(* What a write does to its store's tables is the matter of MemoryStore;    *)
(* here it is one step that changes what the store lists.                   *)
EXTENDS Recall, SequencesExt

CONSTANTS
    Ids, Memos,     \* memories, and what one may say
    First,          \* what there may be at first: the stores, their edges, and an org store
    Texts, TagLists, \* what is searched for: words, or tags that must all be there
    ProjectRecalls, LocalRecalls,   \* what a session start recalls: the project's file, one's own
    ProjectTokens, GlobalTokens, LocalTokens,   \* its budget, None where a file has none
    DefaultTokens,
    Tokens,         \* what tag expressions are written with
    Clients, MaxOps, MaxFetches, \* requests at once, in all, and refreshes at once
    None

ASSUME ServerAssumption ==
    /\ None \notin Ids /\ MaxOps \in Nat /\ MaxFetches \in Nat \ {0}
    /\ {ListMost, McpMost, RestMost, PromptMost, RecentMost, AskMost} \subseteq Nat \ {0}
    /\ McpMost <= RestMost /\ {PromptMost, RecentMost} \subseteq 1..ListMost

\* A memo says all of a memory but its id.
Saying(ids) ==
    [id : ids, title : {m.title : m \in Memos}, words : {m.words : m \in Memos},
     tags : Worlds, tokens : Nat, layer : {m.layer : m \in Memos}]
Entries == Saying(Ids)

\* What a store lists, and its edges.
Stores == {"primary", "org"}
Edges == [src : Ids, tgt : Ids, status : {"active", "pending", "rejected"}]
IdsOf(s) == {m.id : m \in Of(s)}
DistinctIds(s) == \A j, k \in 1..Len(s) : s[j].id = s[k].id => j = k
Joins(l, s) == \A e \in l : {e.src, e.tgt} \subseteq IdsOf(s)

ASSUME MemosAssumption ==
    /\ Memos \subseteq Saying({None})
    /\ \A f \in First :
         /\ f.configured \in {"none", "up", "down"}
         /\ f.shelf \in [Stores -> Seq(Entries)] /\ f.links \in [Stores -> SUBSET Edges]
         /\ \A st \in Stores : DistinctIds(f.shelf[st]) /\ Joins(f.links[st], f.shelf[st])

ASSUME RecallsAssumption ==
    /\ ProjectRecalls \in Seq(Of(ProjectRecalls)) /\ LocalRecalls \in Seq(Of(LocalRecalls))
    /\ {ProjectTokens, GlobalTokens, LocalTokens} \subseteq {None} \cup Nat
    /\ DefaultTokens \in Nat

\* What is searched for by words does not look like a tag expression, and tags
\* that must all be there parse to what they mean.
ASSUME AsksAssumption ==
    /\ \A t \in Texts : ~LooksLikeTagExpr(t)
    /\ \A ts \in TagLists :
         /\ ts \in Seq(TagWords) /\ ts # << >>
         /\ \A w \in Worlds : Matches(Parsed(And(ts)).expr, w) <=> Matches(AllOf(ts), w)

VARIABLES
    shelf,      \* what each store lists, the last changed first
    links,      \* its edges: the two memories and the status
    org,        \* the org store: "none" configured, "up", or "down" and answering with errors
    call,       \* requests under way
    ops,        \* requests so far
    view,       \* which of the dashboard's lists is followed here
    tab,        \* the dashboard: "closed", "loading", "loaded", "open", or "cut" from its events
    screen,     \* what it shows
    fetches,    \* its refreshes under way, the oldest first
    events,     \* "changed" events on their way to it
    moved,      \* data_version has changed since the last poll
    polled,     \* the poller has its baseline
    session,    \* a session start under way
    typed,      \* a tag expression that is asked for
    missed      \* history: the tab could not know of a change

store == <<shelf, links>>
dash == <<screen, events, polled>>
vars == <<shelf, links, org, call, ops, view, tab, screen, fetches, events, moved, polled,
          session, typed, missed>>

Foreign == {"stdio", "cli"}     \* surfaces that are processes of their own
Known(i) == \E st \in Stores : RecallById(shelf[st], i) # << >>
Has(st, i) == RecallById(shelf[st], i) # << >>
Org == IF org = "up" THEN shelf["org"] ELSE << >>
Owner(i) == OwnerIn(shelf["primary"], Org, i)
Entry(i, m) == [m EXCEPT !.id = i]
Without(s, i) == Where(s, {e \in Of(s) : e.id # i})

IdleCall == [op |-> "none", surface |-> "none", id |-> None, home |-> "none", memo |-> None, pc |-> "idle"]
IdleSession == [pc |-> "idle", surface |-> "none", org |-> FALSE, pass |-> "primary", next |-> 1, used |-> 0, loaded |-> << >>,
                skipped |-> << >>, fulfilled |-> {}, quiet |-> TRUE]

Request == ops < MaxOps /\ ops' = ops + 1

-----------------------------------------------------------------------------
(* A change of a store, and who will hear of it: the dashboard by an event  *)
(* of the handler, or by the poller if another process wrote the primary    *)
(* store. A dashboard that is not open hears of nothing.                    *)

Told(surface, op, st) ==
    IF surface \in Foreign THEN st = "primary" /\ polled
    ELSE surface \in {"mcp", "rest"} /\ op # "import"

Unheard(told) ==
    /\ missed' = (tab # "closed" /\ (missed \/ ~told \/ tab # "open"))
    /\ fetches' = IF told /\ tab = "open" THEN fetches
                  ELSE [k \in DOMAIN fetches |-> [fetches[k] EXCEPT !.fresh = FALSE]]
    /\ session' = [session EXCEPT !.quiet = FALSE]

Write(st, s, l, surface, op) ==
    /\ shelf' = [shelf EXCEPT ![st] = s]
    /\ links' = [links EXCEPT ![st] = l]
    /\ moved' = (moved \/ (st = "primary" /\ surface \in Foreign))
    /\ Unheard(Told(surface, op, st))
    /\ UNCHANGED <<org, view, tab, dash, typed>>

Put(st, i, m, surface, op) ==
    Write(st, <<Entry(i, m)>> \o Without(shelf[st], i), links[st], surface, op)

\* After its write a handler in the server sends the event; PATCH and the
\* tag routes read the memory again before that.
After(c, q) ==
    call' = [call EXCEPT ![c] =
        IF q.surface \in Foreign \/ q.op = "import" THEN IdleCall
        ELSE IF q.surface = "rest" /\ q.op \in {"patch", "tag"} THEN [q EXCEPT !.pc = "reread", !.memo = None]
        ELSE [IdleCall EXCEPT !.pc = "notify", !.op = q.op, !.surface = q.surface]]

Asked(surface, op, i, st, m, pc) ==
    [op |-> op, surface |-> surface, id |-> i, home |-> st, memo |-> m, pc |-> pc]
Idle(c) == call[c].pc = "idle"

-----------------------------------------------------------------------------
(* Requests. A new memory goes to the store of its layer, a memory that     *)
(* exists is looked up first and written in a step of its own.              *)

StoreIn(c, surface, m) ==
    LET st == IF m.layer = "org" THEN "org" ELSE "primary" IN
    \E i \in Ids :
        /\ Idle(c) /\ ~Known(i) /\ (st = "org" => org = "up")
        /\ Request
        /\ Put(st, i, m, surface, "store")
        /\ After(c, Asked(surface, "store", i, st, m, "act"))

\* A memory that nobody has ends the request.
LookUp(c, surface, op, i, m) ==
    /\ Idle(c) /\ Owner(i) # "none"
    /\ Request
    /\ call' = [call EXCEPT ![c] = Asked(surface, op, i, Owner(i), m, "act")]
    /\ UNCHANGED <<store, org, view, tab, fetches, moved, dash, session, typed, missed>>

\* An edge is made in the first store that has both memories.
LinkIn(c, surface, i, j, status) ==
    LET st == IF Has("primary", i) /\ Has("primary", j) THEN "primary" ELSE "org"
        e  == [src |-> i, tgt |-> j, status |-> status]
    IN /\ Idle(c) /\ i # j
       /\ Has(st, i) /\ Has(st, j) /\ (st = "org" => org = "up")
       /\ \A d \in links[st] : {d.src, d.tgt} # {i, j}
       /\ Request
       /\ Write(st, shelf[st], links[st] \cup {e}, surface, "link")
       /\ After(c, Asked(surface, "link", None, st, None, "act"))

ChangeLink(c, surface, st, e, status) ==
    /\ Idle(c) /\ e \in links[st] /\ (st = "org" => org = "up")
    /\ Request
    /\ Write(st, shelf[st], (links[st] \ {e}) \cup {[e EXCEPT !.status = status]}, surface, "link")
    /\ After(c, Asked(surface, "link", None, st, None, "act"))

\* delete_all; the org store keeps what it has.
Wipe(c, surface) ==
    /\ Idle(c)
    /\ Request
    /\ Write("primary", << >>, {}, surface, "wipe")
    /\ After(c, Asked(surface, "wipe", None, "primary", None, "act"))

\* An import writes the primary store, whatever the layer, under the ids
\* it brings.
ImportInto(c, surface, i, m) ==
    /\ Idle(c)
    /\ Request
    /\ Put("primary", i, m, surface, "import")
    /\ After(c, Asked(surface, "import", i, "primary", m, "act"))

Mcp == {"mcp", "stdio"}     \* in the server, or started by an editor

McpStore(c) == \E s \in Mcp, m \in Memos : StoreIn(c, s, m)
McpUpdate(c) == \E s \in Mcp, i \in Ids, m \in Memos : LookUp(c, s, "patch", i, m)
McpDelete(c) == \E s \in Mcp, i \in Ids : LookUp(c, s, "delete", i, None)
McpStoreEdge(c) == \E s \in Mcp, i, j \in Ids, a \in {"active", "pending"} : LinkIn(c, s, i, j, a)
McpUpdateEdge(c) == \E s \in Mcp, st \in Stores : \E e \in links[st] : ChangeLink(c, s, st, e, e.status)

RestCreate(c) == \E m \in Memos : StoreIn(c, "rest", m)
RestPatch(c) == \E i \in Ids, m \in Memos : LookUp(c, "rest", "patch", i, m)
RestAddTags(c) == \E i \in Ids, m \in Memos : LookUp(c, "rest", "tag", i, m)
RestRemoveTags(c) == \E i \in Ids, m \in Memos : LookUp(c, "rest", "tag", i, m)
RestDelete(c) == \E i \in Ids : LookUp(c, "rest", "delete", i, None)
RestDeleteAll(c) == Wipe(c, "rest")
RestImport(c) == \E i \in Ids, m \in Memos : ImportInto(c, "rest", i, m)
RestCreateEdge(c) == \E i, j \in Ids : LinkIn(c, "rest", i, j, "active")
RestPatchEdge(c) ==
    \E st \in Stores, a \in {"active", "rejected"} : \E e \in links[st] : ChangeLink(c, "rest", st, e, a)

CliAdd(c) == \E m \in Memos : StoreIn(c, "cli", m)
CliEdit(c) == \E i \in Ids, m \in Memos : LookUp(c, "cli", "patch", i, m)
CliTagAdd(c) == \E i \in Ids, m \in Memos : LookUp(c, "cli", "tag", i, m)
CliTagRemove(c) == \E i \in Ids, m \in Memos : LookUp(c, "cli", "tag", i, m)
CliRemove(c) == \E i \in Ids : LookUp(c, "cli", "delete", i, None)
CliWipe(c) == Wipe(c, "cli")
CliImport(c) == \E i \in Ids, m \in Memos : ImportInto(c, "cli", i, m)
CliAddEdge(c) == \E i, j \in Ids : LinkIn(c, "cli", i, j, "active")
CliSetStatus(c) ==
    \E st \in Stores, a \in {"active", "rejected"} : \E e \in links[st] : ChangeLink(c, "cli", st, e, a)

Begins(c) ==
    \/ McpStore(c) \/ McpUpdate(c) \/ McpDelete(c) \/ McpStoreEdge(c) \/ McpUpdateEdge(c)
    \/ RestCreate(c) \/ RestPatch(c) \/ RestAddTags(c) \/ RestRemoveTags(c) \/ RestDelete(c)
    \/ RestDeleteAll(c) \/ RestImport(c) \/ RestCreateEdge(c) \/ RestPatchEdge(c)
    \/ CliAdd(c) \/ CliEdit(c) \/ CliTagAdd(c) \/ CliTagRemove(c) \/ CliRemove(c) \/ CliWipe(c)
    \/ CliImport(c) \/ CliAddEdge(c) \/ CliSetStatus(c)

\* The write of a request that looked its memory up. Edges go with a memory
\* that is deleted; a tag change keeps all but the tags.
Act(c) ==
    LET q == call[c]
        old == RecallById(shelf[q.home], q.id)
    IN
    /\ q.pc = "act"
    /\ IF old = << >> \/ (q.home = "org" /\ org # "up")
       THEN /\ call' = [call EXCEPT ![c] = IdleCall]
            /\ UNCHANGED <<store, org, view, tab, fetches, moved, dash, session, typed, missed>>
       ELSE /\ CASE q.op = "delete" ->
                      Write(q.home, Without(shelf[q.home], q.id),
                            {e \in links[q.home] : q.id \notin {e.src, e.tgt}}, q.surface, q.op)
                 [] q.op = "patch" -> Put(q.home, q.id, [q.memo EXCEPT !.layer = old[1].layer], q.surface, q.op)
                 [] q.op = "tag" -> Put(q.home, q.id, [old[1] EXCEPT !.tags = q.memo.tags], q.surface, q.op)
            /\ After(c, q)
    /\ UNCHANGED ops

\* The memory may be gone by now: 404, and no event.
Reread(c) ==
    /\ call[c].pc = "reread"
    /\ LET home == IF call[c].home = "org" THEN Org ELSE shelf["primary"] IN
       call' = [call EXCEPT ![c] =
                  IF RecallById(home, call[c].id) = << >> THEN IdleCall
                  ELSE [IdleCall EXCEPT !.pc = "notify", !.op = call[c].op, !.surface = call[c].surface]]
    /\ UNCHANGED <<store, org, ops, view, tab, fetches, moved, dash, session, typed, missed>>

\* Mutant: a deletion sends no event.
NotifyUnlessDeleted(c) ==
    /\ call[c].pc = "notify"
    /\ call' = [call EXCEPT ![c] = IdleCall]
    /\ events' = IF tab = "open" /\ call[c].op # "delete" THEN events + 1 ELSE events
    /\ UNCHANGED <<store, org, ops, view, tab, screen, fetches, moved, polled, session, typed, missed>>

\* notify_change, events.send: whoever is connected gets it.
Notify(c) ==
    /\ call[c].pc = "notify"
    /\ call' = [call EXCEPT ![c] = IdleCall]
    /\ events' = IF tab = "open" THEN events + 1 ELSE events
    /\ UNCHANGED <<store, org, ops, view, tab, screen, fetches, moved, polled, session, typed, missed>>

\* A peer's version of a memory: written by the server, and no event.
HiveApply(i, m) ==
    /\ m.layer # "org" /\ Has("primary", i)
    /\ Request
    /\ Put("primary", i, m, "hive", "apply")
    /\ UNCHANGED call

\* A peer's deletion of one.
HiveBury(i) ==
    /\ Has("primary", i)
    /\ Request
    /\ Write("primary", Without(shelf["primary"], i),
             {e \in links["primary"] : i \notin {e.src, e.tgt}}, "hive", "apply")
    /\ UNCHANGED call

\* The org store answers with errors, or answers again.
OrgTurns(state) ==
    /\ {org, state} = {"up", "down"}
    /\ Request
    /\ org' = state
    /\ Unheard(FALSE)
    /\ UNCHANGED <<store, call, view, tab, moved, dash, typed>>

-----------------------------------------------------------------------------
(* The dashboard.                                                           *)

Listed(st) == IF view = "memories" THEN shelf[st] ELSE links[st]
Nothing == IF view = "memories" THEN << >> ELSE {}
Both(p, o) == IF view = "memories" THEN p \o o ELSE p \cup o
OrgListed == IF org = "up" THEN Listed("org") ELSE Nothing

NewFetch == [read |-> 0, p |-> Nothing, o |-> Nothing, fresh |-> TRUE, late |-> FALSE]
SameWorld == UNCHANGED <<store, org, call, ops, view, session, typed>>

Poll ==
    /\ ~polled \/ moved
    /\ polled' = TRUE /\ moved' = FALSE
    /\ events' = IF polled /\ tab = "open" THEN events + 1 ELSE events
    /\ SameWorld /\ UNCHANGED <<tab, screen, fetches, missed>>

\* The page loads its lists first and connects to the events then.
OpenTab ==
    /\ tab = "closed"
    /\ tab' = "loading" /\ fetches' = <<NewFetch>> /\ screen' = Nothing /\ missed' = FALSE
    /\ SameWorld /\ UNCHANGED <<events, moved, polled>>

Connect ==
    /\ tab \in {"loaded", "cut"}
    /\ tab' = "open"
    /\ SameWorld /\ UNCHANGED <<dash, fetches, moved, missed>>

CloseTab ==
    /\ tab \notin {"closed", "loading"}
    /\ tab' = "closed" /\ fetches' = << >> /\ events' = 0 /\ screen' = Nothing /\ missed' = FALSE
    /\ SameWorld /\ UNCHANGED <<moved, polled>>

\* onmessage: every event starts a refresh.
Deliver ==
    /\ events > 0 /\ Len(fetches) < MaxFetches
    /\ events' = events - 1
    /\ fetches' = Append(fetches, NewFetch)
    /\ SameWorld /\ UNCHANGED <<tab, screen, moved, polled, missed>>

\* The handler of the list reads one store after the other.
Read(k) ==
    /\ fetches[k].read < 2
    /\ fetches' = [fetches EXCEPT ![k] =
          IF @.read = 0 THEN [@ EXCEPT !.read = 1, !.p = Listed("primary")]
          ELSE [@ EXCEPT !.read = 2, !.o = OrgListed]]
    /\ SameWorld /\ UNCHANGED <<dash, tab, moved, missed>>

\* Responses are shown as they come. One that was overtaken shows what was.
Show(k) ==
    LET f == fetches[k] IN
    /\ f.read = 2
    /\ screen' = Both(f.p, f.o)
    /\ fetches' = [j \in 1..(Len(fetches) - 1) |->
                      IF j < k THEN [fetches[j] EXCEPT !.late = TRUE] ELSE fetches[j + 1]]
    /\ missed' = (f.late \/ (missed /\ ~f.fresh))
    /\ tab' = IF tab = "loading" THEN "loaded" ELSE tab
    /\ SameWorld /\ UNCHANGED <<events, moved, polled>>

\* The server starts again: requests, events and refreshes are lost, and
\* the event source of the page connects anew by itself.
Restart ==
    /\ Request
    /\ call' = [c \in Clients |-> IF call[c].surface \in Foreign THEN call[c] ELSE IdleCall]
    /\ events' = 0 /\ fetches' = << >> /\ polled' = FALSE /\ moved' = FALSE
    /\ tab' = CASE tab = "open" -> "cut" [] tab = "loading" -> "closed" [] OTHER -> tab
    /\ missed' = (tab \notin {"closed", "loading"})
    /\ session' = IF session.surface # "mcp" THEN session ELSE IdleSession
    /\ UNCHANGED <<store, org, view, screen, typed>>

-----------------------------------------------------------------------------
(* A session start: each recall against the primary store, then each        *)
(* against the org store with what is left of the budget.                   *)

SameRest == UNCHANGED <<store, org, call, ops, view, tab, fetches, moved, dash, typed, missed>>

\* load_config_with_global: the recalls of both files, doublets included, and
\* the project's budget, or the global one, or the default, and one's own.
Recalls == ProjectRecalls \o LocalRecalls
MaxTokens ==
    (IF ProjectTokens # None THEN ProjectTokens ELSE IF GlobalTokens # None THEN GlobalTokens ELSE DefaultTokens)
        + (IF LocalTokens # None THEN LocalTokens ELSE 0)

StartFrom(surface, opened) ==
    /\ session.pc = "idle"
    /\ session' = [IdleSession EXCEPT !.pc = "recall", !.surface = surface, !.org = opened]
    /\ SameRest

StartSession == \E s \in Mcp : StartFrom(s, org # "none")

\* `mynd session start` is a process of its own: it opens the stores itself,
\* and does without an org store that does not open.
StartCliSession == \E opened \in BOOLEAN : (opened => org # "none") /\ StartFrom("cli", opened)

\* `mynd status` shows what such a start would load, and logs nothing.
Preview == \E opened \in BOOLEAN : (opened => org # "none") /\ StartFrom("status", opened)

Skip(q, why) == [query |-> q, reason |-> why]

\* An error of the store counts as nothing found.
RecallNext ==
    LET q     == Recalls[session.next]
        s     == IF session.pass = "org" THEN Org ELSE shelf["primary"]
        found == Candidates(s, q)
        fit   == Fitting(found, session.used, MaxTokens)
    IN
    /\ session.pc = "recall" /\ session.next <= Len(Recalls)
    /\ session' = [session EXCEPT
          !.next = @ + 1,
          !.used = @ + TokensOf(fit),
          !.loaded = @ \o fit,
          !.fulfilled = IF fit = << >> THEN @ ELSE @ \cup {q},
          !.skipped = IF fit # << >> THEN @
                      ELSE Append(@, Skip(q, IF found = << >> THEN "not_found" ELSE "budget_exceeded"))]
    /\ SameRest

NextPass ==
    /\ session.pc = "recall" /\ session.next > Len(Recalls)
    /\ session.org /\ session.pass = "primary"
    /\ session' = [session EXCEPT !.pass = "org", !.next = 1]
    /\ SameRest

\* Mutant: the org store's reason counts.
CollapseToLast(skipped, fulfilled) ==
    {[query |-> x.query, reason |-> skipped[Max({k \in DOMAIN skipped : skipped[k].query = x.query})].reason] :
        x \in {y \in Of(skipped) : y.query \notin fulfilled}}

\* With two passes a query is listed once, if neither loaded anything for
\* it; that something did not fit is the stronger reason.
Collapse(skipped, fulfilled) ==
    LET left == {y \in Of(skipped) : y.query \notin fulfilled}
    IN {x \in left : Skip(x.query, "budget_exceeded") \in left => x.reason = "budget_exceeded"}

EndPasses ==
    /\ session.pc = "recall" /\ session.next > Len(Recalls)
    /\ session.org => session.pass = "org"
    /\ session' = [session EXCEPT !.pc = "done",
          !.skipped = IF session.org THEN SetToSeq(Collapse(@, session.fulfilled)) ELSE @]
    /\ SameRest

\* The result is logged and returned; that logging fails is only warned of.
EndSession ==
    /\ session.pc = "done"
    /\ session' = IdleSession
    /\ SameRest

-----------------------------------------------------------------------------

\* Somebody writes a tag expression.
Type(t) ==
    /\ Len(typed) <= MaxExprLen
    /\ typed' = Append(typed, t)
    /\ UNCHANGED <<store, org, call, ops, view, tab, fetches, moved, dash, session, missed>>

Init ==
    /\ \E f \in First : org = f.configured /\ shelf = f.shelf /\ links = f.links
    /\ call = [c \in Clients |-> IdleCall] /\ ops = 0
    /\ view \in {"memories", "edges"}
    /\ tab = "closed" /\ screen = Nothing /\ fetches = << >> /\ events = 0
    /\ moved = FALSE /\ polled = FALSE
    /\ session = IdleSession /\ typed = << >> /\ missed = FALSE

Go(c) == Act(c) \/ Reread(c) \/ Notify(c)
Fetching == \E k \in DOMAIN fetches : Read(k) \/ Show(k)
Sessions == StartSession \/ StartCliSession \/ Preview \/ RecallNext \/ NextPass \/ EndPasses \/ EndSession

Next ==
    \/ \E c \in Clients : Begins(c) \/ Go(c)
    \/ \E i \in Ids, m \in Memos : HiveApply(i, m)
    \/ \E i \in Ids : HiveBury(i)
    \/ OrgTurns("up") \/ OrgTurns("down")
    \/ Poll \/ OpenTab \/ Connect \/ CloseTab \/ Deliver \/ Fetching \/ Restart
    \/ Sessions
    \/ \E t \in Tokens : Type(t)

\* The server goes on with its requests and polls; the browser handles
\* events, and its refreshes are answered.
Fairness ==
    /\ \A c \in Clients : WF_vars(Go(c))
    /\ WF_vars(Poll) /\ WF_vars(Deliver) /\ WF_vars(Fetching)

Spec == Init /\ [][Next]_vars /\ Fairness

-----------------------------------------------------------------------------
(* Properties.                                                              *)

(* A dashboard that is open comes to show what the stores list and goes on  *)
(* showing it, whoever changed them and in whatever order events, polls     *)
(* and responses come - unless nobody tells it of the change: imports over  *)
(* REST, what peers replicate, other processes that write the org store, or *)
(* the primary one before the poller's baseline, changes before it connects *)
(* and while the server restarts, and a response that overtakes another.    *)
ScreenCatchesUp ==
    <>[](tab = "open" /\ ~missed => screen = Both(Listed("primary"), OrgListed))

(* What a session start with an org store leaves out is each configured     *)
(* query of which nothing was loaded, once. If nobody changes the stores    *)
(* meanwhile, the reason is the budget exactly if something would have      *)
(* matched in either store, and then nothing of it fits even now.           *)
SkippedSaysWhy ==
    session.pc = "done" =>
        LET matches(q) == Of(Candidates(shelf["primary"], q)) \cup Of(Candidates(Org, q)) IN
        /\ session.used = TokensOf(session.loaded) /\ session.used <= MaxTokens
        /\ session.org =>
             /\ {x.query : x \in Of(session.skipped)} = Of(Recalls) \ session.fulfilled
             /\ Len(session.skipped) = Cardinality(Of(Recalls) \ session.fulfilled)
             /\ session.quiet => \A x \in Of(session.skipped) :
                  /\ x.reason = "budget_exceeded" <=> matches(x.query) # {}
                  /\ \A e \in matches(x.query) : session.used + e.tokens > MaxTokens

\* Answers depend on the stores alone: asking when all is quiet is enough.
Quiet == tab = "closed" /\ session.pc = "idle" /\ typed = << >> /\ \A c \in Clients : Idle(c)

(* The surfaces answer the same question with the same memories, each up to *)
(* its own limit: a search over MCP, or by the prompt, finds the first of   *)
(* what REST and the command line find; memory-list shows the first of what *)
(* they list of each store, all of it only as long as no store has more     *)
(* than its limit; memory-status shows the first of the whole, and counts   *)
(* what is not shown too. By tags those of a list are found that have them. *)
(* Each memory that is listed can be read by its id, unless the primary     *)
(* store has another of that id. The connections a model is asked to judge  *)
(* join memories that it is shown, or that are older than all of those.     *)
SurfacesAgree ==
    Quiet =>
    LET p == shelf["primary"]
        whole == RestList(p, Org, ListMost)
        asked == SuggestPrompt(p, links["primary"])
    IN
    /\ \A n \in 1..(RestMost + 1) :
         /\ \A t \in Texts : /\ McpSearch(p, Org, t, << >>, n) = FirstOf(RestSearch(p, Org, t, n), McpMost)
                             /\ CliSearch(p, Org, t, n) = RestSearch(p, Org, t, n)
         /\ \A ts \in TagLists : /\ McpSearch(p, Org, << >>, ts, n) = FirstOf(RestSearch(p, Org, And(ts), n), McpMost)
                                 /\ CliSearch(p, Org, And(ts), n) = RestSearch(p, Org, And(ts), n)
    /\ \A t \in Texts : SearchPrompt(p, Org, t) = FirstOf(RestSearch(p, Org, t, RestMost), McpMost)
    /\ \A ts \in TagLists, e \in Of(CliList(p, Org, ListMost)) :
         e \in Of(CliListTagged(p, Org, And(ts))) <=> Matches(AllOf(ts), e.tags)
    /\ \A n \in 1..ListMost : CliList(p, Org, n) = RestList(p, Org, n)
    /\ ListPrompt(p, Org) = RestList(p, Org, PromptMost)
    /\ ListPrompt(p, Org) = whole <=> \A s \in {p, Org} : Len(s) > PromptMost => PromptMost = ListMost
    /\ StatusPrompt(p, Org).recent = FirstOf(whole, RecentMost)
    /\ StatusPrompt(p, Org).count = RestStatus(p, Org).count + RestStatus(p, Org).org
    /\ StatusPrompt(p, Org).count >= Len(whole)
    /\ \A e \in Of(whole) :
         /\ McpRecall(p, Org, e.id) = RestGet(p, Org, e.id) /\ RestGet(p, Org, e.id) = CliGet(p, Org, e.id)
         /\ RestGet(p, Org, e.id) # <<e>> =>
              e \in Of(Org) /\ EditPrompt(p, Org, e.id) # << >> /\ FlagPrompt(p, Org, e.id) # << >>
    /\ \A e \in asked.edges : \A i \in {e.src, e.tgt} :
         i \in IdsOf(asked.memories) \/ \E k \in DOMAIN p : k > AskMost /\ p[k].id = i
=============================================================================
