------------------------------- MODULE Recall -------------------------------
(* How memories are found: what a store reads (store.rs), what the three    *)
(* surfaces - MCP (server.rs), REST (api) and the command line (cli) - make *)
(* of the primary store and the org store, and the recalls of a session     *)
(* start (session.rs). Tag expressions are parsed and evaluated by          *)
(* operators that TagQuery supplies.                                        *)
(*                                                                          *)
(* A store is a sequence of entries, the last changed first; the rank of a  *)
(* full-text search is taken to be this order.                              *)
EXTENDS Integers, Sequences, FiniteSets, FiniteSetsExt

CONSTANTS
    LowerCase,      \* the tags as they may be written, with what they mean
    MaxExprLen, MaxExprDepth,
    Parsed(_),      \* tag_query::parse: the tree, if it is ok
    Matches(_, _),  \* TagExpr::eval
    AllOf(_),       \* TagExpr::and_all
    ListMost, McpMost, RestMost,    \* what a limit is clamped to
    PromptMost, RecentMost, AskMost, \* what the prompts show of a list
    Window          \* candidates of a search by words and tags

TagWords == DOMAIN LowerCase
FirstOf(s, n) == SubSeq(s, 1, Min({n, Len(s)}))
Clamped(n, most) == Max({1, Min({n, most})})
Of(s) == {s[k] : k \in DOMAIN s}

\* The elements of s that are wanted, in their order.
Where(s, wanted) ==
    LET kept[k \in 0..Len(s)] ==
            IF k = 0 THEN << >>
            ELSE IF s[k] \in wanted THEN Append(kept[k - 1], s[k]) ELSE kept[k - 1]
    IN kept[Len(s)]

-----------------------------------------------------------------------------
(* Tag expressions, as sequences of tokens.                                 *)

At(ts, p) == IF p <= Len(ts) THEN ts[p] ELSE "end"

LooksLikeTagExpr(ts) ==
    \/ At(ts, 1) \in TagWords \cup {"("}
    \/ At(ts, 1) = "!" /\ At(ts, 2) \in TagWords

\* The tags of a memory are kept in lower case.
Worlds == SUBSET {LowerCase[w] : w \in TagWords}

And(tags) == [k \in 1..(2 * Len(tags) - 1) |-> IF k % 2 = 1 THEN tags[(k + 1) \div 2] ELSE "&"]

-----------------------------------------------------------------------------
(* What a store reads. A text is the sequence of its words.                 *)

ListMemories(s, n) == FirstOf(s, n)
Search(s, text, n) ==
    IF text = << >> THEN << >> ELSE FirstOf(Where(s, {e \in Of(s) : Of(text) \subseteq e.words}), n)
FindByTagExpr(s, expr) == Where(s, {e \in Of(s) : Matches(expr, e.tags)})
RecallById(s, i) == Where(s, {e \in Of(s) : e.id = i})
RecallByTitle(s, title) == FirstOf(Where(s, {e \in Of(s) : e.title = title}), 1)

\* The memory of that title, or what is found by its words.
ResolveRecall(s, text) ==
    LET exact == RecallByTitle(s, text)
    IN IF exact # << >> THEN exact ELSE Search(s, text, 5)

-----------------------------------------------------------------------------
(* What each surface answers. `o` is what there is of the org store, or     *)
(* empty if there is none or it does not answer.                            *)

SearchIn(s, text, tags, n) ==
    IF tags = << >> THEN Search(s, text, n)
    ELSE IF text = << >> THEN FirstOf(FindByTagExpr(s, AllOf(tags)), n)
    ELSE FirstOf(FindByTagExpr(Search(s, text, Window), AllOf(tags)), n)

\* memory_search
McpSearch(p, o, text, tags, n) ==
    LET limit == Clamped(n, McpMost)
        hits  == SearchIn(p, text, tags, limit)
    IN IF text = << >> /\ tags = << >> THEN << >>
       ELSE IF Len(hits) < limit THEN hits \o SearchIn(o, text, tags, limit - Len(hits)) ELSE hits

\* The prompt of that name: words only.
SearchPrompt(p, o, text) == McpSearch(p, o, text, << >>, McpMost)

Find(s, q, n) == IF LooksLikeTagExpr(q) THEN FindByTagExpr(s, Parsed(q).expr) ELSE Search(s, q, n)

\* Mutant: what the org store found is not cut off.
RestSearchUncut(p, o, q, n) ==
    LET hits == FirstOf(Find(p, q, Clamped(n, RestMost)), Clamped(n, RestMost))
    IN IF Len(hits) < Clamped(n, RestMost) THEN hits \o Find(o, q, Clamped(n, RestMost)) ELSE hits

\* GET /search; it refuses an expression that does not parse.
RestSearch(p, o, q, n) ==
    LET limit == Clamped(n, RestMost)
        hits  == FirstOf(Find(p, q, limit), limit)
        rest  == limit - Len(hits)
    IN IF rest > 0 THEN hits \o FirstOf(Find(o, q, rest), rest) ELSE hits

\* mynd memory search
CliSearch(p, o, q, n) ==
    LET limit == Clamped(n, RestMost)
        hits  == IF LooksLikeTagExpr(q) THEN FirstOf(FindByTagExpr(p, Parsed(q).expr), limit)
                 ELSE Search(p, q, limit)
        rest  == limit - Len(hits)
    IN IF rest = 0 THEN hits
       ELSE IF LooksLikeTagExpr(q) THEN hits \o FirstOf(FindByTagExpr(o, Parsed(q).expr), rest)
       ELSE hits \o FirstOf(Search(o, q, rest), rest)

\* GET /memories, mynd memory list, the prompt memory-list; memory-status
\* fills its recent ones from the org store.
RestList(p, o, n) == ListMemories(p, Clamped(n, ListMost)) \o ListMemories(o, Clamped(n, ListMost))
CliList(p, o, n) == ListMemories(p, Clamped(n, ListMost)) \o ListMemories(o, Clamped(n, ListMost))
CliListTagged(p, o, q) == FindByTagExpr(p, Parsed(q).expr) \o FindByTagExpr(o, Parsed(q).expr)
ListPrompt(p, o) == ListMemories(p, PromptMost) \o ListMemories(o, PromptMost)
StatusPrompt(p, o) ==
    [count  |-> Len(p) + Len(o),
     recent |-> LET own == ListMemories(p, RecentMost)
                IN own \o FirstOf(ListMemories(o, RecentMost), RecentMost - Len(own))]

\* The page of GET /status, which counts the stores apart; `mynd status` counts
\* the primary one.
RestStatus(p, o) == [count |-> Len(p), org |-> Len(o)]
\* What the prompt suggest-connections puts before a model.
SuggestPrompt(p, edges) == [memories |-> ListMemories(p, AskMost), edges |-> edges]

\* An id, or a title, is looked up in the primary store first
\* (find_owning_store, do_memory_recall).
OwnerIn(p, o, i) ==
    IF RecallById(p, i) # << >> THEN "primary"
    ELSE IF RecallById(o, i) # << >> THEN "org" ELSE "none"
McpRecall(p, o, i) == IF RecallById(p, i) # << >> THEN RecallById(p, i) ELSE RecallById(o, i)
McpRecallTitle(p, o, t) == IF RecallByTitle(p, t) # << >> THEN RecallByTitle(p, t) ELSE RecallByTitle(o, t)
\* GET /memories/{id} and `mynd memory get` ask the store that has it.
RestGet(p, o, i) ==
    CASE OwnerIn(p, o, i) = "primary" -> RecallById(p, i)
      [] OwnerIn(p, o, i) = "org" -> RecallById(o, i)
      [] OTHER -> << >>
CliGet(p, o, i) == IF OwnerIn(p, o, i) = "none" THEN << >> ELSE RestGet(p, o, i)
\* memory-edit and memory-flag look into the primary store only.
EditPrompt(p, o, i) == RecallById(p, i)
FlagPrompt(p, o, i) == RecallById(p, i)

-----------------------------------------------------------------------------
(* One recall of a session start against one store. `u` is what is used of  *)
(* the budget. Of a text only the first hit counts, of an expression all;   *)
(* what does not fit is passed over, and later ones may still fit.          *)

Candidates(s, q) ==
    IF ~LooksLikeTagExpr(q) THEN FirstOf(ResolveRecall(s, q), 1)
    ELSE IF Parsed(q).ok THEN FindByTagExpr(s, Parsed(q).expr) ELSE << >>

TokensOf(s) == LET f[k \in 0..Len(s)] == IF k = 0 THEN 0 ELSE f[k - 1] + s[k].tokens IN f[Len(s)]

Fitting(entries, u, most) ==
    LET taken[k \in 0..Len(entries)] ==
            IF k = 0 THEN << >>
            ELSE IF u + TokensOf(taken[k - 1]) + entries[k].tokens > most THEN taken[k - 1]
            ELSE Append(taken[k - 1], entries[k])
    IN taken[Len(entries)]
=============================================================================
