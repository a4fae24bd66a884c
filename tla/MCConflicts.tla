--------------------------- MODULE MCConflicts -----------------------------
(* Two memories that may link to each other, in a store without conflicts;  *)
(* or memories without links in a store that is synced or in a hive.       *)
EXTENDS Conflicts

CONSTANTS a, b, text, links, t1, t2

LinksOf == [c \in Contents |-> IF c = links THEN {<<"child", a>>, <<"sibling", b>>} ELSE {}]

Tag(ns, val, capitals) == [ns |-> ns, val |-> val, capitals |-> capitals]
One == Tag("project", "one", "none")
Two == Tag("project", "two", "none")
Odd == Tag("kind", "odd", "space")
Loud == Tag("kind", "odd", "value")
Tags == {One, Two, Odd, Loud, Lower(Odd)}
Registry == [ns \in {"kind"} |-> {"doc"}]

Memo(c, ts, l) == [title |-> t1, content |-> c, tags |-> ts, layer |-> l]
FirstMemory == Memo(text, {}, "workspace")
Item(i, m) == [id |-> i, draft |-> m]
Stores == {Memo(text, {One}, "workspace"), Memo(links, {}, "personal"), Memo(text, {Loud}, "workspace")}
Batches == {<<Item(a, Memo(links, {}, "personal")), Item(b, Memo(text, {Loud}, "workspace"))>>}
ByHand == {[src |-> a, tgt |-> b, rel |-> "sibling", linked |-> FALSE, active |-> FALSE],
           [src |-> b, tgt |-> a, rel |-> "child", linked |-> FALSE, active |-> TRUE],
           [src |-> b, tgt |-> a, rel |-> "parent", linked |-> TRUE, active |-> TRUE]}
Edits == {[title |-> {t2}, content |-> {}, tags |-> {}],
          [title |-> {}, content |-> {links}, tags |-> {}],
          [title |-> {}, content |-> {}, tags |-> {{Odd}}]}
Changes == {{One}, {Two}}

\* Where conflicts arise, one memory, its content and its tags are enough,
\* and imports, feedback and titles are left aside; with the sync loop, which
\* takes many steps, so are all but two requests.
Apart ==
    /\ mode # "alone" =>
         /\ rows[b] = None /\ batch = << >> /\ \A c \in Clients : flagging[c] = None
         /\ a \in Live => rows[a].title = t1 /\ rows[a].layer = "workspace"
    /\ mode = "cloud" => ops <= 2
=============================================================================
