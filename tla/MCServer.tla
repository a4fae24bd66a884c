------------------------------ MODULE MCServer ------------------------------
(* One memory in each store, or two linked ones in the primary; the         *)
(* dashboard, a session start and a typed expression one at a time, since   *)
(* none of them affects the others. The limits are so small that a store of *)
(* two is cut off, by the prompts before the lists.                         *)
EXTENDS Server, TagQuery

CONSTANTS m1, m2

Tags == [a |-> "a", B |-> "b", c |-> "c"]
Memo(i, title, words, tags, tokens, layer) ==
    [id |-> i, title |-> title, words |-> words, tags |-> tags, tokens |-> tokens, layer |-> layer]

Small == Memo(None, <<"note">>, {"note", "tea"}, {"a", "b"}, 1, "workspace")
Large == Memo(None, <<"plan">>, {"plan", "tea"}, {"b"}, 2, "org")
Says == {Small, Large}
One == <<Entry(m1, Small)>>
Other == <<Entry(m2, Large)>>
Linked == {[src |-> m1, tgt |-> m2, status |-> "pending"]}
Holding(configured, primary, orgs, edges) ==
    [configured |-> configured, shelf |-> [primary |-> primary, org |-> orgs],
     links |-> [primary |-> edges, org |-> {}]]
Start == {Holding("none", One, << >>, {}), Holding("up", One, Other, {}), Holding("none", One \o Other, << >>, Linked)}

Asks == {<<"tea">>, <<"tea", "plan">>, << >>}
AsksByTag == {<<"a">>, <<"B">>, <<"B", "a">>}
Project == <<<<"note">>, <<"B">>, <<"plan">>, <<"!", "a", "&", "B">>>>
Local == <<<<"(", "a">>, <<"B">>>>

Written == DOMAIN Tags \cup {"&", "|", "!", "(", ")"}

\* Expressions are written once there is nothing else to do. Of those that
\* are too long a few are enough.
Apart ==
    /\ typed # << >> =>
         /\ ops = MaxOps /\ tab = "closed" /\ session.pc = "idle" /\ view = "edges" /\ org = "none"
         /\ ~polled /\ ~moved /\ shelf["primary"] = << >> /\ \A c \in Clients : call[c].pc = "idle"
         /\ Len(typed) > MaxExprLen => typed[1] = "!" /\ typed[2] = "a"
    /\ session.pc # "idle" => tab = "closed" /\ view = "edges" /\ ~polled /\ ~moved

(* An expression is accepted exactly if it has a meaning and neither nests  *)
(* deeper nor is longer than allowed, and then it holds for the sets of     *)
(* tags it means, "!" binding closer than "&" and "&" closer than "|".      *)
ParsesAsWritten ==
    typed # << >> =>
        LET got == Parse(typed) IN
        /\ got.ok <=> Len(typed) <= MaxExprLen /\ \E m \in Meaning(typed) : m.depth <= MaxExprDepth
        /\ got.ok => \A m \in Meaning(typed), w \in Worlds : Holds(got.expr, w) <=> w \in m.holds
=============================================================================
