------------------------------ MODULE TagQuery ------------------------------
(* Tag expressions (tag_query.rs): how they are parsed and evaluated, and   *)
(* what they say.                                                           *)
EXTENDS Recall

-----------------------------------------------------------------------------
(* The parser: recursive descent over tokens, "|" below "&" below "!".      *)
(* Each function returns the tree and the position after it, or refuses.    *)

Refused == [ok |-> FALSE]
Got(e, p) == [ok |-> TRUE, expr |-> e, pos |-> p]

RECURSIVE ParseOr(_, _, _), OrTail(_, _, _), ParseAnd(_, _, _), AndTail(_, _, _),
          ParseNot(_, _, _), ParseAtom(_, _, _)

ParseOr(ts, p, d) == OrTail(ts, ParseAnd(ts, p, d), d)

OrTail(ts, l, d) ==
    IF ~l.ok \/ At(ts, l.pos) # "|" THEN l
    ELSE LET r == ParseAnd(ts, l.pos + 1, d)
         IN OrTail(ts, IF r.ok THEN Got(<<"or", l.expr, r.expr>>, r.pos) ELSE Refused, d)

ParseAnd(ts, p, d) == AndTail(ts, ParseNot(ts, p, d), d)

\* Mutant: an operand of "&" extends over the next "|".
AndTailGreedy(ts, l, d) ==
    IF ~l.ok \/ At(ts, l.pos) # "&" THEN l
    ELSE LET r == ParseOr(ts, l.pos + 1, d)
         IN IF r.ok THEN Got(<<"and", l.expr, r.expr>>, r.pos) ELSE Refused

AndTail(ts, l, d) ==
    IF ~l.ok \/ At(ts, l.pos) # "&" THEN l
    ELSE LET r == ParseNot(ts, l.pos + 1, d)
         IN AndTail(ts, IF r.ok THEN Got(<<"and", l.expr, r.expr>>, r.pos) ELSE Refused, d)

ParseNot(ts, p, d) ==
    IF At(ts, p) # "!" THEN ParseAtom(ts, p, d)
    ELSE IF d >= MaxExprDepth THEN Refused
    ELSE LET e == ParseNot(ts, p + 1, d + 1)
         IN IF e.ok THEN Got(<<"not", e.expr>>, e.pos) ELSE Refused

ParseAtom(ts, p, d) ==
    IF At(ts, p) \in TagWords THEN Got(<<"tag", LowerCase[ts[p]]>>, p + 1)
    ELSE IF At(ts, p) # "(" \/ d >= MaxExprDepth THEN Refused
    ELSE LET e == ParseOr(ts, p + 1, d + 1)
         IN IF e.ok /\ At(ts, e.pos) = ")" THEN Got(e.expr, e.pos + 1) ELSE Refused

Parse(ts) ==
    LET e == ParseOr(ts, 1, 0)
    IN IF Len(ts) <= MaxExprLen /\ e.ok /\ e.pos = Len(ts) + 1 THEN e ELSE Refused

\* TagExpr::eval
RECURSIVE Holds(_, _)
Holds(e, tags) ==
    CASE e[1] = "tag" -> e[2] \in tags
      [] e[1] = "not" -> ~Holds(e[2], tags)
      [] e[1] = "and" -> Holds(e[2], tags) /\ Holds(e[3], tags)
      [] e[1] = "or"  -> Holds(e[2], tags) \/ Holds(e[3], tags)

\* TagExpr::and_all
RECURSIVE AndAll(_)
AndAll(tags) ==
    IF Len(tags) = 1 THEN <<"tag", LowerCase[tags[1]]>>
    ELSE <<"and", AndAll(FirstOf(tags, Len(tags) - 1)), <<"tag", LowerCase[tags[Len(tags)]]>>>>

-----------------------------------------------------------------------------
(* What an expression says, read from the outside: split at the last "|"    *)
(* outside of parentheses, else at the last "&", else behind a "!", else    *)
(* within parentheses. A set of at most one meaning: the sets of tags for   *)
(* which it holds, and how deep it nests.                                   *)

Level(ts, k) == Cardinality({j \in 1..(k - 1) : ts[j] = "("}) - Cardinality({j \in 1..(k - 1) : ts[j] = ")"})
Splits(ts, op) == {k \in DOMAIN ts : ts[k] = op /\ Level(ts, k) = 0}

RECURSIVE Meaning(_)
Meaning(ts) ==
    LET parts(op) == LET k == Max(Splits(ts, op))
                     IN Meaning(SubSeq(ts, 1, k - 1)) \X Meaning(SubSeq(ts, k + 1, Len(ts)))
        deeper(l, r) == Max({l.depth, r.depth})
    IN
    IF Splits(ts, "|") # {}
        THEN {[holds |-> m[1].holds \cup m[2].holds, depth |-> deeper(m[1], m[2])] : m \in parts("|")}
    ELSE IF Splits(ts, "&") # {}
        THEN {[holds |-> m[1].holds \cap m[2].holds, depth |-> deeper(m[1], m[2])] : m \in parts("&")}
    ELSE IF At(ts, 1) = "!"
        THEN {[holds |-> Worlds \ m.holds, depth |-> m.depth + 1] : m \in Meaning(Tail(ts))}
    ELSE IF Len(ts) = 1 /\ ts[1] \in TagWords
        THEN {[holds |-> {w \in Worlds : LowerCase[ts[1]] \in w}, depth |-> 0]}
    ELSE IF Len(ts) > 2 /\ ts[1] = "(" /\ ts[Len(ts)] = ")"
        THEN {[m EXCEPT !.depth = @ + 1] : m \in Meaning(SubSeq(ts, 2, Len(ts) - 1))}
    ELSE {}
=============================================================================
