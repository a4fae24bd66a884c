---------------------------- MODULE ServerProofs ----------------------------
(* Proofs about Server: what each store lists and which edges it keeps,      *)
(* that the surfaces answer alike, what a session start leaves out and why, *)
(* and that the dashboard shows what the stores list.                       *)
EXTENDS Server, FiniteSetTheorems, SequenceTheorems, WellFoundedInduction, TLAPS

-----------------------------------------------------------------------------
(* Induction up to a number, over a set, and functions defined by recursion *)
(* on the numbers up to n: step tells how a value follows from the last.    *)

LEMMA Below == IsWellFoundedOn({p \in Nat \X Nat : p[1] < p[2]}, Nat)
<1>1. OpToRel(<, Nat) = {p \in Nat \X Nat : p[1] < p[2]}
  BY DEF OpToRel
<1> QED
  BY <1>1, NatLessThanWellFounded

LEMMA Least ==
    ASSUME NEW S \in SUBSET Nat, S # {}
    PROVE  \E n \in S : \A m \in S : n <= m
<1> DEFINE R == {p \in Nat \X Nat : p[1] < p[2]}
<1>1. IsWellFoundedOn(R, Nat)
  BY Below
<1>2. PICK n \in S : \A m \in S : ~(<<m, n>> \in R)
  <2> HIDE DEF R
  <2> QED
  BY <1>1, WFMin
<1>3. \A m \in S : ~(m < n)
  BY <1>2
<1> QED
  BY <1>3

LEMMA Induction ==
    ASSUME NEW n \in Nat, NEW S, 0 \in S, \A k \in 1..n : k - 1 \in S => k \in S
    PROVE  0..n \subseteq S
<1> SUFFICES ASSUME 0..n \ S # {} PROVE FALSE
  OBVIOUS
<1> DEFINE T == (0..n) \ S
<1>1. PICK k \in T : \A m \in T : k <= m
  <2>1. T \in SUBSET Nat /\ T # {}
    OBVIOUS
  <2> HIDE DEF T
  <2> QED
    BY <2>1, Least
<1>2. k \in 1..n
  BY <1>1
<1>3. k - 1 \in S
  BY <1>1, <1>2
<1> QED
  BY <1>1, <1>2, <1>3

StepsOver(n, X) == [(1..n) \X X -> X]
Follows(f, n, base, step) == f[0] = base /\ \A k \in 1..n : f[k] = step[<<k, f[k - 1]>>]

LEMMA Recursion ==
    ASSUME NEW n \in Nat, NEW X, NEW base \in X, NEW step \in StepsOver(n, X)
    PROVE  \E f \in [0..n -> X] : Follows(f, n, base, step)
<1> USE DEF StepsOver, Follows
<1> DEFINE Good(m, f) == f[0] = base /\ \A k \in 1..m : f[k] = step[<<k, f[k - 1]>>]
           S == {m \in 0..n : \E f \in [0..m -> X] : Good(m, f)}
<1>1. 0 \in S
  <2> DEFINE g == [k \in 0..0 |-> base]
  <2>1. g \in [0..0 -> X] /\ Good(0, g)
    OBVIOUS
  <2>2. \E f \in [0..0 -> X] : Good(0, f)
    <3> HIDE DEF g, Good
    <3> QED
      BY <2>1
  <2> QED
    <3> HIDE DEF Good
    <3> QED
      BY <2>2
<1>2. ASSUME NEW m \in 1..n, m - 1 \in S PROVE m \in S
  <2>1. PICK f \in [0..(m - 1) -> X] : Good(m - 1, f)
    BY <1>2
  <2> DEFINE g == [k \in 0..m |-> IF k = m THEN step[<<m, f[m - 1]>>] ELSE f[k]]
  <2>2. step[<<m, f[m - 1]>>] \in X
    OBVIOUS
  <2>3. g \in [0..m -> X]
    BY <2>2
  <2>4. g[0] = base
    BY <2>1
  <2>5. ASSUME NEW k \in 1..m PROVE g[k] = step[<<k, g[k - 1]>>]
    <3>1. g[k - 1] = f[k - 1]
      OBVIOUS
    <3>2. CASE k = m
      <4>1. g[m] = step[<<m, f[m - 1]>>]
        OBVIOUS
      <4> HIDE DEF g
      <4> QED
        BY <3>1, <3>2, <4>1
    <3>3. CASE k # m
      BY <3>1, <3>3, <2>1
    <3> QED
      BY <3>2, <3>3
  <2>6. Good(m, g)
    <3> HIDE DEF g
    <3> QED
      BY <2>4, <2>5
  <2>7. \E f1 \in [0..m -> X] : Good(m, f1)
    <3> HIDE DEF g, Good
    <3> QED
      BY <2>3, <2>6
  <2> QED
    <3> HIDE DEF Good
    <3> QED
      BY <2>7
<1>3. n \in S
  <2> HIDE DEF S
  <2> QED
    BY <1>1, <1>2, Induction
<1> QED
  BY <1>3

-----------------------------------------------------------------------------
(* Sequences.                                                               *)

Keeps(kept, s, wanted) ==
    /\ kept[0] = << >>
    /\ \A k \in 1..Len(s) : kept[k] = IF s[k] \in wanted THEN Append(kept[k - 1], s[k]) ELSE kept[k - 1]

LEMMA WhereKept ==
    ASSUME NEW S, NEW s \in Seq(S), NEW wanted
    PROVE  \E kept \in [0..Len(s) -> Seq(S)] : Keeps(kept, s, wanted) /\ Where(s, wanted) = kept[Len(s)]
<1> USE DEF Keeps
<1> DEFINE n == Len(s)
           Longer(k, r) == IF s[k] \in wanted THEN Append(r, s[k]) ELSE r
           step == [p \in (1..n) \X Seq(S) |-> Longer(p[1], p[2])]
           G(f) == f = [k \in 0..n |-> IF k = 0 THEN << >> ELSE Longer(k, f[k - 1])]
           kept == CHOOSE f : G(f)
<1>1. step \in [(1..n) \X Seq(S) -> Seq(S)]
  OBVIOUS
<1>2. PICK f \in [0..n -> Seq(S)] : f[0] = << >> /\ \A k \in 1..n : f[k] = step[<<k, f[k - 1]>>]
  <2> DEFINE X == Seq(S)
             e == << >>
  <2>1. n \in Nat /\ e \in X /\ step \in StepsOver(n, X)
    BY <1>1 DEF StepsOver
  <2> HIDE DEF step, n, X, e
  <2>2. \E f \in [0..n -> X] : Follows(f, n, e, step)
    BY <2>1, Recursion
  <2> QED
    BY <2>2 DEF X, e, Follows
<1>3. \A k \in 1..n : f[k] = Longer(k, f[k - 1])
  <2> TAKE k \in 1..n
  <2>1. f[k - 1] \in Seq(S) /\ <<k, f[k - 1]>> \in (1..n) \X Seq(S)
    OBVIOUS
  <2>2. step[<<k, f[k - 1]>>] = Longer(k, f[k - 1])
    <3> HIDE DEF Longer
    <3> QED
      BY <2>1
  <2> QED
    BY <1>2, <2>2
<1>4. G(f)
  <2> HIDE DEF Longer
  <2> QED
    BY <1>2, <1>3
<1>5. G(kept)
  <2> HIDE DEF G
  <2> QED
    BY <1>4
<1>6. Where(s, wanted) = kept[n]
  BY DEF Where
<1>7. \A k \in 0..n : kept[k] = f[k]
  <2> DEFINE T == {k \in 0..n : kept[k] = f[k]}
  <2>1. 0 \in T
    <3> HIDE DEF Longer, kept
    <3> QED
      BY <1>5, <1>2
  <2>2. ASSUME NEW k \in 1..n, k - 1 \in T PROVE k \in T
    <3>1. kept[k] = Longer(k, kept[k - 1])
      <4> HIDE DEF Longer, kept
      <4> QED
        BY <1>5
    <3> HIDE DEF Longer, kept
    <3> QED
      BY <3>1, <1>3, <2>2
  <2>3. 0..n \subseteq T
    <3>1. n \in Nat
      OBVIOUS
    <3> HIDE DEF T, n
    <3> QED
      BY <2>1, <2>2, <3>1, Induction
  <2> QED
    BY <2>3
<1>8. kept = f
  <2>1. kept = [k \in 0..n |-> kept[k]]
    <3> HIDE DEF Longer, kept
    <3> QED
      BY <1>5
  <2>2. f = [k \in 0..n |-> f[k]]
    OBVIOUS
  <2> HIDE DEF kept
  <2> QED
    BY <1>7, <2>1, <2>2
<1> QED
  <2> HIDE DEF kept
  <2> QED
    BY <1>2, <1>3, <1>6, <1>8

\* g says where in s, of which k elements have been looked at, those of w stand.
Picks(g, w, s, wanted, k) ==
    /\ \A j \in 1..Len(w) : w[j] = s[g[j]] /\ w[j] \in wanted
    /\ \A i, j \in 1..Len(w) : i < j => g[i] < g[j]
    /\ \A i \in 1..k : s[i] \in wanted => \E j \in 1..Len(w) : g[j] = i

LEMMA WherePicks ==
    ASSUME NEW S, NEW s \in Seq(S), NEW wanted
    PROVE  \E g \in [1..Len(Where(s, wanted)) -> 1..Len(s)] : Picks(g, Where(s, wanted), s, wanted, Len(s))
<1> DEFINE n == Len(s)
<1>0. PICK kept \in [0..n -> Seq(S)] : Keeps(kept, s, wanted) /\ Where(s, wanted) = kept[n]
  BY WhereKept
<1>1. /\ Where(s, wanted) = kept[n]
      /\ kept[0] = << >>
      /\ \A k \in 1..n : kept[k] = IF s[k] \in wanted THEN Append(kept[k - 1], s[k]) ELSE kept[k - 1]
  BY <1>0 DEF Keeps
<1> DEFINE T == {k \in 0..n : \E g \in [1..Len(kept[k]) -> 1..k] : Picks(g, kept[k], s, wanted, k)}
<1>2. 0 \in T
  <2> DEFINE g == [j \in 1..0 |-> 0]
  <2>1. g \in [1..Len(kept[0]) -> 1..0] /\ Picks(g, kept[0], s, wanted, 0)
    BY <1>1 DEF Picks
  <2> QED
    BY <2>1
<1>3. ASSUME NEW k \in 1..n, k - 1 \in T PROVE k \in T
  <2>1. PICK g \in [1..Len(kept[k - 1]) -> 1..(k - 1)] : Picks(g, kept[k - 1], s, wanted, k - 1)
    BY <1>3
  <2> DEFINE w == kept[k - 1]
             m == Len(w)
  <2>2. w \in Seq(S) /\ m \in Nat
    BY <1>3
  <2>3. CASE s[k] \in wanted
    <3> DEFINE h == [j \in 1..(m + 1) |-> IF j = m + 1 THEN k ELSE g[j]]
               v == Append(w, s[k])
    <3>1. kept[k] = v
      BY <1>1, <2>3
    <3>2. Len(v) = m + 1 /\ v[m + 1] = s[k] /\ \A j \in 1..m : v[j] = w[j]
      BY <2>2
    <3>3. h \in [1..(m + 1) -> 1..k] /\ h[m + 1] = k /\ \A j \in 1..m : h[j] = g[j] /\ g[j] < k
      <4>1. \A j \in 1..m : g[j] \in 1..(k - 1)
        BY <2>1
      <4> HIDE DEF w, m
      <4> QED
        BY <4>1, <2>2
    <3> HIDE DEF h, v
    <3>4. \A j \in 1..(m + 1) : v[j] = s[h[j]] /\ v[j] \in wanted
      BY <2>1, <2>2, <2>3, <3>2, <3>3 DEF Picks
    <3>5. \A i, j \in 1..(m + 1) : i < j => h[i] < h[j]
      <4> TAKE i, j \in 1..(m + 1)
      <4> HAVE i < j
      <4>1. i \in 1..m
        BY <2>2
      <4>2. CASE j = m + 1
        BY <4>1, <4>2, <3>3, <2>2
      <4>3. CASE j # m + 1
        <5>1. j \in 1..m
          <6> HIDE DEF w, m
          <6> QED
            BY <4>3, <2>2
        <5> QED
          <6>1. g[i] < g[j]
            BY <5>1, <4>1, <2>1 DEF Picks
          <6>2. h[i] = g[i] /\ h[j] = g[j]
            BY <5>1, <4>1, <3>3
          <6> QED
            BY <6>1, <6>2
      <4> QED
        BY <4>2, <4>3
    <3>6. \A i \in 1..k : s[i] \in wanted => \E j \in 1..(m + 1) : h[j] = i
      <4> TAKE i \in 1..k
      <4> HAVE s[i] \in wanted
      <4>1. CASE i = k
        BY <4>1, <3>3, <2>2
      <4>2. CASE i # k
        <5>1. PICK j \in 1..m : g[j] = i
          BY <4>2, <2>1 DEF Picks
        <5> QED
          BY <5>1, <3>3, <2>2
      <4> QED
        BY <4>1, <4>2
    <3>7. Picks(h, v, s, wanted, k)
      BY <3>2, <3>4, <3>5, <3>6 DEF Picks
    <3> QED
      BY <3>1, <3>2, <3>3, <3>7
  <2>4. CASE s[k] \notin wanted
    <3>1. kept[k] = w
      BY <1>1, <2>4
    <3>2. g \in [1..m -> 1..k]
      BY <2>1, <2>2
    <3>3. Picks(g, w, s, wanted, k)
      <4>1. \A i \in 1..k : s[i] \in wanted => i \in 1..(k - 1)
        BY <2>4
      <4> HIDE DEF w
      <4> QED
        BY <2>1, <4>1 DEF Picks, w
    <3> QED
      BY <3>1, <3>2, <3>3
  <2> QED
    BY <2>3, <2>4
<1>4. n \in T
  <2>1. n \in Nat
    OBVIOUS
  <2>2. 0..n \subseteq T
    <3> HIDE DEF T, n
    <3> QED
      BY <1>2, <1>3, <2>1, Induction
  <2> QED
    BY <2>1, <2>2
<1> QED
  BY <1>1, <1>4

LEMMA WhereElements ==
    ASSUME NEW S, NEW s \in Seq(S), NEW wanted
    PROVE  Where(s, wanted) \in Seq(S) /\ Of(Where(s, wanted)) = Of(s) \cap wanted
<1> DEFINE w == Where(s, wanted)
<1>1. w \in Seq(S)
  <2>1. PICK kept \in [0..Len(s) -> Seq(S)] : Where(s, wanted) = kept[Len(s)]
    BY WhereKept
  <2> QED
    BY <2>1
<1>2. PICK g \in [1..Len(w) -> 1..Len(s)] : Picks(g, w, s, wanted, Len(s))
  BY WherePicks
<1> HIDE DEF w
<1>3. ASSUME NEW x \in Of(w) PROVE x \in Of(s) \cap wanted
  <2>1. PICK j \in 1..Len(w) : x = w[j]
    BY <1>1, <1>3 DEF Of
  <2>2. w[j] = s[g[j]] /\ w[j] \in wanted
    BY <1>2, <2>1 DEF Picks
  <2> QED
    BY <2>1, <2>2 DEF Of
<1>4. ASSUME NEW x \in Of(s) \cap wanted PROVE x \in Of(w)
  <2>1. PICK k \in 1..Len(s) : x = s[k]
    BY <1>4 DEF Of
  <2>2. PICK j \in 1..Len(w) : g[j] = k
    BY <1>2, <1>4, <2>1 DEF Picks
  <2>3. w[j] = s[k]
    BY <1>2, <2>2 DEF Picks
  <2> QED
    BY <1>1, <2>1, <2>2, <2>3 DEF Of
<1> QED
  BY <1>1, <1>3, <1>4 DEF w

LEMMA OfEmpty == ASSUME NEW S, NEW s \in Seq(S) PROVE Of(s) = {} <=> s = << >>
BY DEF Of

LEMMA WhereDistinct ==
    ASSUME NEW S, NEW s \in Seq(S), NEW wanted, DistinctIds(s)
    PROVE  DistinctIds(Where(s, wanted))
<1> DEFINE w == Where(s, wanted)
<1>1. w \in Seq(S)
  BY WhereElements
<1>2. PICK g \in [1..Len(w) -> 1..Len(s)] : Picks(g, w, s, wanted, Len(s))
  BY WherePicks
<1> HIDE DEF w
<1>3. ASSUME NEW j \in 1..Len(w), NEW k \in 1..Len(w), w[j].id = w[k].id PROVE j = k
  <2>1. w[j] = s[g[j]] /\ w[k] = s[g[k]] /\ g[j] \in 1..Len(s) /\ g[k] \in 1..Len(s)
    BY <1>2 DEF Picks
  <2>2. g[j] = g[k]
    BY <2>1, <1>3 DEF DistinctIds
  <2>3. (j < k => g[j] < g[k]) /\ (k < j => g[k] < g[j])
    BY <1>2 DEF Picks
  <2>4. j \in Int /\ k \in Int /\ g[j] \in Int
    BY <1>1, <2>1
  <2> QED
    BY <2>2, <2>3, <2>4
<1> QED
  BY <1>3 DEF DistinctIds, w

LEMMA WhereOne ==
    ASSUME NEW S, NEW s \in Seq(S), NEW wanted, DistinctIds(s), NEW e, Of(s) \cap wanted = {e}
    PROVE  Where(s, wanted) = <<e>>
<1> DEFINE w == Where(s, wanted)
<1>1. w \in Seq(S) /\ Of(w) = {e} /\ DistinctIds(w)
  BY WhereElements, WhereDistinct
<1> HIDE DEF w
<1>2. \A j \in 1..Len(w) : w[j] = e
  BY <1>1 DEF Of
<1>3. \A j, k \in 1..Len(w) : j = k
  BY <1>1, <1>2 DEF DistinctIds
<1>4. Len(w) \in Nat /\ \E j \in 1..Len(w) : w[j] = e
  BY <1>1 DEF Of
<1>5. Len(w) = 1
  <2>1. CASE Len(w) >= 2
    <3>1. 1 \in 1..Len(w) /\ 2 \in 1..Len(w)
      BY <1>4, <2>1
    <3> QED
      BY <1>3, <3>1
  <2>2. PICK j \in 1..Len(w) : w[j] = e
    BY <1>4
  <2>3. Len(w) >= 1
    BY <1>4, <2>2
  <2> QED
    BY <1>4, <2>1, <2>3
<1>6. w = <<e>>
  BY <1>1, <1>2, <1>5
<1> QED
  BY <1>6 DEF w

LEMMA MinOf == ASSUME NEW a \in Int, NEW b \in Int PROVE Min({a, b}) = IF a <= b THEN a ELSE b
<1> DEFINE m == IF a <= b THEN a ELSE b
<1>1. m \in {a, b} /\ \A y \in {a, b} : m <= y
  OBVIOUS
<1>2. \A x \in {a, b} : (\A y \in {a, b} : x <= y) => x = m
  OBVIOUS
<1> QED
  BY <1>1, <1>2 DEF Min

LEMMA MaxOf == ASSUME NEW a \in Int, NEW b \in Int PROVE Max({a, b}) = IF a >= b THEN a ELSE b
<1> DEFINE m == IF a >= b THEN a ELSE b
<1>1. m \in {a, b} /\ \A y \in {a, b} : m >= y
  OBVIOUS
<1>2. \A x \in {a, b} : (\A y \in {a, b} : x >= y) => x = m
  OBVIOUS
<1> QED
  BY <1>1, <1>2 DEF Max

LEMMA FirstOfSeq ==
    ASSUME NEW S, NEW s \in Seq(S), NEW n \in Nat
    PROVE  /\ FirstOf(s, n) \in Seq(S)
           /\ Len(FirstOf(s, n)) = IF n <= Len(s) THEN n ELSE Len(s)
           /\ \A k \in 1..Len(FirstOf(s, n)) : FirstOf(s, n)[k] = s[k]
           /\ n >= Len(s) => FirstOf(s, n) = s
           /\ Of(FirstOf(s, n)) \subseteq Of(s)
<1> DEFINE m == IF n <= Len(s) THEN n ELSE Len(s)
           f == SubSeq(s, 1, m)
<1>1. FirstOf(s, n) = f
  BY MinOf DEF FirstOf
<1>2. m \in 0..Len(s)
  OBVIOUS
<1> HIDE DEF m
<1>3. f \in Seq(S) /\ Len(f) = m /\ \A k \in 1..m : f[k] = s[k]
  BY <1>2
<1>4. m = Len(s) => f = s
  BY <1>3
<1> HIDE DEF f
<1>5. Of(f) \subseteq Of(s)
  BY <1>2, <1>3 DEF Of
<1> QED
  BY <1>1, <1>2, <1>3, <1>4, <1>5 DEF m

LEMMA FirstOfFirst ==
    ASSUME NEW S, NEW s \in Seq(S), NEW m \in Nat, NEW n \in Nat, m <= n
    PROVE  FirstOf(FirstOf(s, m), n) = FirstOf(s, m)
<1>1. FirstOf(s, m) \in Seq(S) /\ Len(FirstOf(s, m)) <= n
  BY FirstOfSeq
<1> QED
  BY <1>1, FirstOfSeq

-----------------------------------------------------------------------------
(* The stores.                                                              *)

Shelved(s) == s \in Seq(Entries) /\ DistinctIds(s)
StoreOK(s, l) == Shelved(s) /\ l \in SUBSET Edges /\ Joins(l, s)
StoresOK ==
    /\ shelf \in [Stores -> Seq(Entries)] /\ links \in [Stores -> SUBSET Edges]
    /\ \A st \in Stores : StoreOK(shelf[st], links[st])

LEMMA WithoutKeeps ==
    ASSUME NEW s, Shelved(s), NEW i
    PROVE  Shelved(Without(s, i)) /\ Of(Without(s, i)) = {e \in Of(s) : e.id # i}
<1>1. s \in Seq(Entries) /\ DistinctIds(s)
  BY DEF Shelved
<1>2. Of(Without(s, i)) = Of(s) \cap {e \in Of(s) : e.id # i}
  BY <1>1, WhereElements DEF Without
<1> QED
  BY <1>1, <1>2, WhereElements, WhereDistinct DEF Without, Shelved

LEMMA ConsKeeps ==
    ASSUME NEW s, Shelved(s), NEW x \in Entries, x.id \notin IdsOf(s)
    PROVE  Shelved(<<x>> \o s) /\ Of(<<x>> \o s) = {x} \cup Of(s)
<1> DEFINE t == <<x>> \o s
<1>1. s \in Seq(Entries) /\ Len(s) \in Nat
  BY DEF Shelved
<1>2. t \in Seq(Entries) /\ Len(t) = Len(s) + 1 /\ t[1] = x /\ \A k \in 1..Len(s) : t[k + 1] = s[k]
  BY <1>1
<1> HIDE DEF t
<1>3. ASSUME NEW k \in 1..Len(t), k # 1 PROVE k - 1 \in 1..Len(s) /\ t[k] = s[k - 1]
  <2>1. k - 1 \in 1..Len(s)
    BY <1>1, <1>2, <1>3
  <2>2. t[(k - 1) + 1] = s[k - 1]
    BY <1>2, <2>1
  <2> QED
    BY <2>1, <2>2
<1>4. \A k \in 1..Len(s) : s[k] \in Of(s) /\ s[k].id # x.id
  BY <1>1 DEF Of, IdsOf
<1>5. DistinctIds(t)
  <2> SUFFICES ASSUME NEW j \in 1..Len(t), NEW k \in 1..Len(t), t[j].id = t[k].id PROVE j = k
    BY DEF DistinctIds
  <2>1. CASE j = 1 \/ k = 1
    BY <2>1, <1>2, <1>3, <1>4
  <2>2. CASE j # 1 /\ k # 1
    <3>1. j - 1 = k - 1
      BY <2>2, <1>3 DEF Shelved, DistinctIds
    <3> QED
      BY <3>1, <1>1, <1>2
  <2> QED
    BY <2>1, <2>2
<1>6. Of(t) = {x} \cup Of(s)
  <2>1. ASSUME NEW y \in Of(t) PROVE y \in {x} \cup Of(s)
    <3>1. PICK k \in 1..Len(t) : y = t[k]
      BY <2>1, <1>2 DEF Of
    <3> QED
      BY <3>1, <1>2, <1>3, <1>4
  <2>2. ASSUME NEW y \in Of(s) PROVE y \in Of(t)
    <3>1. PICK k \in 1..Len(s) : y = s[k]
      BY <2>2, <1>1 DEF Of
    <3>2. k + 1 \in 1..Len(t) /\ t[k + 1] = y
      BY <3>1, <1>1, <1>2
    <3> QED
      BY <3>2, <1>2 DEF Of
  <2>3. x \in Of(t)
    <3>1. 1 \in 1..Len(t)
      BY <1>1, <1>2
    <3> QED
      BY <3>1, <1>2 DEF Of
  <2> QED
    BY <2>1, <2>2, <2>3
<1> QED
  BY <1>2, <1>5, <1>6 DEF Shelved, t

LEMMA PutKeeps ==
    ASSUME NEW s, NEW l, StoreOK(s, l), NEW i \in Ids, NEW m, m \in Saying({None}) \cup Entries
    PROVE  StoreOK(<<Entry(i, m)>> \o Without(s, i), l) /\ i \in IdsOf(<<Entry(i, m)>> \o Without(s, i))
<1> DEFINE x == Entry(i, m)
           w == Without(s, i)
<1>1. x \in Entries /\ x.id = i
  BY DEF Entry, Entries, Saying
<1>2. Shelved(w) /\ Of(w) = {e \in Of(s) : e.id # i}
  BY WithoutKeeps DEF StoreOK
<1> HIDE DEF x, w
<1>3. x.id \notin IdsOf(w)
  BY <1>1, <1>2 DEF IdsOf
<1>4. Shelved(<<x>> \o w) /\ Of(<<x>> \o w) = {x} \cup Of(w)
  BY <1>1, <1>2, <1>3, ConsKeeps
<1>5. IdsOf(s) \subseteq IdsOf(<<x>> \o w)
  BY <1>1, <1>2, <1>4 DEF IdsOf
<1>6. i \in IdsOf(<<x>> \o w)
  BY <1>1, <1>4 DEF IdsOf
<1> QED
  BY <1>4, <1>5, <1>6 DEF StoreOK, Joins, x, w

\* The edges that are left when a memory goes.
Rest(l, i) == {e \in l : i \notin {e.src, e.tgt}}

LEMMA DropKeeps ==
    ASSUME NEW s, NEW l, StoreOK(s, l), NEW i
    PROVE  StoreOK(Without(s, i), Rest(l, i))
<1>1. Shelved(Without(s, i)) /\ Of(Without(s, i)) = {e \in Of(s) : e.id # i}
  BY WithoutKeeps DEF StoreOK
<1>2. \A j \in IdsOf(s) : j # i => j \in IdsOf(Without(s, i))
  BY <1>1 DEF IdsOf
<1> QED
  BY <1>1, <1>2 DEF StoreOK, Joins, Rest

LEMMA WriteKeeps ==
    ASSUME StoresOK, NEW st \in Stores, NEW s, NEW l, StoreOK(s, l),
           shelf' = [shelf EXCEPT ![st] = s], links' = [links EXCEPT ![st] = l]
    PROVE  StoresOK'
<1>1. s \in Seq(Entries) /\ l \in SUBSET Edges
  BY DEF StoreOK, Shelved
<1>2. shelf' \in [Stores -> Seq(Entries)] /\ links' \in [Stores -> SUBSET Edges]
  BY <1>1 DEF StoresOK
<1>3. ASSUME NEW r \in Stores PROVE StoreOK(shelf'[r], links'[r])
  <2>1. CASE r = st
    BY <2>1 DEF StoresOK
  <2>2. CASE r # st
    BY <2>2 DEF StoresOK
  <2> QED
    BY <2>1, <2>2
<1> QED
  BY <1>2, <1>3 DEF StoresOK

\* What is found by its id.
LEMMA Found ==
    ASSUME NEW s, Shelved(s), NEW i
    PROVE  /\ RecallById(s, i) # << >> <=> i \in IdsOf(s)
           /\ \A e \in Of(s) : e.id = i => RecallById(s, i) = <<e>>
           /\ RecallById(s, i) # << >> => RecallById(s, i)[1] \in Entries
<1> DEFINE w == RecallById(s, i)
<1>1. s \in Seq(Entries) /\ DistinctIds(s)
  BY DEF Shelved
<1>2. w \in Seq(Entries) /\ Of(w) = Of(s) \cap {e \in Of(s) : e.id = i}
  BY <1>1, WhereElements DEF RecallById
<1>3. \A e \in Of(s), f \in Of(s) : e.id = f.id => e = f
  BY <1>1 DEF Of, DistinctIds
<1>4. ASSUME NEW e \in Of(s), e.id = i PROVE w = <<e>>
  <2>1. Of(s) \cap {f \in Of(s) : f.id = i} = {e}
    BY <1>3, <1>4
  <2> QED
    BY <1>1, <2>1, WhereOne DEF RecallById
<1> HIDE DEF w
<1>5. w # << >> <=> i \in IdsOf(s)
  BY <1>2, OfEmpty DEF IdsOf
<1>6. w # << >> => w[1] \in Entries
  BY <1>2
<1> QED
  BY <1>4, <1>5, <1>6 DEF w

-----------------------------------------------------------------------------
(* What the actions do to the stores.                                       *)

Calls == [op : {"none", "store", "patch", "tag", "delete", "link", "wipe", "import"},
          surface : {"none", "mcp", "stdio", "rest", "cli"}, id : Ids \cup {None},
          home : Stores \cup {"none"}, memo : Memos \cup {None}, pc : {"idle", "act", "reread", "notify"}]

Writes(q) ==
    /\ q.op \in {"patch", "tag", "delete"} /\ q.home \in Stores /\ q.id \in Ids
    /\ q.op # "delete" => q.memo \in Memos

CallsOK == call \in [Clients -> Calls] /\ \A c \in Clients : call[c].pc = "act" => Writes(call[c])

IInv == StoresOK /\ CallsOK /\ events \in Nat

Disturbed == StoresOK' /\ session' = [session EXCEPT !.quiet = FALSE]
Left == UNCHANGED <<store, org>> /\ session' \in {session, IdleSession}

\* That something will still come that makes the dashboard read the lists:
\* an event, a poll, or a handler that has its event before it.
There(q) == RecallById(IF q.home = "org" THEN Org ELSE shelf["primary"], q.id) # << >>
Signals ==
    \/ events > 0 \/ (moved /\ polled)
    \/ \E c \in Clients : call[c].pc = "notify" \/ (call[c].pc = "reread" /\ There(call[c]))

\* A change that the dashboard is told of, or is not, and no change.
Heard ==
    \E st \in Stores : \E s, l, surface, op : Write(st, s, l, surface, op) /\ (Told(surface, op, st) => Signals')
Silent ==
    /\ UNCHANGED <<store, org, view, tab, screen, fetches, missed>>
    /\ tab = "open" /\ Signals => Signals'
    /\ events' \in Nat /\ (tab # "open" => events' = events)

LEMMA Hears ==
    ASSUME IInv, NEW c \in Clients, NEW q \in Calls, NEW st \in Stores, NEW s, NEW l, After(c, q),
           Write(st, s, l, q.surface, q.op),
           q.op \in {"patch", "tag"} => q.home = st /\ (st = "org" => org = "up") /\ StoreOK(s, l) /\ q.id \in IdsOf(s)
    PROVE  Heard
<1> SUFFICES ASSUME Told(q.surface, q.op, st) PROVE Signals'
  BY DEF Heard
<1>1. /\ shelf' = [shelf EXCEPT ![st] = s] /\ org' = org /\ polled' = polled
      /\ moved' = (moved \/ (st = "primary" /\ q.surface \in Foreign))
  BY DEF Write, dash
<1>2. CASE q.surface \in Foreign
  BY <1>1, <1>2 DEF Told, Signals
<1>3. CASE q.surface \in {"mcp", "rest"} /\ q.op # "import"
  <2> DEFINE told == [IdleCall EXCEPT !.pc = "notify", !.op = q.op, !.surface = q.surface]
             back == [q EXCEPT !.pc = "reread", !.memo = None]
  <2>1. call' = [call EXCEPT ![c] = IF q.surface = "rest" /\ q.op \in {"patch", "tag"} THEN back ELSE told]
    BY <1>3 DEF After, Foreign
  <2>2. told.pc = "notify" /\ back.pc = "reread" /\ back.home = q.home /\ back.id = q.id
    BY DEF Calls, IdleCall
  <2> HIDE DEF told, back
  <2>3. call'[c] = IF q.surface = "rest" /\ q.op \in {"patch", "tag"} THEN back ELSE told
    BY <2>1 DEF IInv, CallsOK
  <2>4. CASE q.surface = "rest" /\ q.op \in {"patch", "tag"}
    <3>1. (IF q.home = "org" THEN Org ELSE shelf["primary"])' = s
      <4>1. shelf'[st] = s
        BY <1>1 DEF IInv, StoresOK
      <4> QED
        BY <1>1, <2>4, <4>1 DEF Org, Stores
    <3>2. RecallById(s, q.id) # << >>
      BY <2>4, Found DEF StoreOK
    <3>3. There(back)'
      BY <2>2, <3>1, <3>2 DEF There
    <3> QED
      BY <2>2, <2>3, <2>4, <3>3 DEF Signals
  <2>5. CASE ~(q.surface = "rest" /\ q.op \in {"patch", "tag"})
    BY <2>2, <2>3, <2>5 DEF Signals
  <2> QED
    BY <2>4, <2>5
<1> QED
  BY <1>2, <1>3 DEF Told, Foreign


LEMMA Asking ==
    ASSUME NEW surface \in {"mcp", "stdio", "rest", "cli"}, NEW i \in Ids \cup {None}, NEW st \in Stores \cup {"none"},
           NEW m \in Memos \cup {None}, NEW op \in {"store", "patch", "tag", "delete", "link", "wipe", "import"}
    PROVE  Asked(surface, op, i, st, m, "act") \in Calls
BY DEF Asked, Calls

LEMMA Telling ==
    ASSUME NEW q \in Calls
    PROVE  LET r == [IdleCall EXCEPT !.pc = "notify", !.op = q.op, !.surface = q.surface]
           IN r \in Calls /\ r.pc = "notify"
BY DEF Calls, IdleCall

LEMMA Finished ==
    ASSUME CallsOK, NEW c \in Clients, NEW q \in Calls, After(c, q)
    PROVE  CallsOK'
<1> DEFINE r == IF q.surface \in Foreign \/ q.op = "import" THEN IdleCall
                ELSE IF q.surface = "rest" /\ q.op \in {"patch", "tag"} THEN [q EXCEPT !.pc = "reread", !.memo = None]
                ELSE [IdleCall EXCEPT !.pc = "notify", !.op = q.op, !.surface = q.surface]
<1>1. r \in Calls /\ r.pc # "act"
  BY DEF Calls, IdleCall
<1>2. call' = [call EXCEPT ![c] = r]
  BY DEF After
<1> HIDE DEF r
<1> QED
  BY <1>1, <1>2 DEF CallsOK

\* The same of a request that is no patch and no tag change.
LEMMA HearsAsked ==
    ASSUME IInv, NEW c \in Clients, NEW surface, NEW op, op \notin {"patch", "tag"}, NEW i, NEW home, NEW m,
           Asked(surface, op, i, home, m, "act") \in Calls, After(c, Asked(surface, op, i, home, m, "act")),
           NEW st \in Stores, NEW s, NEW l, Write(st, s, l, surface, op)
    PROVE  Heard
<1> DEFINE q == Asked(surface, op, i, home, m, "act")
<1>1. q.surface = surface /\ q.op = op /\ q \in Calls /\ After(c, q)
  BY DEF Asked
<1> HIDE DEF q
<1>2. Write(st, s, l, q.surface, q.op) /\ q.op \notin {"patch", "tag"}
  BY <1>1
<1> QED
  BY <1>1, <1>2, Hears

LEMMA Written ==
    ASSUME StoresOK, NEW st \in Stores, NEW s, NEW l, StoreOK(s, l), NEW surface, NEW op, Write(st, s, l, surface, op)
    PROVE  Disturbed
<1>1. StoresOK'
  BY WriteKeeps DEF Write
<1> QED
  BY <1>1 DEF Write, Unheard, Disturbed

LEMMA Said ==
    ASSUME StoresOK, NEW st \in Stores, NEW i \in Ids, NEW m \in Saying({None}) \cup Entries, NEW surface, NEW op,
           Put(st, i, m, surface, op)
    PROVE  Disturbed
<1>1. StoreOK(shelf[st], links[st])
  BY DEF StoresOK
<1>2. StoreOK(<<Entry(i, m)>> \o Without(shelf[st], i), links[st])
  BY <1>1, PutKeeps
<1> QED
  BY <1>2, Written DEF Put

LEMMA Dropped ==
    ASSUME StoresOK, NEW st \in Stores, NEW i, NEW surface, NEW op,
           Write(st, Without(shelf[st], i), Rest(links[st], i), surface, op)
    PROVE  Disturbed
<1>1. StoreOK(shelf[st], links[st])
  BY DEF StoresOK
<1>2. StoreOK(Without(shelf[st], i), Rest(links[st], i))
  BY <1>1, DropKeeps
<1> QED
  BY <1>2, Written

\* What becomes of a call that was no signal.
LEMMA OthersSignal ==
    ASSUME IInv, NEW c \in Clients, NEW r, call' = [call EXCEPT ![c] = r],
           call[c].pc # "notify", call[c].pc = "reread" => ~There(call[c]) \/ r.pc = "notify",
           UNCHANGED <<store, org, view, tab, fetches, moved, dash, missed>>
    PROVE  Silent
<1>1. UNCHANGED <<shelf, links, org, view, tab, screen, fetches, events, moved, polled, missed>>
  BY DEF store, dash
<1>2. \A q : There(q)' = There(q)
  BY <1>1 DEF There, Org
<1>3. ASSUME Signals PROVE Signals'
  <2>1. CASE events > 0 \/ (moved /\ polled)
    BY <1>1, <2>1 DEF Signals
  <2>2. CASE \E d \in Clients : call[d].pc = "notify" \/ (call[d].pc = "reread" /\ There(call[d]))
    <3>1. PICK d \in Clients : call[d].pc = "notify" \/ (call[d].pc = "reread" /\ There(call[d]))
      BY <2>2
    <3>2. CASE d = c
      <4>1. r.pc = "notify" /\ call'[c] = r
        BY <3>1, <3>2 DEF IInv, CallsOK
      <4> QED
        BY <4>1 DEF Signals
    <3>3. CASE d # c
      <4>1. call'[d] = call[d]
        BY <3>3 DEF IInv, CallsOK
      <4> QED
        BY <1>2, <3>1, <4>1 DEF Signals
    <3> QED
      BY <3>2, <3>3
  <2> QED
    BY <1>3, <2>1, <2>2 DEF Signals
<1> QED
  BY <1>1, <1>3 DEF Silent, store, IInv

LEMMA Eventful ==
    ASSUME IInv, events' = events + 1
    PROVE  Signals'
BY DEF Signals, IInv

LEMMA Stored ==
    ASSUME IInv, NEW c \in Clients, NEW surface \in {"mcp", "stdio", "rest", "cli"}, NEW m \in Memos, StoreIn(c, surface, m)
    PROVE  Disturbed /\ Heard /\ CallsOK'
<1> DEFINE st == IF m.layer = "org" THEN "org" ELSE "primary"
<1>1. PICK i \in Ids : Put(st, i, m, surface, "store") /\ After(c, Asked(surface, "store", i, st, m, "act"))
  BY DEF StoreIn
<1>2. st \in Stores /\ m \in Saying({None})
  BY MemosAssumption DEF Stores
<1> HIDE DEF st
<1>3. Asked(surface, "store", i, st, m, "act") \in Calls
  BY <1>2, Asking
<1>4. Heard
  BY <1>1, <1>2, <1>3, HearsAsked DEF Put
<1> QED
  BY <1>1, <1>2, <1>3, <1>4, Said, Finished DEF IInv

LEMMA LookedUp ==
    ASSUME IInv, NEW c \in Clients, NEW surface \in {"mcp", "stdio", "rest", "cli"}, NEW op \in {"patch", "tag", "delete"},
           NEW i \in Ids, NEW m \in Memos \cup {None}, op # "delete" => m \in Memos, LookUp(c, surface, op, i, m)
    PROVE  Left /\ Silent /\ CallsOK'
<1> DEFINE q == Asked(surface, op, i, Owner(i), m, "act")
<1>1. Owner(i) \in Stores
  BY DEF LookUp, Owner, OwnerIn, Stores
<1>2. q \in Calls
  BY <1>1, Asking
<1>3. Writes(q)
  <2> HIDE DEF Owner
  <2> QED
    BY <1>1 DEF Asked, Writes
<1>4. call' = [call EXCEPT ![c] = q]
  BY DEF LookUp
<1> HIDE DEF q
<1>5. CallsOK'
  BY <1>2, <1>3, <1>4 DEF IInv, CallsOK
<1>6. Idle(c) /\ UNCHANGED <<store, org, view, tab, fetches, moved, dash, session, missed>>
  BY DEF LookUp
<1>7. Silent
  BY <1>4, <1>6, OthersSignal DEF Idle
<1> QED
  BY <1>5, <1>6, <1>7 DEF Left

LEMMA Linked ==
    ASSUME IInv, NEW c \in Clients, NEW surface \in {"mcp", "stdio", "rest", "cli"}, NEW i \in Ids, NEW j \in Ids,
           NEW status \in {"active", "pending", "rejected"}, LinkIn(c, surface, i, j, status)
    PROVE  Disturbed /\ Heard /\ CallsOK'
<1> DEFINE st == IF Has("primary", i) /\ Has("primary", j) THEN "primary" ELSE "org"
           e  == [src |-> i, tgt |-> j, status |-> status]
<1>1. /\ Has(st, i) /\ Has(st, j)
      /\ Write(st, shelf[st], links[st] \cup {e}, surface, "link")
      /\ After(c, Asked(surface, "link", None, st, None, "act"))
  BY DEF LinkIn
<1>2. st \in Stores /\ e \in Edges /\ e.src = i /\ e.tgt = j
  BY DEF Stores, Edges
<1> HIDE DEF st, e
<1>3. StoreOK(shelf[st], links[st])
  BY <1>2 DEF IInv, StoresOK
<1>4. i \in IdsOf(shelf[st]) /\ j \in IdsOf(shelf[st])
  BY <1>1, <1>3, Found DEF Has, StoreOK
<1>5. StoreOK(shelf[st], links[st] \cup {e})
  BY <1>2, <1>3, <1>4 DEF StoreOK, Joins
<1>6. Asked(surface, "link", None, st, None, "act") \in Calls
  BY <1>2, Asking
<1>7. Heard
  BY <1>1, <1>2, <1>6, HearsAsked
<1> QED
  BY <1>1, <1>2, <1>5, <1>6, <1>7, Written, Finished DEF IInv

LEMMA LinkChanged ==
    ASSUME IInv, NEW c \in Clients, NEW surface \in {"mcp", "stdio", "rest", "cli"}, NEW st \in Stores, NEW e,
           NEW status, status \in {"active", "pending", "rejected"} \/ status = e.status, ChangeLink(c, surface, st, e, status)
    PROVE  Disturbed /\ Heard /\ CallsOK'
<1> DEFINE d == [e EXCEPT !.status = status]
<1>1. /\ e \in links[st]
      /\ Write(st, shelf[st], (links[st] \ {e}) \cup {d}, surface, "link")
      /\ After(c, Asked(surface, "link", None, st, None, "act"))
  BY DEF ChangeLink
<1>2. StoreOK(shelf[st], links[st])
  BY DEF IInv, StoresOK
<1>3. e \in Edges
  BY <1>1, <1>2 DEF StoreOK
<1>4. d \in Edges /\ d.src = e.src /\ d.tgt = e.tgt
  BY <1>3 DEF Edges
<1> HIDE DEF d
<1>5. StoreOK(shelf[st], (links[st] \ {e}) \cup {d})
  BY <1>1, <1>2, <1>4 DEF StoreOK, Joins
<1>6. Asked(surface, "link", None, st, None, "act") \in Calls
  BY Asking
<1>7. Heard
  BY <1>1, <1>6, HearsAsked
<1> QED
  BY <1>1, <1>5, <1>6, <1>7, Written, Finished DEF IInv

LEMMA Wiped ==
    ASSUME IInv, NEW c \in Clients, NEW surface \in {"mcp", "stdio", "rest", "cli"}, Wipe(c, surface)
    PROVE  Disturbed /\ Heard /\ CallsOK'
<1>1. StoreOK(<< >>, {})
  BY DEF StoreOK, Shelved, DistinctIds, Joins
<1>2. Asked(surface, "wipe", None, "primary", None, "act") \in Calls
  BY Asking DEF Stores
<1>3. "primary" \in Stores
  BY DEF Stores
<1>4. Heard
  BY <1>2, <1>3, HearsAsked DEF Wipe
<1> QED
  BY <1>1, <1>2, <1>3, <1>4, Written, Finished DEF Wipe, IInv

LEMMA Imported ==
    ASSUME IInv, NEW c \in Clients, NEW surface \in {"mcp", "stdio", "rest", "cli"}, NEW i \in Ids, NEW m \in Memos,
           ImportInto(c, surface, i, m)
    PROVE  Disturbed /\ Heard /\ CallsOK'
<1>1. "primary" \in Stores /\ m \in Saying({None})
  BY MemosAssumption DEF Stores
<1>2. Asked(surface, "import", i, "primary", m, "act") \in Calls
  BY <1>1, Asking
<1>3. Heard
  BY <1>1, <1>2, HearsAsked DEF ImportInto, Put
<1> QED
  BY <1>1, <1>2, <1>3, Said, Finished DEF ImportInto, IInv

LEMMA Acted ==
    ASSUME IInv, NEW c \in Clients, Act(c)
    PROVE  ((Disturbed /\ Heard) \/ (Left /\ Silent)) /\ CallsOK'
<1> DEFINE q == call[c]
           st == q.home
           old == RecallById(shelf[st], q.id)
           patched == [q.memo EXCEPT !.layer = old[1].layer]
           tagged == [old[1] EXCEPT !.tags = q.memo.tags]
<1>1. q \in Calls /\ Writes(q)
  BY DEF IInv, CallsOK, Act
<1>2. Shelved(shelf[st])
  BY <1>1 DEF IInv, StoresOK, StoreOK, Writes
<1>3. CASE call' = [call EXCEPT ![c] = IdleCall] /\ UNCHANGED <<store, org, view, tab, fetches, moved, dash, session, typed, missed>>
  <2>1. IdleCall \in Calls /\ IdleCall.pc # "act"
    BY DEF IdleCall, Calls
  <2>2. call[c].pc = "act"
    BY DEF Act
  <2>3. Silent
    BY <1>3, <2>2, OthersSignal
  <2> QED
    BY <1>3, <2>1, <2>3 DEF IInv, CallsOK, Left
<1>4. CASE /\ old # << >> /\ ~(st = "org" /\ org # "up")
           /\ CASE q.op = "delete" -> Write(st, Without(shelf[st], q.id), Rest(links[st], q.id), q.surface, q.op)
                [] q.op = "patch" -> Put(st, q.id, patched, q.surface, q.op)
                [] q.op = "tag" -> Put(st, q.id, tagged, q.surface, q.op)
           /\ After(c, q)
  <2>1. old[1] \in Entries
    BY <1>2, <1>4, Found
  <2>2. q.memo \in Memos => patched \in Saying({None}) /\ tagged \in Entries
    <3>1. q.memo \in Memos => q.memo \in Saying({None})
      BY MemosAssumption
    <3> HIDE DEF q, old
    <3> QED
      BY <2>1, <3>1 DEF Entries, Saying
  <2>3. st \in Stores /\ q.id \in Ids /\ q.op \in {"patch", "tag", "delete"} /\ (q.op # "delete" => q.memo \in Memos)
    BY <1>1 DEF Writes
  <2> DEFINE entry == IF q.op = "patch" THEN patched ELSE tagged
             s == <<Entry(q.id, entry)>> \o Without(shelf[st], q.id)
  <2>7. StoreOK(shelf[st], links[st])
    BY <2>3 DEF IInv, StoresOK
  <2> HIDE DEF q, st, old, patched, tagged
  <2>8. CASE q.op \in {"patch", "tag"}
    <3>1. entry \in Saying({None}) \cup Entries
      BY <2>2, <2>3, <2>8
    <3>2. Put(st, q.id, entry, q.surface, q.op)
      BY <1>4, <2>8
    <3> HIDE DEF entry
    <3>3. Write(st, s, links[st], q.surface, q.op)
      BY <3>2 DEF Put
    <3>4. StoreOK(s, links[st]) /\ q.id \in IdsOf(s)
      BY <2>3, <2>7, <3>1, PutKeeps
    <3> HIDE DEF s
    <3>5. Heard
      BY <1>1, <1>4, <2>3, <3>3, <3>4, Hears DEF st
    <3> QED
      BY <1>1, <1>4, <2>3, <3>1, <3>2, <3>5, Said, Finished DEF IInv
  <2>9. CASE q.op = "delete"
    <3> DEFINE r == Without(shelf[st], q.id)
               l == Rest(links[st], q.id)
    <3>1. Write(st, r, l, q.surface, q.op)
      BY <1>4, <2>9
    <3> HIDE DEF r, l
    <3>2. Heard
      BY <1>1, <1>4, <2>3, <2>9, <3>1, Hears
    <3> QED
      BY <1>1, <1>4, <2>3, <3>1, <3>2, Dropped, Finished DEF IInv, r, l
  <2> QED
    BY <2>3, <2>8, <2>9
<1> QED
  BY <1>3, <1>4 DEF Act, Rest
LEMMA Began ==
    ASSUME IInv, NEW c \in Clients, Begins(c)
    PROVE  ((Disturbed /\ Heard) \/ (Left /\ Silent)) /\ CallsOK'
<1> USE DEF Mcp
<1>1. CASE McpStore(c) \/ RestCreate(c) \/ CliAdd(c)
  BY <1>1, Stored DEF McpStore, RestCreate, CliAdd
<1>2. CASE McpUpdate(c) \/ RestPatch(c) \/ CliEdit(c)
  BY <1>2, LookedUp DEF McpUpdate, RestPatch, CliEdit
<1>3. CASE RestAddTags(c) \/ RestRemoveTags(c) \/ CliTagAdd(c) \/ CliTagRemove(c)
  BY <1>3, LookedUp DEF RestAddTags, RestRemoveTags, CliTagAdd, CliTagRemove
<1>4. CASE McpDelete(c) \/ RestDelete(c) \/ CliRemove(c)
  BY <1>4, LookedUp DEF McpDelete, RestDelete, CliRemove
<1>5. CASE McpStoreEdge(c) \/ RestCreateEdge(c) \/ CliAddEdge(c)
  BY <1>5, Linked DEF McpStoreEdge, RestCreateEdge, CliAddEdge
<1>6. CASE McpUpdateEdge(c) \/ RestPatchEdge(c) \/ CliSetStatus(c)
  BY <1>6, LinkChanged DEF McpUpdateEdge, RestPatchEdge, CliSetStatus
<1>7. CASE RestDeleteAll(c) \/ CliWipe(c)
  BY <1>7, Wiped DEF RestDeleteAll, CliWipe
<1>8. CASE RestImport(c) \/ CliImport(c)
  BY <1>8, Imported DEF RestImport, CliImport
<1> QED
  BY <1>1, <1>2, <1>3, <1>4, <1>5, <1>6, <1>7, <1>8 DEF Begins

LEMMA Went ==
    ASSUME IInv, NEW c \in Clients, Go(c)
    PROVE  ((Disturbed /\ Heard) \/ (Left /\ Silent)) /\ CallsOK'
<1>1. CASE Act(c)
  BY <1>1, Acted
<1>2. CASE Reread(c)
  <2> DEFINE told == [IdleCall EXCEPT !.pc = "notify", !.op = call[c].op, !.surface = call[c].surface]
  <2>0. call[c] \in Calls
    BY DEF IInv, CallsOK
  <2> DEFINE r == IF There(call[c]) THEN told ELSE IdleCall
  <2>1. call' = [call EXCEPT ![c] = r]
    BY <1>2 DEF Reread, There
  <2>2. r \in Calls /\ r.pc # "act" /\ (There(call[c]) => r.pc = "notify")
    <3>1. IdleCall \in Calls /\ IdleCall.pc # "act"
      BY DEF Calls, IdleCall
    <3>2. told \in Calls /\ told.pc = "notify"
      BY <2>0, Telling
    <3> HIDE DEF told
    <3> QED
      BY <3>1, <3>2
  <2> HIDE DEF r
  <2>3. CallsOK'
    BY <2>1, <2>2 DEF IInv, CallsOK
  <2>4. call[c].pc = "reread" /\ UNCHANGED <<store, org, view, tab, fetches, moved, dash, session, missed>>
    BY <1>2 DEF Reread
  <2>5. Silent
    BY <2>1, <2>2, <2>4, OthersSignal
  <2> QED
    BY <2>3, <2>4, <2>5 DEF Left
<1>3. CASE Notify(c)
  <2>1. IdleCall \in Calls /\ IdleCall.pc # "act"
    BY DEF IdleCall, Calls
  <2>2. tab = "open" => Signals'
    BY <1>3, Eventful DEF Notify
  <2>3. Silent
    BY <1>3, <2>2 DEF Notify, Silent, IInv
  <2> QED
    BY <1>3, <2>1, <2>3 DEF Notify, IInv, CallsOK, Left
<1> QED
  BY <1>1, <1>2, <1>3 DEF Go

Stays == Disturbed \/ Left \/ (Sessions /\ UNCHANGED <<store, org>>)
Dashes ==
    \/ Heard \/ Silent \/ OrgTurns("up") \/ OrgTurns("down")
    \/ Poll \/ OpenTab \/ Connect \/ CloseTab \/ Deliver \/ Fetching \/ Restart

LEMMA Alike == ASSUME IInv, UNCHANGED <<store, org, call, view, tab, fetches, moved, dash, missed>> PROVE Silent
BY DEF Silent, Signals, There, Org, store, dash, IInv

LEMMA Events == ASSUME IInv, Heard \/ Silent PROVE events' \in Nat
BY DEF IInv, Heard, Silent, Write, dash

\* Each step writes a store as it should be and disturbs a session start,
\* or leaves the stores alone; and it tells the dashboard of a change, or
\* not, or is one of the dashboard's.
LEMMA Steps ==
    ASSUME IInv, Next
    PROVE  Stays /\ Dashes /\ IInv'
<1>0. Left => StoresOK'
  BY DEF Left, store, IInv, StoresOK
<1>1. ASSUME NEW c \in Clients, Begins(c) \/ Go(c) PROVE Stays /\ Dashes /\ IInv'
  <2>1. ((Disturbed /\ Heard) \/ (Left /\ Silent)) /\ CallsOK'
    BY <1>1, Began, Went
  <2> QED
    BY <1>0, <2>1, Events DEF Stays, Dashes, IInv, Disturbed
<1>2. ASSUME NEW i \in Ids, NEW m \in Memos, HiveApply(i, m) PROVE Stays /\ Dashes /\ IInv'
  <2>1. "primary" \in Stores /\ m \in Saying({None})
    BY MemosAssumption DEF Stores
  <2>2. Disturbed
    BY <1>2, <2>1, Said DEF HiveApply, IInv
  <2>3. Heard
    BY <1>2, <2>1 DEF HiveApply, Put, Heard, Told, Foreign
  <2>4. CallsOK'
    BY <1>2 DEF HiveApply, IInv, CallsOK
  <2> QED
    BY <2>2, <2>3, <2>4, Events DEF Stays, Dashes, IInv, Disturbed
<1>3. ASSUME NEW i \in Ids, HiveBury(i) PROVE Stays /\ Dashes /\ IInv'
  <2>1. "primary" \in Stores
    BY DEF Stores
  <2>2. Disturbed
    BY <1>3, <2>1, Dropped DEF HiveBury, Rest, IInv
  <2>3. Heard
    BY <1>3, <2>1 DEF HiveBury, Heard, Told, Foreign
  <2>4. CallsOK'
    BY <1>3 DEF HiveBury, IInv, CallsOK
  <2> QED
    BY <2>2, <2>3, <2>4, Events DEF Stays, Dashes, IInv, Disturbed
<1>4. CASE OrgTurns("up") \/ OrgTurns("down")
  BY <1>4 DEF OrgTurns, Unheard, Stays, Dashes, Disturbed, IInv, StoresOK, CallsOK, store, dash
<1>5. CASE Poll \/ OpenTab \/ Connect \/ CloseTab \/ Deliver \/ Fetching
  <2>1. SameWorld
    BY <1>5 DEF Poll, OpenTab, Connect, CloseTab, Deliver, Fetching, Read, Show
  <2>2. events' \in Nat
    <3>1. CASE Poll \/ Deliver
      BY <3>1 DEF IInv, Poll, Deliver
    <3>2. CASE OpenTab \/ Connect \/ CloseTab
      BY <3>2 DEF IInv, OpenTab, Connect, CloseTab, dash
    <3>3. CASE Fetching
      BY <3>3 DEF IInv, Fetching, Read, Show, dash
    <3> QED
      BY <1>5, <3>1, <3>2, <3>3
  <2> QED
    BY <1>5, <2>1, <2>2 DEF SameWorld, Stays, Dashes, Left, IInv, StoresOK, CallsOK, store
<1>6. CASE Restart
  <2>1. IdleCall \in Calls /\ IdleCall.pc # "act"
    BY DEF IdleCall, Calls
  <2>2. CallsOK'
    BY <1>6, <2>1 DEF Restart, IInv, CallsOK
  <2>3. Left
    BY <1>6 DEF Restart, Left
  <2> QED
    BY <1>0, <1>6, <2>2, <2>3 DEF Stays, Dashes, IInv, Restart
<1>7. CASE Sessions
  <2>1. SameRest
    BY <1>7 DEF Sessions, StartSession, StartCliSession, Preview, StartFrom, RecallNext, NextPass, EndPasses, EndSession
  <2>2. Silent
    BY <2>1, Alike DEF SameRest
  <2> QED
    BY <1>7, <2>1, <2>2, Events DEF SameRest, Stays, Dashes, IInv, StoresOK, CallsOK, store
<1>8. ASSUME NEW t \in Tokens, Type(t) PROVE Stays /\ Dashes /\ IInv'
  <2>1. Silent
    BY <1>8, Alike DEF Type
  <2> QED
    BY <1>8, <2>1, Events DEF Type, Stays, Dashes, Left, IInv, StoresOK, CallsOK, store
<1> QED
  BY <1>1, <1>2, <1>3, <1>4, <1>5, <1>6, <1>7, <1>8 DEF Next

LEMMA Begin ==
    ASSUME Init
    PROVE  IInv
<1>1. PICK f \in First : shelf = f.shelf /\ links = f.links
  BY DEF Init
<1>2. StoresOK
  BY <1>1, MemosAssumption DEF StoresOK, StoreOK, Shelved
<1>3. CallsOK
  BY DEF Init, CallsOK, IdleCall, Calls
<1> QED
  BY <1>2, <1>3 DEF IInv, Init

LEMMA Idles == ASSUME IInv, UNCHANGED vars PROVE IInv'
BY DEF IInv, StoresOK, CallsOK, vars, store, dash

(* Each store lists a memory once, under its id, and its edges join         *)
(* memories that it lists, whoever writes it and in whatever order: the     *)
(* routes of the surfaces, imports under ids that are brought along, what   *)
(* peers replicate, and requests that looked a memory up that has been      *)
(* deleted, or come anew, since.                                            *)
THEOREM StoresAreSound == Spec => []StoresOK
<1>1. Init => IInv
  BY Begin
<1>2. IInv /\ [Next]_vars => IInv'
  BY Steps, Idles
<1>3. IInv => StoresOK
  BY DEF IInv
<1> QED
  BY <1>1, <1>2, <1>3, PTL DEF Spec
-----------------------------------------------------------------------------
(* What the surfaces answer.                                                *)

LEMMA OfBoth ==
    ASSUME NEW S, NEW s \in Seq(S), NEW t \in Seq(S)
    PROVE  Of(s \o t) = Of(s) \cup Of(t)
<1> DEFINE b == s \o t
<1>1. /\ b \in Seq(S) /\ Len(s) \in Nat /\ Len(t) \in Nat /\ Len(b) = Len(s) + Len(t)
      /\ \A k \in 1..Len(b) : b[k] = IF k <= Len(s) THEN s[k] ELSE t[k - Len(s)]
  OBVIOUS
<1> HIDE DEF b
<1>2. ASSUME NEW x \in Of(b) PROVE x \in Of(s) \cup Of(t)
  <2>1. PICK k \in 1..Len(b) : x = b[k]
    BY <1>1, <1>2 DEF Of
  <2>2. k <= Len(s) => k \in 1..Len(s) /\ x = s[k]
    BY <1>1, <2>1
  <2>3. ~(k <= Len(s)) => k - Len(s) \in 1..Len(t) /\ x = t[k - Len(s)]
    BY <1>1, <2>1
  <2> QED
    BY <2>2, <2>3 DEF Of
<1>3. ASSUME NEW x \in Of(s) PROVE x \in Of(b)
  <2>1. PICK k \in 1..Len(s) : x = s[k]
    BY <1>3 DEF Of
  <2>2. k \in 1..Len(b) /\ b[k] = x
    BY <1>1, <2>1
  <2> QED
    BY <1>1, <2>2 DEF Of
<1>4. ASSUME NEW x \in Of(t) PROVE x \in Of(b)
  <2>1. PICK k \in 1..Len(t) : x = t[k]
    BY <1>4 DEF Of
  <2>2. k + Len(s) \in 1..Len(b) /\ ~(k + Len(s) <= Len(s)) /\ (k + Len(s)) - Len(s) = k
    BY <1>1, <2>1
  <2>3. b[k + Len(s)] = x
    BY <1>1, <2>1, <2>2
  <2> QED
    BY <1>1, <2>2, <2>3 DEF Of
<1> QED
  BY <1>2, <1>3, <1>4 DEF b

LEMMA Within == ASSUME NEW n \in Nat, NEW most \in Nat, 1 <= n, n <= most PROVE Clamped(n, most) = n
BY MinOf, MaxOf DEF Clamped

LEMMA OrgShelved == ASSUME StoresOK PROVE Shelved(shelf["primary"]) /\ Shelved(Org)
BY DEF StoresOK, StoreOK, Shelved, Stores, Org, DistinctIds

\* One store's answer, cut off once or twice.
LEMMA SearchCut ==
    ASSUME NEW s, Shelved(s), NEW t, NEW n \in Nat
    PROVE  /\ Search(s, t, n) \in Seq(Entries) /\ Len(Search(s, t, n)) <= n
           /\ FirstOf(Search(s, t, n), n) = Search(s, t, n)
           /\ Of(Search(s, t, n)) \subseteq Of(s)
<1> DEFINE w == Where(s, {e \in Of(s) : Of(t) \subseteq e.words})
<1>1. s \in Seq(Entries)
  BY DEF Shelved
<1>2. w \in Seq(Entries) /\ Of(w) \subseteq Of(s)
  BY <1>1, WhereElements
<1> HIDE DEF w
<1>3. FirstOf(w, n) \in Seq(Entries) /\ Len(FirstOf(w, n)) <= n /\ Of(FirstOf(w, n)) \subseteq Of(s)
  BY <1>2, FirstOfSeq
<1>4. FirstOf(FirstOf(w, n), n) = FirstOf(w, n)
  BY <1>2, FirstOfFirst
<1>5. << >> \in Seq(Entries) /\ Len(<< >>) = 0 /\ Of(<< >>) = {}
  BY DEF Of
<1>6. FirstOf(<< >>, n) = << >>
  <2>1. 0 <= n
    OBVIOUS
  <2>2. \A r \in Seq(Entries) : Len(r) <= n => FirstOf(r, n) = r
    BY FirstOfSeq
  <2> QED
    BY <1>5, <2>1, <2>2
<1> QED
  BY <1>3, <1>4, <1>5, <1>6 DEF Search, w

LEMMA FoundByTags ==
    ASSUME NEW s, Shelved(s), NEW expr
    PROVE  FindByTagExpr(s, expr) \in Seq(Entries) /\ Of(FindByTagExpr(s, expr)) \subseteq Of(s)
<1>1. s \in Seq(Entries)
  BY DEF Shelved
<1> QED
  BY <1>1, WhereElements DEF FindByTagExpr

LEMMA AskedByTags ==
    ASSUME NEW ts \in TagLists
    PROVE  /\ ts # << >> /\ And(ts) # << >> /\ LooksLikeTagExpr(And(ts))
           /\ \A s : Shelved(s) => FindByTagExpr(s, Parsed(And(ts)).expr) = FindByTagExpr(s, AllOf(ts))
<1>1. ts \in Seq(TagWords) /\ ts # << >>
  BY AsksAssumption
<1>2. Len(ts) \in Nat \ {0} /\ ts[1] \in TagWords
  BY <1>1
<1>3. 1 \in 1..(2 * Len(ts) - 1)
  BY <1>2
<1>4. Len(And(ts)) = 2 * Len(ts) - 1 /\ And(ts)[1] = ts[1]
  <2>1. 1 % 2 = 1 /\ (1 + 1) \div 2 = 1
    OBVIOUS
  <2> QED
    BY <1>2, <1>3, <2>1 DEF And
<1>5. At(And(ts), 1) \in TagWords
  BY <1>2, <1>4 DEF At
<1>6. ASSUME NEW s, Shelved(s) PROVE FindByTagExpr(s, Parsed(And(ts)).expr) = FindByTagExpr(s, AllOf(ts))
  <2>1. \A e \in Of(s) : e.tags \in Worlds
    <3>1. \A e \in Entries : e.tags \in Worlds
      BY DEF Entries, Saying
    <3>2. \A k \in 1..Len(s) : s[k] \in Entries
      BY <1>6 DEF Shelved
    <3>3. Of(s) \subseteq Entries
      BY <1>6, <3>2 DEF Shelved, Of
    <3> QED
      BY <3>1, <3>3
  <2>2. \A e \in Of(s) : Matches(Parsed(And(ts)).expr, e.tags) <=> Matches(AllOf(ts), e.tags)
    BY <2>1, AsksAssumption
  <2>3. {e \in Of(s) : Matches(Parsed(And(ts)).expr, e.tags)} = {e \in Of(s) : Matches(AllOf(ts), e.tags)}
    BY <2>2
  <2> QED
    BY <2>3 DEF FindByTagExpr
<1>7. And(ts) # << >>
  BY <1>2, <1>4
<1> QED
  BY <1>1, <1>5, <1>6, <1>7 DEF LooksLikeTagExpr

\* What is left of one store's hits and the next one's with room for n in all.
Cut(a, b, n) == IF Len(FirstOf(a, n)) < n THEN FirstOf(a, n) \o FirstOf(b, n - Len(FirstOf(a, n))) ELSE FirstOf(a, n)

LEMMA CutOfBoth ==
    ASSUME NEW S, NEW a \in Seq(S), NEW b \in Seq(S), NEW n \in Nat
    PROVE  Cut(a, b, n) = FirstOf(a \o b, n)
<1> DEFINE both == a \o b
           f == FirstOf(a, n)
           g == FirstOf(b, n - Len(f))
           h == FirstOf(both, n)
<1>1. /\ both \in Seq(S) /\ Len(a) \in Nat /\ Len(b) \in Nat /\ Len(both) = Len(a) + Len(b)
      /\ \A k \in 1..Len(both) : both[k] = IF k <= Len(a) THEN a[k] ELSE b[k - Len(a)]
  OBVIOUS
<1>2. /\ f \in Seq(S) /\ Len(f) = IF n <= Len(a) THEN n ELSE Len(a)
      /\ \A k \in 1..Len(f) : f[k] = a[k]
      /\ n >= Len(a) => f = a
  BY FirstOfSeq
<1> HIDE DEF both, f, h
<1>3. /\ h \in Seq(S) /\ Len(h) = IF n <= Len(both) THEN n ELSE Len(both)
      /\ \A k \in 1..Len(h) : h[k] = both[k]
  BY <1>1, FirstOfSeq DEF h
<1>4. CASE n <= Len(a)
  <2>1. Len(f) = n /\ ~(Len(f) < n) /\ Len(h) = n
    BY <1>1, <1>2, <1>3, <1>4
  <2>2. ASSUME NEW k \in 1..n PROVE f[k] = h[k]
    <3>1. k \in 1..Len(f) /\ k \in 1..Len(h) /\ k <= Len(a) /\ k \in 1..Len(both)
      BY <1>1, <1>4, <2>1
    <3>2. f[k] = a[k] /\ h[k] = both[k]
      BY <1>2, <1>3, <3>1
    <3>3. both[k] = a[k]
      BY <1>1, <3>1
    <3> QED
      BY <3>2, <3>3
  <2>3. f = h
    BY <1>2, <1>3, <2>1, <2>2
  <2> QED
    BY <2>1, <2>3 DEF Cut, f, h, both
<1>5. CASE n > Len(a)
  <2> DEFINE m == n - Len(a)
  <2>1. f = a /\ Len(f) < n /\ m \in Nat /\ n - Len(f) = m
    BY <1>1, <1>2, <1>5
  <2>2. /\ g \in Seq(S) /\ Len(g) = IF m <= Len(b) THEN m ELSE Len(b)
        /\ \A k \in 1..Len(g) : g[k] = b[k]
    <3> HIDE DEF m
    <3> QED
      BY <2>1, FirstOfSeq
  <2> HIDE DEF g
  <2> DEFINE c == a \o g
  <2>3. /\ c \in Seq(S) /\ Len(c) = Len(a) + Len(g)
        /\ \A k \in 1..Len(c) : c[k] = IF k <= Len(a) THEN a[k] ELSE g[k - Len(a)]
    BY <2>2
  <2>4. Len(c) = Len(h)
    BY <1>1, <1>3, <1>5, <2>2, <2>3
  <2> HIDE DEF c
  <2>5. ASSUME NEW k \in 1..Len(c) PROVE c[k] = h[k]
    <3>1. k \in 1..Len(h) /\ k \in 1..Len(both) /\ h[k] = both[k]
      BY <1>1, <1>3, <2>3, <2>4
    <3>2. CASE k <= Len(a)
      BY <1>1, <2>3, <3>1, <3>2
    <3>3. CASE ~(k <= Len(a))
      <4>1. k - Len(a) \in 1..Len(g)
        BY <1>1, <2>2, <2>3, <3>3
      <4> QED
        BY <1>1, <2>2, <2>3, <3>1, <3>3, <4>1
    <3> QED
      BY <3>2, <3>3
  <2>6. c = h
    BY <1>3, <2>3, <2>4, <2>5
  <2>7. Cut(a, b, n) = c
    BY <2>1 DEF Cut, c, f, g
  <2> QED
    BY <2>6, <2>7 DEF h, both
<1> QED
  BY <1>1, <1>4, <1>5

\* A prefix of a longer prefix.
LEMMA FirstOfLonger ==
    ASSUME NEW S, NEW s \in Seq(S), NEW m \in Nat, NEW n \in Nat, n <= m
    PROVE  FirstOf(FirstOf(s, m), n) = FirstOf(s, n)
<1> DEFINE f == FirstOf(s, m)
           g == FirstOf(f, n)
           h == FirstOf(s, n)
<1>1. /\ f \in Seq(S) /\ Len(f) = IF m <= Len(s) THEN m ELSE Len(s)
      /\ \A k \in 1..Len(f) : f[k] = s[k]
  BY FirstOfSeq
<1> HIDE DEF f
<1>2. /\ g \in Seq(S) /\ Len(g) = IF n <= Len(f) THEN n ELSE Len(f)
      /\ \A k \in 1..Len(g) : g[k] = f[k]
  BY <1>1, FirstOfSeq
<1>3. /\ h \in Seq(S) /\ Len(h) = IF n <= Len(s) THEN n ELSE Len(s)
      /\ \A k \in 1..Len(h) : h[k] = s[k]
  BY FirstOfSeq
<1> HIDE DEF g, h
<1>4. Len(s) \in Nat /\ Len(f) \in Nat
  BY <1>1
<1>5. Len(g) = Len(h) /\ \A k \in 1..Len(g) : k \in 1..Len(f)
  BY <1>1, <1>2, <1>3, <1>4
<1>6. \A k \in 1..Len(g) : g[k] = h[k]
  BY <1>1, <1>2, <1>3, <1>5
<1>7. g = h
  BY <1>2, <1>3, <1>5, <1>6
<1> QED
  BY <1>7 DEF f, g, h

LEMMA ClampedType ==
    ASSUME NEW n \in Nat, NEW most \in Nat \ {0}
    PROVE  Clamped(n, most) \in 1..most
<1>1. Min({n, most}) = IF n <= most THEN n ELSE most
  BY MinOf
<1>2. Min({n, most}) \in Int
  BY <1>1
<1> HIDE DEF Clamped
<1>3. Max({1, Min({n, most})}) = IF 1 >= Min({n, most}) THEN 1 ELSE Min({n, most})
  BY <1>2, MaxOf
<1> QED
  BY <1>1, <1>3 DEF Clamped

\* A limit up to what REST allows at most, at MCP and at REST.
LEMMA Limits ==
    ASSUME NEW n \in 1..(RestMost + 1)
    PROVE  /\ Clamped(n, RestMost) \in Nat \ {0} /\ Clamped(n, McpMost) \in Nat \ {0}
           /\ Clamped(n, RestMost) >= Clamped(n, McpMost) /\ Clamped(n, McpMost) <= McpMost
           /\ Clamped(n, McpMost) < McpMost => Clamped(n, RestMost) = Clamped(n, McpMost)
<1>1. n \in Nat /\ RestMost \in Nat \ {0} /\ McpMost \in Nat \ {0} /\ McpMost <= RestMost /\ n >= 1
  BY ServerAssumption
<1>2. ASSUME NEW most \in Nat \ {0} PROVE Clamped(n, most) = IF n <= most THEN n ELSE most
  <2>1. Min({n, most}) = IF n <= most THEN n ELSE most
    BY <1>1, MinOf
  <2>2. Min({n, most}) \in Int /\ Min({n, most}) >= 1
    BY <1>1, <2>1
  <2>3. Max({1, Min({n, most})}) = IF 1 >= Min({n, most}) THEN 1 ELSE Min({n, most})
    BY <2>2, MaxOf
  <2> QED
    BY <2>1, <2>2, <2>3 DEF Clamped
<1> QED
  BY <1>1, <1>2

\* The same hits, cut off at either limit.
LEMMA OneCut ==
    ASSUME NEW S, NEW all \in Seq(S), NEW n \in 1..(RestMost + 1)
    PROVE  FirstOf(all, Clamped(n, McpMost)) = FirstOf(FirstOf(all, Clamped(n, RestMost)), McpMost)
<1> DEFINE l == Clamped(n, McpMost)
           r == Clamped(n, RestMost)
<1>1. /\ l \in Nat /\ r \in Nat /\ McpMost \in Nat /\ r >= l /\ l <= McpMost /\ (l < McpMost => r = l)
  BY Limits, ServerAssumption
<1> HIDE DEF l, r
<1>2. CASE l = McpMost
  <2>1. FirstOf(FirstOf(all, r), l) = FirstOf(all, l)
    BY <1>1, FirstOfLonger
  <2> QED
    BY <1>2, <2>1 DEF l, r
<1>3. CASE l < McpMost
  <2>1. r = l /\ r <= McpMost
    BY <1>1, <1>3
  <2>2. FirstOf(FirstOf(all, r), McpMost) = FirstOf(all, r)
    BY <1>1, <2>1, FirstOfFirst
  <2> QED
    BY <2>1, <2>2 DEF l, r
<1> QED
  BY <1>1, <1>2, <1>3

\* All that a store has for the words.
Words(s, t) == IF t = << >> THEN << >> ELSE Where(s, {e \in Of(s) : Of(t) \subseteq e.words})

LEMMA SearchIs ==
    ASSUME NEW s, Shelved(s), NEW t
    PROVE  Words(s, t) \in Seq(Entries) /\ \A n \in Nat : Search(s, t, n) = FirstOf(Words(s, t), n)
<1>1. s \in Seq(Entries)
  BY DEF Shelved
<1>2. Words(s, t) \in Seq(Entries)
  <2>1. Where(s, {e \in Of(s) : Of(t) \subseteq e.words}) \in Seq(Entries)
    BY <1>1, WhereElements
  <2> QED
    BY <2>1 DEF Words
<1>3. ASSUME NEW n \in Nat PROVE FirstOf(<< >>, n) = << >>
  <2>1. << >> \in Seq(Entries) /\ Len(<< >>) = 0 /\ n >= 0
    OBVIOUS
  <2>2. \A r \in Seq(Entries) : n >= Len(r) => FirstOf(r, n) = r
    BY FirstOfSeq
  <2> QED
    BY <2>1, <2>2
<1> QED
  BY <1>2, <1>3 DEF Search, Words

\* REST and the command line cut off what both stores have, once.
LEMMA WordSearches ==
    ASSUME NEW p, NEW o, Shelved(p), Shelved(o), NEW t \in Texts, NEW n \in 1..(RestMost + 1)
    PROVE  /\ McpSearch(p, o, t, << >>, n) = FirstOf(Words(p, t) \o Words(o, t), Clamped(n, McpMost))
           /\ RestSearch(p, o, t, n) = FirstOf(Words(p, t) \o Words(o, t), Clamped(n, RestMost))
           /\ CliSearch(p, o, t, n) = FirstOf(Words(p, t) \o Words(o, t), Clamped(n, RestMost))
<1> DEFINE a == Words(p, t)
           b == Words(o, t)
<1>1. /\ a \in Seq(Entries) /\ b \in Seq(Entries)
      /\ \A k \in Nat : Search(p, t, k) = FirstOf(a, k) /\ Search(o, t, k) = FirstOf(b, k)
  BY SearchIs
<1>2. Clamped(n, RestMost) \in Nat \ {0} /\ Clamped(n, McpMost) \in Nat \ {0}
  BY Limits
<1>3. ~LooksLikeTagExpr(t)
  BY AsksAssumption
<1> HIDE DEF a, b
<1>4. ASSUME NEW l \in Nat
      PROVE  /\ Len(FirstOf(a, l)) \in Nat /\ Len(FirstOf(a, l)) <= l
             /\ FirstOf(FirstOf(a, l), l) = FirstOf(a, l)
             /\ \A k \in Nat : FirstOf(FirstOf(b, k), k) = FirstOf(b, k)
  <2>1. FirstOf(a, l) \in Seq(Entries) /\ Len(FirstOf(a, l)) = IF l <= Len(a) THEN l ELSE Len(a)
    BY <1>1, FirstOfSeq
  <2>2. Len(FirstOf(a, l)) \in Nat /\ Len(FirstOf(a, l)) <= l
    BY <1>1, <2>1
  <2>3. l <= l
    OBVIOUS
  <2>4. FirstOf(FirstOf(a, l), l) = FirstOf(a, l)
    BY <1>1, <2>3, FirstOfFirst
  <2>5. ASSUME NEW k \in Nat PROVE FirstOf(FirstOf(b, k), k) = FirstOf(b, k)
    <3>1. k <= k
      OBVIOUS
    <3> QED
      BY <1>1, <3>1, FirstOfFirst
  <2> QED
    BY <2>2, <2>4, <2>5
<1>5. RestSearch(p, o, t, n) = Cut(a, b, Clamped(n, RestMost))
  <2> DEFINE l == Clamped(n, RestMost)
             rest == l - Len(FirstOf(a, l))
  <2>1. l \in Nat
    BY <1>2
  <2> HIDE DEF l
  <2>2. rest \in Nat /\ (rest > 0 <=> Len(FirstOf(a, l)) < l)
    <3>1. Len(FirstOf(a, l)) \in Nat /\ Len(FirstOf(a, l)) <= l
      BY <1>4, <2>1
    <3> QED
      BY <2>1, <3>1
  <2>3. RestSearch(p, o, t, n) = IF rest > 0 THEN FirstOf(a, l) \o FirstOf(Search(o, t, rest), rest) ELSE FirstOf(a, l)
    BY <1>1, <1>3, <1>4, <2>1 DEF RestSearch, Find, l
  <2> HIDE DEF rest
  <2>4. FirstOf(Search(o, t, rest), rest) = FirstOf(b, rest)
    BY <1>1, <1>4, <2>1, <2>2
  <2> QED
    BY <2>2, <2>3, <2>4 DEF Cut, l, rest
<1>6. CliSearch(p, o, t, n) = Cut(a, b, Clamped(n, RestMost))
  <2> DEFINE l == Clamped(n, RestMost)
             rest == l - Len(FirstOf(a, l))
  <2>1. l \in Nat
    BY <1>2
  <2> HIDE DEF l
  <2>2. rest \in Nat /\ (rest # 0 <=> Len(FirstOf(a, l)) < l)
    <3>1. Len(FirstOf(a, l)) \in Nat /\ Len(FirstOf(a, l)) <= l
      BY <1>4, <2>1
    <3> QED
      BY <2>1, <3>1
  <2>3. CliSearch(p, o, t, n) = IF rest = 0 THEN FirstOf(a, l) ELSE FirstOf(a, l) \o FirstOf(Search(o, t, rest), rest)
    BY <1>1, <1>3, <2>1 DEF CliSearch, l
  <2> HIDE DEF rest
  <2>4. FirstOf(Search(o, t, rest), rest) = FirstOf(b, rest)
    BY <1>1, <1>4, <2>1, <2>2
  <2> QED
    BY <2>2, <2>3, <2>4 DEF Cut, l, rest
<1>7. McpSearch(p, o, t, << >>, n) = Cut(a, b, Clamped(n, McpMost))
  <2> DEFINE l == Clamped(n, McpMost)
             rest == l - Len(FirstOf(a, l))
  <2>1. l \in Nat
    BY <1>2
  <2> HIDE DEF l
  <2>2. Len(FirstOf(a, l)) < l => rest \in Nat
    BY <1>4, <2>1
  <2>3. CASE t # << >>
    <3>1. McpSearch(p, o, t, << >>, n) = IF Len(FirstOf(a, l)) < l THEN FirstOf(a, l) \o Search(o, t, rest) ELSE FirstOf(a, l)
      BY <1>1, <2>1, <2>3 DEF McpSearch, SearchIn, l
    <3> HIDE DEF rest
    <3> QED
      BY <1>1, <2>2, <3>1 DEF Cut, l, rest
  <2>4. CASE t = << >>
    <3>1. a = << >> /\ b = << >> /\ McpSearch(p, o, t, << >>, n) = << >>
      BY <2>4 DEF a, b, Words, McpSearch
    <3>2. << >> \in Seq(Entries) /\ Len(<< >>) = 0 /\ \A k \in Nat : k >= 0
      OBVIOUS
    <3>3. \A k \in Nat : FirstOf(<< >>, k) = << >>
      <4>1. \A r \in Seq(Entries), k \in Nat : k >= Len(r) => FirstOf(r, k) = r
        BY FirstOfSeq
      <4> QED
        BY <3>2, <4>1
    <3>4. Cut(a, b, l) = FirstOf(a \o b, l)
      BY <1>1, <2>1, CutOfBoth
    <3>5. a \o b = << >>
      BY <3>1
    <3>6. Cut(a, b, l) = << >>
      BY <2>1, <3>3, <3>4, <3>5
    <3> QED
      BY <3>1, <3>6 DEF l
  <2> QED
    BY <2>3, <2>4
<1>8. \A l \in Nat : Cut(a, b, l) = FirstOf(a \o b, l)
  BY <1>1, CutOfBoth
<1> QED
  BY <1>2, <1>5, <1>6, <1>7, <1>8 DEF a, b

Tagged(s, ts) == FindByTagExpr(s, AllOf(ts))

LEMMA TagSearches ==
    ASSUME NEW p, NEW o, Shelved(p), Shelved(o), NEW ts \in TagLists, NEW n \in 1..(RestMost + 1)
    PROVE  /\ McpSearch(p, o, << >>, ts, n) = FirstOf(Tagged(p, ts) \o Tagged(o, ts), Clamped(n, McpMost))
           /\ RestSearch(p, o, And(ts), n) = FirstOf(Tagged(p, ts) \o Tagged(o, ts), Clamped(n, RestMost))
           /\ CliSearch(p, o, And(ts), n) = FirstOf(Tagged(p, ts) \o Tagged(o, ts), Clamped(n, RestMost))
<1> DEFINE a == Tagged(p, ts)
           b == Tagged(o, ts)
<1>1. a \in Seq(Entries) /\ b \in Seq(Entries)
  BY FoundByTags DEF Tagged
<1>2. /\ ts # << >> /\ LooksLikeTagExpr(And(ts))
      /\ FindByTagExpr(p, Parsed(And(ts)).expr) = a /\ FindByTagExpr(o, Parsed(And(ts)).expr) = b
      /\ FindByTagExpr(p, AllOf(ts)) = a /\ FindByTagExpr(o, AllOf(ts)) = b
  BY AskedByTags DEF Tagged
<1>3. Clamped(n, RestMost) \in Nat \ {0} /\ Clamped(n, McpMost) \in Nat \ {0}
  BY Limits
<1> HIDE DEF a, b
<1>4. ASSUME NEW l \in Nat PROVE Len(FirstOf(a, l)) \in Nat /\ Len(FirstOf(a, l)) <= l
  <2>1. FirstOf(a, l) \in Seq(Entries) /\ Len(FirstOf(a, l)) = IF l <= Len(a) THEN l ELSE Len(a)
    BY <1>1, FirstOfSeq
  <2> QED
    BY <1>1, <2>1
<1>5. RestSearch(p, o, And(ts), n) = Cut(a, b, Clamped(n, RestMost)) /\ CliSearch(p, o, And(ts), n) = RestSearch(p, o, And(ts), n)
  <2> DEFINE l == Clamped(n, RestMost)
             rest == l - Len(FirstOf(a, l))
  <2>1. l \in Nat
    BY <1>3
  <2> HIDE DEF l
  <2>2. (rest > 0 <=> Len(FirstOf(a, l)) < l) /\ (rest = 0 <=> ~(rest > 0))
    <3>1. Len(FirstOf(a, l)) \in Nat /\ Len(FirstOf(a, l)) <= l
      BY <1>4, <2>1
    <3> QED
      BY <2>1, <3>1
  <2>3. RestSearch(p, o, And(ts), n) = IF rest > 0 THEN FirstOf(a, l) \o FirstOf(b, rest) ELSE FirstOf(a, l)
    BY <1>2 DEF RestSearch, Find, l
  <2>4. CliSearch(p, o, And(ts), n) = IF rest = 0 THEN FirstOf(a, l) ELSE FirstOf(a, l) \o FirstOf(b, rest)
    BY <1>2 DEF CliSearch, l
  <2> HIDE DEF rest
  <2> QED
    BY <2>2, <2>3, <2>4 DEF Cut, l, rest
<1>6. McpSearch(p, o, << >>, ts, n) = Cut(a, b, Clamped(n, McpMost))
  BY <1>2 DEF McpSearch, SearchIn, Cut
<1>7. \A l \in Nat : Cut(a, b, l) = FirstOf(a \o b, l)
  BY <1>1, CutOfBoth
<1> QED
  BY <1>3, <1>5, <1>6, <1>7 DEF a, b

\* What is listed of the two stores with room for n of each.
LEMMA ListIs ==
    ASSUME NEW p, NEW o, Shelved(p), Shelved(o), NEW n \in 1..ListMost
    PROVE  RestList(p, o, n) = FirstOf(p, n) \o FirstOf(o, n)
<1>1. n \in Nat /\ ListMost \in Nat /\ 1 <= n /\ n <= ListMost
  BY ServerAssumption
<1>2. Clamped(n, ListMost) = n
  BY <1>1, Within
<1> QED
  BY <1>2 DEF RestList, ListMemories

LEMMA ListLength ==
    ASSUME NEW p, NEW o, Shelved(p), Shelved(o), NEW n \in 1..ListMost
    PROVE  /\ RestList(p, o, n) \in Seq(Entries) /\ Of(RestList(p, o, n)) \subseteq Of(p) \cup Of(o)
           /\ Len(RestList(p, o, n)) = (IF n <= Len(p) THEN n ELSE Len(p)) + (IF n <= Len(o) THEN n ELSE Len(o))
<1> DEFINE a == FirstOf(p, n)
           b == FirstOf(o, n)
<1>1. p \in Seq(Entries) /\ o \in Seq(Entries) /\ n \in Nat
  BY ServerAssumption DEF Shelved
<1>2. a \in Seq(Entries) /\ Len(a) = (IF n <= Len(p) THEN n ELSE Len(p)) /\ Of(a) \subseteq Of(p)
  BY <1>1, FirstOfSeq
<1>3. b \in Seq(Entries) /\ Len(b) = (IF n <= Len(o) THEN n ELSE Len(o)) /\ Of(b) \subseteq Of(o)
  BY <1>1, FirstOfSeq
<1>4. RestList(p, o, n) = a \o b
  BY ListIs
<1> HIDE DEF a, b
<1>5. a \o b \in Seq(Entries) /\ Len(a \o b) = Len(a) + Len(b)
  <2>1. a \in Seq(Entries) /\ b \in Seq(Entries)
    BY <1>2, <1>3
  <2>2. \A x, y \in Seq(Entries) : x \o y \in Seq(Entries) /\ Len(x \o y) = Len(x) + Len(y)
    OBVIOUS
  <2> QED
    BY <2>1, <2>2
<1>6. Of(a \o b) = Of(a) \cup Of(b)
  BY <1>2, <1>3, OfBoth
<1> QED
  BY <1>2, <1>3, <1>4, <1>5, <1>6

\* How many are listed with room for n of a and n of b.
Together(n, a, b) == (IF n <= a THEN n ELSE a) + (IF n <= b THEN n ELSE b)

LEMMA LongerList ==
    ASSUME NEW a \in Nat, NEW b \in Nat, NEW n \in Nat
    PROVE  /\ a + b >= Together(n, a, b)
           /\ \A m \in Nat : m <= n /\ Together(m, a, b) = Together(n, a, b) => (a > m => m = n) /\ (b > m => m = n)
BY DEF Together

\* The prompts that list: the first of each store, and the first of all.
LEMMA PromptsAgree ==
    ASSUME NEW p, NEW o, Shelved(p), Shelved(o)
    PROVE  LET whole == RestList(p, o, ListMost) IN
           /\ ListPrompt(p, o) = RestList(p, o, PromptMost)
           /\ ListPrompt(p, o) = whole <=> \A s \in {p, o} : Len(s) > PromptMost => PromptMost = ListMost
           /\ StatusPrompt(p, o).recent = FirstOf(whole, RecentMost)
           /\ StatusPrompt(p, o).count >= Len(whole)
<1> DEFINE whole == RestList(p, o, ListMost)
<1>1. /\ p \in Seq(Entries) /\ o \in Seq(Entries) /\ Len(p) \in Nat /\ Len(o) \in Nat
      /\ ListMost \in Nat \ {0} /\ PromptMost \in 1..ListMost /\ RecentMost \in 1..ListMost /\ ListMost \in 1..ListMost
  BY ServerAssumption DEF Shelved
<1>2. ListPrompt(p, o) = RestList(p, o, PromptMost)
  BY <1>1, ListIs DEF ListPrompt, ListMemories
<1>3. /\ Len(whole) = (IF ListMost <= Len(p) THEN ListMost ELSE Len(p)) + (IF ListMost <= Len(o) THEN ListMost ELSE Len(o))
      /\ whole = FirstOf(p, ListMost) \o FirstOf(o, ListMost)
  BY <1>1, ListIs, ListLength
<1>4. /\ Len(ListPrompt(p, o)) = (IF PromptMost <= Len(p) THEN PromptMost ELSE Len(p))
                                  + (IF PromptMost <= Len(o) THEN PromptMost ELSE Len(o))
      /\ ListPrompt(p, o) = FirstOf(p, PromptMost) \o FirstOf(o, PromptMost)
  BY <1>1, <1>2, ListIs, ListLength
<1> HIDE DEF whole
<1>5. ListPrompt(p, o) = whole <=> \A s \in {p, o} : Len(s) > PromptMost => PromptMost = ListMost
  <2>1. ASSUME ListPrompt(p, o) = whole, NEW s \in {p, o}, Len(s) > PromptMost PROVE PromptMost = ListMost
    <3>1. Len(ListPrompt(p, o)) = Len(whole)
      BY <2>1
    <3>2. /\ Len(p) > PromptMost => PromptMost = ListMost
          /\ Len(o) > PromptMost => PromptMost = ListMost
      <4>1. /\ PromptMost \in Nat /\ ListMost \in Nat /\ PromptMost <= ListMost
        BY <1>1
      <4>2. Len(ListPrompt(p, o)) = Together(PromptMost, Len(p), Len(o)) /\ Len(whole) = Together(ListMost, Len(p), Len(o))
        BY <1>3, <1>4 DEF Together
      <4>3. Together(PromptMost, Len(p), Len(o)) = Together(ListMost, Len(p), Len(o))
        BY <3>1, <4>2
      <4> QED
        BY <1>1, <4>1, <4>3, LongerList
    <3> QED
      BY <2>1, <3>2
  <2>2. ASSUME \A s \in {p, o} : Len(s) > PromptMost => PromptMost = ListMost PROVE ListPrompt(p, o) = whole
    <3>1. ASSUME NEW s \in {p, o} PROVE FirstOf(s, PromptMost) = FirstOf(s, ListMost)
      <4>1. s \in Seq(Entries) /\ PromptMost \in Nat /\ ListMost \in Nat /\ PromptMost <= ListMost
        BY <1>1
      <4>2. CASE PromptMost = ListMost
        BY <4>2
      <4>3. CASE PromptMost # ListMost
        <5>1. PromptMost >= Len(s) /\ ListMost >= Len(s)
          BY <1>1, <2>2, <4>1, <4>3
        <5>2. FirstOf(s, PromptMost) = s /\ FirstOf(s, ListMost) = s
          BY <4>1, <5>1, FirstOfSeq
        <5> QED
          BY <5>2
      <4> QED
        BY <4>2, <4>3
    <3> QED
      BY <1>3, <1>4, <3>1
  <2> QED
    BY <2>1, <2>2
<1>6. StatusPrompt(p, o).recent = FirstOf(whole, RecentMost)
  <2> DEFINE r == RecentMost
             lp == FirstOf(p, ListMost)
             lo == FirstOf(o, ListMost)
             own == FirstOf(p, r)
             rest == r - Len(own)
  <2>1. r \in Nat /\ ListMost \in Nat /\ r <= ListMost
    BY <1>1
  <2>2. lp \in Seq(Entries) /\ lo \in Seq(Entries)
    BY <1>1, FirstOfSeq
  <2>3. own \in Seq(Entries) /\ Len(own) = IF r <= Len(p) THEN r ELSE Len(p)
    BY <1>1, <2>1, FirstOfSeq
  <2>4. FirstOf(lp, r) = own
    BY <1>1, <2>1, FirstOfLonger
  <2>5. FirstOf(whole, r) = Cut(lp, lo, r)
    <3> HIDE DEF lp, lo, r
    <3> QED
      BY <1>3, <2>1, <2>2, CutOfBoth DEF lp, lo
  <2>6. StatusPrompt(p, o).recent = own \o FirstOf(FirstOf(o, r), rest)
    BY DEF StatusPrompt, ListMemories
  <2> HIDE DEF r, lp, lo, own
  <2>7. rest \in Nat /\ rest <= r /\ rest <= ListMost /\ (Len(own) < r <=> rest > 0)
    BY <1>1, <2>1, <2>3
  <2> HIDE DEF rest
  <2>8. FirstOf(FirstOf(o, r), rest) = FirstOf(o, rest)
    BY <1>1, <2>1, <2>7, FirstOfLonger
  <2>9. FirstOf(lo, rest) = FirstOf(o, rest)
    BY <1>1, <2>1, <2>7, FirstOfLonger DEF lo
  <2>10. rest = 0 => own \o FirstOf(o, rest) = own
    <3>1. FirstOf(o, rest) \in Seq(Entries) /\ (rest = 0 => Len(FirstOf(o, rest)) = 0)
      BY <1>1, <2>7, FirstOfSeq
    <3>2. rest = 0 => FirstOf(o, rest) = << >>
      BY <3>1
    <3> QED
      BY <2>3, <3>2
  <2>11. Cut(lp, lo, r) = IF Len(own) < r THEN own \o FirstOf(lo, rest) ELSE own
    BY <2>4 DEF Cut, rest
  <2>12. CASE Len(own) < r
    BY <2>5, <2>6, <2>8, <2>9, <2>11, <2>12 DEF r
  <2>13. CASE ~(Len(own) < r)
    <3>1. rest = 0
      BY <2>7, <2>13
    <3> QED
      BY <2>5, <2>6, <2>8, <2>10, <2>11, <2>13, <3>1 DEF r
  <2> QED
    BY <2>12, <2>13
<1>7. StatusPrompt(p, o).count >= Len(whole)
  <2>1. StatusPrompt(p, o).count = Len(p) + Len(o)
    BY DEF StatusPrompt
  <2>2. Len(p) + Len(o) >= Together(ListMost, Len(p), Len(o))
    BY <1>1, LongerList
  <2> QED
    BY <1>3, <2>1, <2>2 DEF Together
<1> QED
  BY <1>2, <1>5, <1>6, <1>7 DEF whole

\* A memory that is listed, read by its id.
LEMMA ReadById ==
    ASSUME NEW p, NEW o, Shelved(p), Shelved(o), NEW e \in Of(p) \cup Of(o)
    PROVE  /\ McpRecall(p, o, e.id) = RestGet(p, o, e.id) /\ RestGet(p, o, e.id) = CliGet(p, o, e.id)
           /\ RestGet(p, o, e.id) # <<e>> =>
                e \in Of(o) /\ EditPrompt(p, o, e.id) # << >> /\ FlagPrompt(p, o, e.id) # << >>
<1> DEFINE i == e.id
           inP == RecallById(p, i)
           inO == RecallById(o, i)
<1>1. (e \in Of(p) => inP = <<e>>) /\ (e \in Of(o) => inO = <<e>>)
  BY Found
<1>2. <<e>> # << >>
  OBVIOUS
<1>3. OwnerIn(p, o, i) = IF inP # << >> THEN "primary" ELSE IF inO # << >> THEN "org" ELSE "none"
  BY DEF OwnerIn
<1>4. McpRecall(p, o, i) = IF inP # << >> THEN inP ELSE inO
  BY DEF McpRecall
<1>5. RestGet(p, o, i) = CASE OwnerIn(p, o, i) = "primary" -> inP [] OwnerIn(p, o, i) = "org" -> inO [] OTHER -> << >>
  BY DEF RestGet
<1>6. CliGet(p, o, i) = IF OwnerIn(p, o, i) = "none" THEN << >> ELSE RestGet(p, o, i)
  BY DEF CliGet
<1>7. EditPrompt(p, o, i) = inP /\ FlagPrompt(p, o, i) = inP
  BY DEF EditPrompt, FlagPrompt
<1> HIDE DEF i, inP, inO
<1>8. RestGet(p, o, i) = IF inP # << >> THEN inP ELSE inO
  BY <1>3, <1>5
<1>9. McpRecall(p, o, i) = RestGet(p, o, i) /\ RestGet(p, o, i) = CliGet(p, o, i)
  BY <1>3, <1>4, <1>6, <1>8
<1>10. RestGet(p, o, i) # <<e>> => e \in Of(o) /\ inP # << >>
  BY <1>1, <1>2, <1>8
<1> QED
  BY <1>7, <1>9, <1>10 DEF i

LEMMA Agreement ==
    ASSUME StoresOK
    PROVE  SurfacesAgree
<1> DEFINE p == shelf["primary"]
           o == Org
           whole == RestList(p, o, ListMost)
           asked == SuggestPrompt(p, links["primary"])
<1>1. Shelved(p) /\ Shelved(o)
  BY OrgShelved
<1>2. p \in Seq(Entries) /\ o \in Seq(Entries) /\ Len(p) \in Nat /\ ListMost \in 1..ListMost
  BY <1>1, ServerAssumption DEF Shelved
<1>3. Joins(links["primary"], p)
  BY DEF StoresOK, StoreOK, Stores
<1> HIDE DEF p, o
<1>4. Of(whole) \subseteq Of(p) \cup Of(o) /\ CliList(p, o, ListMost) = whole
  BY <1>1, <1>2, ListLength DEF CliList, RestList
<1> HIDE DEF whole
<1>5. ASSUME NEW n \in 1..(RestMost + 1), NEW t \in Texts
      PROVE  /\ McpSearch(p, o, t, << >>, n) = FirstOf(RestSearch(p, o, t, n), McpMost)
             /\ CliSearch(p, o, t, n) = RestSearch(p, o, t, n)
  <2> DEFINE all == Words(p, t) \o Words(o, t)
  <2>1. all \in Seq(Entries)
    <3>1. Words(p, t) \in Seq(Entries) /\ Words(o, t) \in Seq(Entries)
      BY <1>1, SearchIs
    <3> QED
      BY <3>1
  <2>2. /\ McpSearch(p, o, t, << >>, n) = FirstOf(all, Clamped(n, McpMost))
        /\ RestSearch(p, o, t, n) = FirstOf(all, Clamped(n, RestMost))
        /\ CliSearch(p, o, t, n) = FirstOf(all, Clamped(n, RestMost))
    BY <1>1, WordSearches
  <2> HIDE DEF all
  <2> QED
    BY <2>1, <2>2, OneCut
<1>6. ASSUME NEW n \in 1..(RestMost + 1), NEW ts \in TagLists
      PROVE  /\ McpSearch(p, o, << >>, ts, n) = FirstOf(RestSearch(p, o, And(ts), n), McpMost)
             /\ CliSearch(p, o, And(ts), n) = RestSearch(p, o, And(ts), n)
  <2> DEFINE all == Tagged(p, ts) \o Tagged(o, ts)
  <2>1. all \in Seq(Entries)
    <3>1. Tagged(p, ts) \in Seq(Entries) /\ Tagged(o, ts) \in Seq(Entries)
      BY <1>1, FoundByTags DEF Tagged
    <3> QED
      BY <3>1
  <2>2. /\ McpSearch(p, o, << >>, ts, n) = FirstOf(all, Clamped(n, McpMost))
        /\ RestSearch(p, o, And(ts), n) = FirstOf(all, Clamped(n, RestMost))
        /\ CliSearch(p, o, And(ts), n) = FirstOf(all, Clamped(n, RestMost))
    BY <1>1, TagSearches
  <2> HIDE DEF all
  <2> QED
    BY <2>1, <2>2, OneCut
<1>7. ASSUME NEW t \in Texts PROVE SearchPrompt(p, o, t) = FirstOf(RestSearch(p, o, t, RestMost), McpMost)
  <2> DEFINE all == Words(p, t) \o Words(o, t)
  <2>1. all \in Seq(Entries)
    <3>1. Words(p, t) \in Seq(Entries) /\ Words(o, t) \in Seq(Entries)
      BY <1>1, SearchIs
    <3> QED
      BY <3>1
  <2>2. /\ McpMost \in 1..(RestMost + 1) /\ RestMost \in 1..(RestMost + 1)
        /\ McpMost \in Nat /\ RestMost \in Nat /\ 1 <= McpMost /\ 1 <= RestMost /\ McpMost <= RestMost
    BY ServerAssumption
  <2>3. Clamped(McpMost, McpMost) = McpMost /\ Clamped(RestMost, RestMost) = RestMost
    BY <2>2, Within
  <2>4. SearchPrompt(p, o, t) = FirstOf(all, McpMost) /\ RestSearch(p, o, t, RestMost) = FirstOf(all, RestMost)
    BY <1>1, <2>2, <2>3, WordSearches DEF SearchPrompt
  <2> HIDE DEF all
  <2> QED
    BY <2>1, <2>2, <2>4, FirstOfLonger
<1>8. ASSUME NEW ts \in TagLists, NEW e \in Of(whole)
      PROVE  e \in Of(CliListTagged(p, o, And(ts))) <=> Matches(AllOf(ts), e.tags)
  <2> DEFINE a == FindByTagExpr(p, AllOf(ts))
             b == FindByTagExpr(o, AllOf(ts))
  <2>1. CliListTagged(p, o, And(ts)) = a \o b
    BY <1>1, AskedByTags DEF CliListTagged
  <2>2. /\ a \in Seq(Entries) /\ Of(a) = {x \in Of(p) : Matches(AllOf(ts), x.tags)}
        /\ b \in Seq(Entries) /\ Of(b) = {x \in Of(o) : Matches(AllOf(ts), x.tags)}
    BY <1>2, WhereElements DEF FindByTagExpr
  <2> HIDE DEF a, b
  <2>3. Of(a \o b) = Of(a) \cup Of(b)
    BY <2>2, OfBoth
  <2> QED
    BY <1>4, <2>1, <2>2, <2>3
<1>9. \A n \in 1..ListMost : CliList(p, o, n) = RestList(p, o, n)
  BY DEF CliList, RestList
<1>10. /\ ListPrompt(p, o) = RestList(p, o, PromptMost)
       /\ ListPrompt(p, o) = whole <=> \A s \in {p, o} : Len(s) > PromptMost => PromptMost = ListMost
       /\ StatusPrompt(p, o).recent = FirstOf(whole, RecentMost)
       /\ StatusPrompt(p, o).count >= Len(whole)
  BY <1>1, PromptsAgree DEF whole
<1>11. StatusPrompt(p, o).count = RestStatus(p, o).count + RestStatus(p, o).org
  BY DEF StatusPrompt, RestStatus
<1>12. \A e \in Of(whole) :
         /\ McpRecall(p, o, e.id) = RestGet(p, o, e.id) /\ RestGet(p, o, e.id) = CliGet(p, o, e.id)
         /\ RestGet(p, o, e.id) # <<e>> =>
              e \in Of(o) /\ EditPrompt(p, o, e.id) # << >> /\ FlagPrompt(p, o, e.id) # << >>
  BY <1>1, <1>4, ReadById
<1>13. ASSUME NEW e \in asked.edges, NEW i \in {e.src, e.tgt}
       PROVE  i \in IdsOf(asked.memories) \/ \E k \in DOMAIN p : k > AskMost /\ p[k].id = i
  <2>1. asked.edges = links["primary"] /\ asked.memories = FirstOf(p, AskMost)
    BY DEF SuggestPrompt, ListMemories
  <2>2. i \in IdsOf(p)
    BY <1>3, <1>13, <2>1 DEF Joins
  <2>3. PICK k \in DOMAIN p : p[k].id = i
    BY <2>2 DEF IdsOf, Of
  <2>4. k \in 1..Len(p) /\ AskMost \in Nat
    BY <1>2, <2>3, ServerAssumption
  <2> DEFINE f == FirstOf(p, AskMost)
  <2>5. /\ f \in Seq(Entries) /\ Len(f) = IF AskMost <= Len(p) THEN AskMost ELSE Len(p)
        /\ \A j \in 1..Len(f) : f[j] = p[j]
    BY <1>2, <2>4, FirstOfSeq
  <2> HIDE DEF f
  <2>6. CASE k > AskMost
    BY <2>3, <2>6
  <2>7. CASE ~(k > AskMost)
    <3>1. k \in 1..Len(f) /\ k \in DOMAIN f
      BY <1>2, <2>4, <2>5, <2>7
    <3>2. f[k].id = i
      BY <2>3, <2>5, <3>1
    <3>3. i \in IdsOf(f)
      BY <3>1, <3>2 DEF IdsOf, Of
    <3> QED
      BY <2>1, <3>3 DEF f
  <2> QED
    BY <2>6, <2>7
<1> QED
  BY <1>4, <1>5, <1>6, <1>7, <1>8, <1>9, <1>10, <1>11, <1>12, <1>13 DEF SurfacesAgree, p, o, whole, asked

(* The surfaces answer alike, each up to its limit, with any texts, lists   *)
(* of tags and limits, and whatever the stores came to list.                *)
THEOREM SurfacesAlwaysAgree == Spec => []SurfacesAgree
<1>1. Init => IInv
  BY Begin
<1>2. IInv /\ [Next]_vars => IInv'
  BY Steps, Idles
<1>3. IInv => SurfacesAgree
  BY Agreement DEF IInv
<1> QED
  BY <1>1, <1>2, <1>3, PTL DEF Spec

-----------------------------------------------------------------------------
(* Tokens.                                                                  *)

Adds(sum, s) == sum[0] = 0 /\ \A k \in 1..Len(s) : sum[k] = sum[k - 1] + s[k].tokens

LEMMA TokensAdd ==
    ASSUME NEW s \in Seq(Entries)
    PROVE  \E sum \in [0..Len(s) -> Nat] : Adds(sum, s) /\ TokensOf(s) = sum[Len(s)]
<1> DEFINE n == Len(s)
           Plus(k, r) == r + s[k].tokens
           step == [p \in (1..n) \X Nat |-> Plus(p[1], p[2])]
           G(f) == f = [k \in 0..n |-> IF k = 0 THEN 0 ELSE Plus(k, f[k - 1])]
           sum == CHOOSE f : G(f)
<1>1. n \in Nat /\ \A k \in 1..n : s[k].tokens \in Nat
  <2>1. \A e \in Entries : e.tokens \in Nat
    BY DEF Entries, Saying
  <2> QED
    BY <2>1
<1>2. \A k \in 1..n, r \in Nat : Plus(k, r) \in Nat
  BY <1>1
<1>3. step \in StepsOver(n, Nat)
  <2> HIDE DEF Plus
  <2> QED
    BY <1>2 DEF StepsOver
<1>4. PICK f \in [0..n -> Nat] : Follows(f, n, 0, step)
  <2> DEFINE X == Nat
             z == 0
  <2>1. z \in X /\ step \in StepsOver(n, X)
    BY <1>3
  <2> HIDE DEF step, n, X, z
  <2>2. \E f \in [0..n -> X] : Follows(f, n, z, step)
    BY <1>1, <2>1, Recursion
  <2> QED
    BY <2>2 DEF X, z
<1>5. \A k \in 1..n : f[k] = Plus(k, f[k - 1])
  <2> TAKE k \in 1..n
  <2>1. f[k - 1] \in Nat /\ <<k, f[k - 1]>> \in (1..n) \X Nat
    <3>1. k - 1 \in 0..n
      BY <1>1
    <3> HIDE DEF n
    <3> QED
      BY <3>1
  <2>2. step[<<k, f[k - 1]>>] = Plus(k, f[k - 1])
    <3> HIDE DEF Plus
    <3> QED
      BY <2>1
  <2> HIDE DEF step
  <2> QED
    BY <1>4, <2>2 DEF Follows
<1>6. G(f)
  <2>1. f[0] = 0
    BY <1>4 DEF Follows
  <2> HIDE DEF Plus, n
  <2> QED
    BY <1>5, <2>1, <1>1
<1>7. G(sum)
  <2> HIDE DEF G
  <2> QED
    BY <1>6
<1>8. TokensOf(s) = sum[n]
  BY DEF TokensOf
<1>9. sum[0] = 0 /\ \A k \in 1..n : sum[k] = Plus(k, sum[k - 1])
  <2> HIDE DEF Plus, sum, n
  <2> QED
    BY <1>1, <1>7
<1>10. 0..n \subseteq {k \in 0..n : sum[k] \in Nat}
  <2> DEFINE T == {k \in 0..n : sum[k] \in Nat}
  <2> HIDE DEF sum, Plus, n
  <2>1. 0 \in T
    BY <1>1, <1>9
  <2>2. ASSUME NEW k \in 1..n, k - 1 \in T PROVE k \in T
    <3>1. k \in 0..n /\ sum[k] = Plus(k, sum[k - 1]) /\ sum[k - 1] \in Nat
      BY <1>1, <1>9, <2>2
    <3> QED
      BY <1>2, <3>1
  <2> HIDE DEF T
  <2>3. 0..n \subseteq T
    BY <1>1, <2>1, <2>2, Induction
  <2> QED
    BY <2>3 DEF T
<1>11. sum \in [0..n -> Nat]
  <2> HIDE DEF Plus, sum, n
  <2>1. sum = [k \in 0..n |-> sum[k]]
    BY <1>7
  <2> QED
    BY <1>10, <2>1
<1>12. Adds(sum, s)
  <2> HIDE DEF sum
  <2> QED
    BY <1>9 DEF Adds
<1> HIDE DEF sum
<1> QED
  BY <1>8, <1>11, <1>12

LEMMA TokensNat ==
    ASSUME NEW s \in Seq(Entries)
    PROVE  TokensOf(s) \in Nat
<1>1. PICK sum \in [0..Len(s) -> Nat] : Adds(sum, s) /\ TokensOf(s) = sum[Len(s)]
  BY TokensAdd
<1> QED
  BY <1>1

LEMMA TokensNone == TokensOf(<< >>) = 0
<1> DEFINE s == << >>
<1>1. s \in Seq(Entries) /\ Len(s) = 0
  OBVIOUS
<1> HIDE DEF s
<1>2. PICK sum \in [0..Len(s) -> Nat] : Adds(sum, s) /\ TokensOf(s) = sum[Len(s)]
  BY <1>1, TokensAdd
<1> QED
  BY <1>1, <1>2 DEF Adds, s

LEMMA TokensOfBoth ==
    ASSUME NEW s \in Seq(Entries), NEW t \in Seq(Entries)
    PROVE  TokensOf(s \o t) = TokensOf(s) + TokensOf(t)
<1> DEFINE m == Len(s)
           n == Len(t)
           b == s \o t
<1>1. /\ b \in Seq(Entries) /\ m \in Nat /\ n \in Nat /\ Len(b) = m + n
      /\ \A k \in 1..m : b[k] = s[k]
      /\ \A k \in 1..n : b[m + k] = t[k]
  OBVIOUS
<1> HIDE DEF m, n, b
<1>2. PICK f \in [0..m -> Nat] : Adds(f, s) /\ TokensOf(s) = f[m]
  BY TokensAdd DEF m
<1>3. PICK g \in [0..n -> Nat] : Adds(g, t) /\ TokensOf(t) = g[n]
  BY TokensAdd DEF n
<1>4. PICK h \in [0..Len(b) -> Nat] : Adds(h, b) /\ TokensOf(b) = h[Len(b)]
  BY <1>1, TokensAdd
<1>5. /\ f[0] = 0 /\ \A k \in 1..m : f[k] = f[k - 1] + s[k].tokens
      /\ g[0] = 0 /\ \A k \in 1..n : g[k] = g[k - 1] + t[k].tokens
      /\ h[0] = 0 /\ \A k \in 1..(m + n) : h[k] = h[k - 1] + b[k].tokens
  BY <1>1, <1>2, <1>3, <1>4 DEF Adds, m, n
<1>6. h[m] = f[m]
  <2> DEFINE T == {k \in 0..m : h[k] = f[k]}
  <2>1. 0 \in T
    BY <1>1, <1>5
  <2>2. ASSUME NEW k \in 1..m, k - 1 \in T PROVE k \in T
    <3>1. k \in 1..(m + n) /\ k \in 0..m
      BY <1>1
    <3>2. h[k - 1] = f[k - 1] /\ b[k] = s[k]
      BY <1>1, <2>2
    <3>3. h[k] = h[k - 1] + b[k].tokens /\ f[k] = f[k - 1] + s[k].tokens
      BY <1>5, <3>1
    <3> QED
      BY <3>1, <3>2, <3>3
  <2> HIDE DEF T
  <2>3. 0..m \subseteq T
    BY <1>1, <2>1, <2>2, Induction
  <2> QED
    BY <1>1, <2>3 DEF T
<1>7. h[m + n] = f[m] + g[n]
  <2> DEFINE T == {k \in 0..n : h[m + k] = f[m] + g[k]}
  <2>1. 0 \in T
    BY <1>1, <1>2, <1>5, <1>6
  <2>2. ASSUME NEW k \in 1..n, k - 1 \in T PROVE k \in T
    <3>1. m + k \in 1..(m + n) /\ (m + k) - 1 = m + (k - 1)
      BY <1>1
    <3>2. h[m + k] = h[m + (k - 1)] + b[m + k].tokens
      BY <1>5, <3>1
    <3>3. g[k] = g[k - 1] + t[k].tokens /\ b[m + k] = t[k]
      BY <1>1, <1>5
    <3>4. h[m + (k - 1)] = f[m] + g[k - 1]
      BY <2>2
    <3>5. f[m] \in Nat /\ g[k - 1] \in Nat
      BY <1>1
    <3>6. t[k].tokens \in Nat
      <4>1. \A e \in Entries : e.tokens \in Nat
        BY DEF Entries, Saying
      <4>2. t[k] \in Entries
        BY DEF n
      <4> QED
        BY <4>1, <4>2
    <3> QED
      BY <3>2, <3>3, <3>4, <3>5, <3>6
  <2> HIDE DEF T
  <2>3. 0..n \subseteq T
    BY <1>1, <2>1, <2>2, Induction
  <2> QED
    BY <1>1, <2>3 DEF T
<1> QED
  BY <1>1, <1>2, <1>3, <1>4, <1>7 DEF b

LEMMA TokensOfMore ==
    ASSUME NEW s \in Seq(Entries), NEW e \in Entries
    PROVE  TokensOf(Append(s, e)) = TokensOf(s) + e.tokens
<1> DEFINE t == <<e>>
<1>1. t \in Seq(Entries) /\ Len(t) = 1 /\ t[1] = e /\ Append(s, e) = s \o t
  OBVIOUS
<1> HIDE DEF t
<1>2. PICK sum \in [0..Len(t) -> Nat] : Adds(sum, t) /\ TokensOf(t) = sum[Len(t)]
  BY <1>1, TokensAdd
<1>3. sum[1] = sum[1 - 1] + e.tokens /\ sum[0] = 0
  BY <1>1, <1>2 DEF Adds
<1>4. TokensOf(t) = 0 + e.tokens
  BY <1>1, <1>2, <1>3
<1>5. e.tokens \in Nat
  BY DEF Entries, Saying
<1> QED
  BY <1>1, <1>4, <1>5, TokensOfBoth
Takes(taken, s, u, most) ==
    /\ taken[0] = << >>
    /\ \A k \in 1..Len(s) :
          taken[k] = IF u + TokensOf(taken[k - 1]) + s[k].tokens > most THEN taken[k - 1]
                     ELSE Append(taken[k - 1], s[k])

LEMMA FittingTakes ==
    ASSUME NEW s \in Seq(Entries), NEW u, NEW most
    PROVE  \E taken \in [0..Len(s) -> Seq(Entries)] :
              Takes(taken, s, u, most) /\ Fitting(s, u, most) = taken[Len(s)]
<1> DEFINE n == Len(s)
           X == Seq(Entries)
           e == << >>
           Longer(k, r) == IF u + TokensOf(r) + s[k].tokens > most THEN r ELSE Append(r, s[k])
           step == [p \in (1..n) \X X |-> Longer(p[1], p[2])]
           G(f) == f = [k \in 0..n |-> IF k = 0 THEN e ELSE Longer(k, f[k - 1])]
           taken == CHOOSE f : G(f)
<1>1. n \in Nat /\ e \in X /\ \A k \in 1..n : s[k] \in Entries
  OBVIOUS
<1>2. ASSUME NEW k \in 1..n, NEW r \in X PROVE Longer(k, r) \in X
  <2>1. Append(r, s[k]) \in X
    BY <1>1
  <2> QED
    BY <2>1
<1>3. step \in StepsOver(n, X)
  <2> HIDE DEF Longer, X
  <2> QED
    BY <1>2 DEF StepsOver
<1>4. PICK f \in [0..n -> X] : Follows(f, n, e, step)
  <2> HIDE DEF step, n, X, e
  <2> QED
    BY <1>1, <1>3, Recursion
<1>5. \A k \in 1..n : f[k] = Longer(k, f[k - 1])
  <2> TAKE k \in 1..n
  <2>1. f[k - 1] \in X
    <3>1. k - 1 \in 0..n
      BY <1>1
    <3> HIDE DEF n, X
    <3> QED
      BY <3>1
  <2>2. step[<<k, f[k - 1]>>] = Longer(k, f[k - 1])
    <3> HIDE DEF Longer, X
    <3> QED
      BY <2>1
  <2> HIDE DEF step, Longer
  <2> QED
    BY <1>4, <2>2 DEF Follows
<1>6. G(f)
  <2>1. f[0] = e
    BY <1>4 DEF Follows
  <2> HIDE DEF Longer, n, e, X
  <2> QED
    BY <1>5, <2>1, <1>1
<1>7. G(taken)
  <2> HIDE DEF G
  <2> QED
    BY <1>6
<1>8. Fitting(s, u, most) = taken[n]
  BY DEF Fitting
<1>9. taken[0] = e /\ \A k \in 1..n : taken[k] = Longer(k, taken[k - 1])
  <2> HIDE DEF Longer, taken, n, e
  <2> QED
    BY <1>1, <1>7
<1>10. 0..n \subseteq {k \in 0..n : taken[k] \in X}
  <2> DEFINE T == {k \in 0..n : taken[k] \in X}
  <2> HIDE DEF taken, Longer, n, X, e
  <2>1. 0 \in T
    BY <1>1, <1>9
  <2>2. ASSUME NEW k \in 1..n, k - 1 \in T PROVE k \in T
    <3>1. k \in 0..n /\ taken[k] = Longer(k, taken[k - 1]) /\ taken[k - 1] \in X
      BY <1>1, <1>9, <2>2
    <3> QED
      BY <1>2, <3>1
  <2> HIDE DEF T
  <2>3. 0..n \subseteq T
    BY <1>1, <2>1, <2>2, Induction
  <2> QED
    BY <2>3 DEF T
<1>11. taken \in [0..n -> X]
  <2> HIDE DEF Longer, taken, n, X, e
  <2>1. taken = [k \in 0..n |-> taken[k]]
    BY <1>7
  <2> QED
    BY <1>10, <2>1
<1>12. Takes(taken, s, u, most)
  <2> HIDE DEF taken
  <2> QED
    BY <1>9 DEF Takes
<1> HIDE DEF taken
<1> QED
  BY <1>8, <1>11, <1>12

LEMMA FittingFits ==
    ASSUME NEW s \in Seq(Entries), NEW u \in Nat, NEW most \in Nat, u <= most
    PROVE  LET fit == Fitting(s, u, most) IN
           /\ fit \in Seq(Entries) /\ u + TokensOf(fit) <= most
           /\ fit = << >> => \A e \in Of(s) : u + e.tokens > most
<1> DEFINE n == Len(s)
<1>0. PICK taken \in [0..n -> Seq(Entries)] : Takes(taken, s, u, most) /\ Fitting(s, u, most) = taken[n]
  BY FittingTakes
<1>1. n \in Nat /\ \A k \in 1..n : s[k] \in Entries /\ s[k].tokens \in Nat
  <2>1. \A e \in Entries : e.tokens \in Nat
    BY DEF Entries, Saying
  <2> QED
    BY <2>1
<1> DEFINE Big(k) == \A j \in 1..k : u + s[j].tokens > most
           T == {k \in 0..n : u + TokensOf(taken[k]) <= most /\ (taken[k] = << >> => Big(k))}
<1>2. 0 \in T
  <2>1. taken[0] = << >>
    BY <1>0 DEF Takes
  <2>2. TokensOf(taken[0]) = 0
    BY <2>1, TokensNone
  <2> QED
    BY <1>1, <2>2
<1>3. ASSUME NEW k \in 1..n, k - 1 \in T PROVE k \in T
  <2> DEFINE r == taken[k - 1]
             e == s[k]
  <2>1. r \in Seq(Entries) /\ e \in Entries /\ e.tokens \in Nat /\ TokensOf(r) \in Nat
    <3>1. k - 1 \in 0..n
      BY <1>1
    <3>2. r \in Seq(Entries)
      BY <3>1
    <3> QED
      BY <1>1, <3>2, TokensNat
  <2>2. taken[k] = IF u + TokensOf(r) + e.tokens > most THEN r ELSE Append(r, e)
    BY <1>0 DEF Takes
  <2>3. u + TokensOf(r) <= most /\ (r = << >> => Big(k - 1))
    BY <1>3
  <2> HIDE DEF r, e
  <2>4. CASE u + TokensOf(r) + e.tokens > most
    <3>1. taken[k] = r
      BY <2>2, <2>4
    <3>2. ASSUME r = << >> PROVE Big(k)
      <4>1. TokensOf(r) = 0
        BY <3>2, TokensNone
      <4>2. u + e.tokens > most
        BY <2>1, <2>4, <4>1
      <4>3. ASSUME NEW j \in 1..k PROVE j = k \/ j \in 1..(k - 1)
        BY <1>1
      <4> QED
        BY <2>3, <3>2, <4>2, <4>3 DEF e
    <3>3. k \in 0..n /\ u + TokensOf(taken[k]) <= most /\ (taken[k] = << >> => Big(k))
      <4> HIDE DEF Big
      <4> QED
        BY <1>1, <2>3, <3>1, <3>2
    <3> QED
      BY <3>3
  <2>5. CASE ~(u + TokensOf(r) + e.tokens > most)
    <3>1. taken[k] = Append(r, e) /\ Append(r, e) # << >>
      <4>1. taken[k] = Append(r, e)
        BY <2>2, <2>5
      <4>2. Append(r, e) # << >>
        BY <2>1
      <4> QED
        BY <4>1, <4>2
    <3>2. TokensOf(taken[k]) = TokensOf(r) + e.tokens
      BY <2>1, <3>1, TokensOfMore
    <3>3. k \in 0..n /\ taken[k] # << >> /\ u + TokensOf(taken[k]) <= most
      BY <1>1, <2>1, <2>5, <3>1, <3>2
    <3> QED
      BY <3>3
  <2> QED
    BY <2>4, <2>5
<1>4. n \in T
  <2> HIDE DEF T, n
  <2>1. 0..n \subseteq T
    BY <1>1, <1>2, <1>3, Induction
  <2> QED
    BY <1>1, <2>1
<1>5. Big(n) => \A e \in Of(s) : u + e.tokens > most
  BY DEF Of
<1> HIDE DEF Big
<1> QED
  BY <1>0, <1>1, <1>4, <1>5

\* What a query finds in a store.
LEMMA CandidatesType ==
    ASSUME NEW s, Shelved(s), NEW q
    PROVE  Candidates(s, q) \in Seq(Entries)
<1>1. s \in Seq(Entries) /\ << >> \in Seq(Entries)
  BY DEF Shelved
<1>2. RecallByTitle(s, q) \in Seq(Entries)
  <2> DEFINE w == Where(s, {e \in Of(s) : e.title = q})
  <2>1. w \in Seq(Entries)
    BY <1>1, WhereElements
  <2>2. 1 \in Nat
    OBVIOUS
  <2> HIDE DEF w
  <2>3. FirstOf(w, 1) \in Seq(Entries)
    BY <2>1, <2>2, FirstOfSeq
  <2> QED
    BY <2>3 DEF RecallByTitle, w
<1>3. Search(s, q, 5) \in Seq(Entries)
  BY SearchCut
<1>4. FirstOf(ResolveRecall(s, q), 1) \in Seq(Entries)
  <2> DEFINE w == ResolveRecall(s, q)
  <2>1. w \in Seq(Entries)
    BY <1>2, <1>3 DEF ResolveRecall
  <2>2. 1 \in Nat
    OBVIOUS
  <2> HIDE DEF w
  <2>3. FirstOf(w, 1) \in Seq(Entries)
    BY <2>1, <2>2, FirstOfSeq
  <2> QED
    BY <2>3 DEF w
<1>5. FindByTagExpr(s, Parsed(q).expr) \in Seq(Entries)
  BY FoundByTags
<1> QED
  BY <1>1, <1>4, <1>5 DEF Candidates
-----------------------------------------------------------------------------
(* Session starts.                                                          *)

Reasons == {"not_found", "budget_exceeded"}
Skips == [query : Of(Recalls), reason : Reasons]

LEMMA Setting == Recalls \in Seq(Of(Recalls)) /\ MaxTokens \in Nat
<1>1. Recalls \in Seq(Of(Recalls))
  <2> DEFINE p == ProjectRecalls
             l == LocalRecalls
             S == Of(p) \cup Of(l)
  <2>1. p \in Seq(S) /\ l \in Seq(S)
    BY RecallsAssumption
  <2>2. Of(p \o l) = S
    <3> HIDE DEF S, p, l
    <3>1. Of(p \o l) = Of(p) \cup Of(l)
      BY <2>1, OfBoth
    <3> QED
      BY <3>1 DEF S
  <2>3. p \o l \in Seq(S)
    <3> HIDE DEF S, p, l
    <3> QED
      BY <2>1
  <2> QED
    BY <2>2, <2>3 DEF Recalls
<1>2. MaxTokens \in Nat
  BY RecallsAssumption DEF MaxTokens
<1> QED
  BY <1>1, <1>2

\* The elements of a finite set, each once.
LEMMA Sequenced ==
    ASSUME NEW S, IsFiniteSet(S)
    PROVE  LET r == SetToSeq(S) IN r \in Seq(S) /\ Of(r) = S /\ Len(r) = Cardinality(S)
<1> DEFINE n == Cardinality(S)
           r == SetToSeq(S)
<1>1. n \in Nat /\ ExistsBijection(1..n, S)
  BY FS_CardinalityType
<1>2. \E f \in [1..n -> S] : IsInjective(f)
  BY <1>1 DEF ExistsBijection, Bijection, Injection
<1>3. r \in [1..n -> S] /\ IsInjective(r)
  BY <1>2 DEF SetToSeq
<1> HIDE DEF n, r
<1>4. r \in Seq(S) /\ Len(r) = n
  BY <1>1, <1>3
<1>5. r \in Injection(1..n, S)
  BY <1>3 DEF Injection
<1>6. Cardinality(1..n) = n
  BY <1>1, FS_Interval
<1>7. r \in Surjection(1..n, S)
  BY <1>5, <1>6, FS_Injection DEF n
<1>8. Of(r) = S
  BY <1>3, <1>7 DEF Surjection, Of
<1> QED
  BY <1>4, <1>8 DEF n, r

LEMMA FiniteOf == ASSUME NEW S, NEW s \in Seq(S) PROVE IsFiniteSet(Of(s))
<1> DEFINE n == Len(s)
           f == [k \in 1..n |-> s[k]]
<1>1. n \in Nat /\ DOMAIN s = 1..n
  OBVIOUS
<1> HIDE DEF n
<1>2. IsFiniteSet(1..n)
  BY <1>1, FS_Interval
<1>3. f \in Surjection(1..n, Of(s))
  BY <1>1 DEF Surjection, Of
<1> HIDE DEF f
<1> QED
  BY <1>2, <1>3, FS_Surjection

\* What is left of the reasons of both passes, once each query was tried.
LEMMA Collapsed ==
    ASSUME NEW s \in Seq(Skips), NEW done \in SUBSET Of(Recalls),
           \A q \in Of(Recalls) \ done : \E x \in Of(s) : x.query = q
    PROVE  LET r == SetToSeq(Collapse(s, done)) IN
           /\ r \in Seq(Skips) /\ Of(r) = Collapse(s, done)
           /\ {x.query : x \in Of(r)} = Of(Recalls) \ done
           /\ Len(r) = Cardinality(Of(Recalls) \ done)
<1> DEFINE left == {y \in Of(s) : y.query \notin done}
           C == Collapse(s, done)
           Q == Of(Recalls) \ done
           f == [x \in C |-> x.query]
<1>1. Of(s) \subseteq Skips
  BY DEF Of
<1>2. \A x \in Of(s) : x.query \in Of(Recalls) /\ x.reason \in Reasons /\ x = Skip(x.query, x.reason)
  BY <1>1 DEF Skips, Skip
<1>3. C = {x \in left : Skip(x.query, "budget_exceeded") \in left => x.reason = "budget_exceeded"}
  BY DEF Collapse
<1> HIDE DEF C
<1>4. C \subseteq Of(s) /\ C \subseteq Skips
  BY <1>1, <1>3
<1>5. IsFiniteSet(C)
  BY <1>4, FiniteOf, FS_Subset
<1>6. \A x \in C : x.query \in Q
  BY <1>2, <1>3
<1>7. ASSUME NEW q \in Q PROVE \E x \in C : x.query = q
  <2>1. PICK x \in Of(s) : x.query = q
    BY <1>7
  <2>2. x \in left
    BY <2>1
  <2> DEFINE b == Skip(q, "budget_exceeded")
  <2>3. b.query = q /\ b.reason = "budget_exceeded"
    BY DEF Skip
  <2> HIDE DEF b, left
  <2>4. CASE b \in left
    BY <1>3, <2>3, <2>4 DEF b
  <2>5. CASE b \notin left
    BY <1>3, <2>1, <2>2, <2>5 DEF b
  <2> QED
    BY <2>4, <2>5
<1>8. ASSUME NEW x \in C, NEW y \in C, x.query = y.query PROVE x = y
  <2>1. x.reason \in Reasons /\ y.reason \in Reasons
        /\ x = Skip(x.query, x.reason) /\ y = Skip(x.query, y.reason)
    BY <1>2, <1>4, <1>8
  <2>2. CASE x.reason = "budget_exceeded"
    BY <1>3, <1>8, <2>1, <2>2
  <2>3. CASE y.reason = "budget_exceeded"
    BY <1>3, <1>8, <2>1, <2>3
  <2>4. CASE x.reason # "budget_exceeded" /\ y.reason # "budget_exceeded"
    BY <2>1, <2>4 DEF Reasons
  <2> QED
    BY <2>2, <2>3, <2>4
<1>9. f \in Bijection(C, Q)
  <2>1. f \in [C -> Q]
    BY <1>6
  <2>2. IsInjective(f)
    BY <1>8 DEF IsInjective
  <2>3. \A q \in Q : \E x \in C : f[x] = q
    BY <1>7
  <2> QED
    BY <2>1, <2>2, <2>3 DEF Bijection, Injection, Surjection
<1>10. Cardinality(Q) = Cardinality(C)
  <2>1. ExistsBijection(C, Q)
    BY <1>9 DEF ExistsBijection
  <2> QED
    BY <1>5, <2>1, FS_Bijection
<1> DEFINE r == SetToSeq(C)
<1>11. r \in Seq(C) /\ Of(r) = C /\ Len(r) = Cardinality(C)
  BY <1>5, Sequenced
<1> HIDE DEF r, f, left
<1>12. r \in Seq(Skips)
  BY <1>4, <1>11
<1>13. {x.query : x \in Of(r)} = Q
  BY <1>6, <1>7, <1>11
<1> QED
  BY <1>10, <1>11, <1>12, <1>13 DEF r, C
SessionType ==
    session \in [pc : {"idle", "recall", "done"}, surface : {"none", "mcp", "stdio", "cli", "status"},
                 org : BOOLEAN, pass : Stores, next : 1..(Len(Recalls) + 1), used : Nat,
                 loaded : Seq(Entries), skipped : Seq(Skips), fulfilled : SUBSET Of(Recalls), quiet : BOOLEAN]

Budgeted == session.used = TokensOf(session.loaded) /\ session.used <= MaxTokens

\* The queries that have been tried on a store, and what they find there now.
Tried(st) ==
    IF st = session.pass THEN {Recalls[k] : k \in 1..(session.next - 1)}
    ELSE IF session.pass = "org" THEN Of(Recalls) ELSE {}
FoundIn(st, q) == Candidates(IF st = "org" THEN Org ELSE shelf["primary"], q)

TooBig(st, q) == \A e \in Of(FoundIn(st, q)) : session.used + e.tokens > MaxTokens

\* Of a query that was tried and brought nothing there is a reason, and while
\* nobody changes the stores it is the budget if something would have matched.
Accounted ==
    \A st \in Stores : \A q \in Tried(st) \ session.fulfilled :
        /\ \E x \in Of(session.skipped) : x.query = q
        /\ session.quiet /\ FoundIn(st, q) # << >> =>
             Skip(q, "budget_exceeded") \in Of(session.skipped) /\ TooBig(st, q)

Truthful ==
    session.quiet => \A x \in Of(session.skipped) :
        x.reason = "budget_exceeded" => \E st \in Stores : FoundIn(st, x.query) # << >>

Recalling == session.pc = "recall" => (session.pass = "org" => session.org) /\ Accounted /\ Truthful

SessionOK == SessionType /\ Budgeted /\ Recalling /\ SkippedSaysWhy

LEMMA IdleOK == ASSUME session' = IdleSession PROVE SessionOK'
<1>1. IdleSession.next \in 1..(Len(Recalls) + 1)
  <2>1. Len(Recalls) \in Nat
    BY Setting
  <2> QED
    BY <2>1 DEF IdleSession
<1>2. SessionType'
  BY <1>1 DEF SessionType, IdleSession, Stores
<1>3. Budgeted'
  BY TokensNone, Setting DEF Budgeted, IdleSession
<1> QED
  BY <1>2, <1>3 DEF SessionOK, Recalling, SkippedSaysWhy, IdleSession

\* A change of the stores, or none.
LEMMA DisturbedOK ==
    ASSUME SessionOK, session' = [session EXCEPT !.quiet = FALSE]
    PROVE  SessionOK'
<1>1. SessionType' /\ session'.quiet = FALSE
      /\ session'.pc = session.pc /\ session'.org = session.org /\ session'.pass = session.pass /\ session'.next = session.next
      /\ session'.used = session.used /\ session'.loaded = session.loaded /\ session'.skipped = session.skipped
      /\ session'.fulfilled = session.fulfilled
  BY DEF SessionOK, SessionType
<1>2. Budgeted'
  BY <1>1 DEF SessionOK, Budgeted
<1>3. Recalling'
  BY <1>1 DEF SessionOK, Recalling, Accounted, Truthful, Tried
<1>4. SkippedSaysWhy'
  BY <1>1 DEF SessionOK, SkippedSaysWhy
<1> QED
  BY <1>1, <1>2, <1>3, <1>4 DEF SessionOK

LEMMA UntouchedOK ==
    ASSUME SessionOK, UNCHANGED <<store, org, session>>
    PROVE  SessionOK'
BY DEF store, SessionOK, SessionType, Budgeted, Recalling, Accounted, Truthful, Tried, FoundIn, TooBig, SkippedSaysWhy, Org

LEMMA StartOK ==
    ASSUME NEW surface \in {"mcp", "stdio", "cli", "status"}, NEW opened \in BOOLEAN, StartFrom(surface, opened)
    PROVE  SessionOK'
<1>1. session' = [IdleSession EXCEPT !.pc = "recall", !.surface = surface, !.org = opened]
  BY DEF StartFrom
<1>2. session' = [pc |-> "recall", surface |-> surface, org |-> opened, pass |-> "primary", next |-> 1, used |-> 0,
                  loaded |-> << >>, skipped |-> << >>, fulfilled |-> {}, quiet |-> TRUE]
  BY <1>1 DEF IdleSession
<1>3. 1 \in 1..(Len(Recalls) + 1)
  <2>1. Len(Recalls) \in Nat
    BY Setting
  <2> QED
    BY <2>1
<1>4. SessionType'
  BY <1>2, <1>3 DEF SessionType, Stores
<1>5. Budgeted'
  BY <1>2, TokensNone, Setting DEF Budgeted
<1>6. Of(<< >>) = {}
  BY DEF Of
<1>7. \A st \in Stores : Tried(st)' = {}
  BY <1>2 DEF Tried, Stores
<1>8. Recalling'
  BY <1>2, <1>6, <1>7 DEF Recalling, Accounted, Truthful
<1> QED
  BY <1>2, <1>4, <1>5, <1>8 DEF SessionOK, SkippedSaysWhy

LEMMA NextPassOK ==
    ASSUME SessionOK, NextPass
    PROVE  SessionOK'
<1>1. session' = [session EXCEPT !.pass = "org", !.next = 1] /\ SameRest
      /\ session.pc = "recall" /\ session.org /\ session.pass = "primary"
      /\ session.next > Len(Recalls)
  BY DEF NextPass
<1>2. 1 \in 1..(Len(Recalls) + 1) /\ Len(Recalls) \in Nat /\ Of(Recalls) = {Recalls[k] : k \in 1..Len(Recalls)}
  BY Setting DEF Of
<1>3. session'.pass = "org" /\ session'.next = 1
      /\ session'.pc = session.pc /\ session'.org = session.org
      /\ session'.used = session.used /\ session'.loaded = session.loaded /\ session'.skipped = session.skipped
      /\ session'.fulfilled = session.fulfilled /\ session'.quiet = session.quiet
  BY <1>1 DEF SessionOK, SessionType
<1>4. SessionType'
  BY <1>1, <1>2 DEF SessionOK, SessionType, Stores
<1>5. Budgeted'
  BY <1>3 DEF SessionOK, Budgeted
<1>6. Tried("primary")' = Of(Recalls) /\ Tried("org")' = {}
  BY <1>2, <1>3 DEF Tried
<1>7. Tried("primary") = Of(Recalls)
  <2>1. session.next - 1 = Len(Recalls)
    BY <1>1, <1>2 DEF SessionOK, SessionType
  <2> QED
    BY <1>1, <1>2, <2>1 DEF Tried
<1>8. \A st, q : FoundIn(st, q)' = FoundIn(st, q) /\ TooBig(st, q)' = TooBig(st, q)
  BY <1>1, <1>3 DEF SameRest, store, FoundIn, Org, TooBig
<1>9. Accounted'
  BY <1>1, <1>3, <1>6, <1>7, <1>8 DEF SessionOK, Recalling, Accounted, Stores
<1>10. Truthful'
  BY <1>1, <1>3, <1>8 DEF SessionOK, Recalling, Truthful
<1> QED
  BY <1>1, <1>3, <1>4, <1>5, <1>9, <1>10 DEF SessionOK, Recalling, SkippedSaysWhy
LEMMA RecallNextOK ==
    ASSUME IInv, SessionOK, RecallNext
    PROVE  SessionOK'
<1> DEFINE n == session.next
           q == Recalls[n]
           at == session.pass
           found == FoundIn(at, q)
           fit == Fitting(found, session.used, MaxTokens)
           why == IF found = << >> THEN "not_found" ELSE "budget_exceeded"
           skip == Skip(q, why)
           more == IF fit # << >> THEN session.skipped ELSE Append(session.skipped, skip)
           full == IF fit = << >> THEN session.fulfilled ELSE session.fulfilled \cup {q}
<1>1. /\ session.pc = "recall" /\ n <= Len(Recalls)
      /\ session' = [session EXCEPT !.next = n + 1, !.used = @ + TokensOf(fit), !.loaded = @ \o fit,
                                    !.fulfilled = full, !.skipped = more]
      /\ UNCHANGED <<shelf, org>>
  BY DEF RecallNext, SameRest, FoundIn, store
<1>2. /\ n \in 1..(Len(Recalls) + 1) /\ at \in Stores /\ session.used \in Nat /\ session.loaded \in Seq(Entries)
      /\ session.skipped \in Seq(Skips) /\ session.fulfilled \in SUBSET Of(Recalls)
      /\ session.used = TokensOf(session.loaded) /\ session.used <= MaxTokens
  BY DEF SessionOK, SessionType, Budgeted
<1>3. Len(Recalls) \in Nat /\ n \in 1..Len(Recalls) /\ q \in Of(Recalls) /\ MaxTokens \in Nat
  BY <1>1, <1>2, Setting DEF Of
<1>4. found \in Seq(Entries)
  <2>1. Shelved(shelf["primary"]) /\ Shelved(Org)
    BY OrgShelved DEF IInv
  <2> QED
    BY <2>1, CandidatesType DEF FoundIn
<1>5. /\ fit \in Seq(Entries) /\ session.used + TokensOf(fit) <= MaxTokens /\ TokensOf(fit) \in Nat
      /\ fit = << >> => TooBig(at, q)
  <2> DEFINE u == session.used
  <2>1. u \in Nat /\ u <= MaxTokens
    BY <1>2
  <2> HIDE DEF found, u
  <2>2. LET f == Fitting(found, u, MaxTokens) IN
        /\ f \in Seq(Entries) /\ u + TokensOf(f) <= MaxTokens
        /\ f = << >> => \A e \in Of(found) : u + e.tokens > MaxTokens
    BY <1>3, <1>4, <2>1, FittingFits
  <2>3. fit = Fitting(found, u, MaxTokens)
    BY DEF u
  <2> HIDE DEF fit
  <2>4. TokensOf(fit) \in Nat
    BY <2>2, <2>3, TokensNat
  <2> QED
    BY <2>2, <2>3, <2>4 DEF TooBig, u, found
<1> HIDE DEF found, fit
<1>6. skip \in Skips /\ skip.query = q /\ skip.reason = why
  BY <1>3 DEF Skip, Skips, Reasons
<1>7. /\ more \in Seq(Skips) /\ full \in SUBSET Of(Recalls)
      /\ Of(more) = IF fit # << >> THEN Of(session.skipped) ELSE Of(session.skipped) \cup {skip}
  <2> HIDE DEF skip
  <2> DEFINE s == session.skipped
  <2>0. s \in Seq(Skips) /\ skip \in Skips
    BY <1>2, <1>6
  <2> HIDE DEF s, Skips
  <2>1. Append(s, skip) \in Seq(Skips) /\ <<skip>> \in Seq(Skips) /\ Append(s, skip) = s \o <<skip>>
    BY <2>0
  <2>2. Of(<<skip>>) = {skip}
    BY DEF Of
  <2>3. Of(Append(s, skip)) = Of(s) \cup {skip}
    <3> DEFINE t == <<skip>>
    <3>1. t \in Seq(Skips) /\ Append(s, skip) = s \o t /\ Of(t) = {skip}
      BY <2>1, <2>2
    <3> HIDE DEF t
    <3>2. Of(s \o t) = Of(s) \cup Of(t)
      BY <2>0, <3>1, OfBoth
    <3> QED
      BY <3>1, <3>2
  <2> QED
    BY <1>2, <1>3, <2>1, <2>3 DEF s
<1>8. /\ session'.pc = "recall" /\ session'.org = session.org /\ session'.pass = at /\ session'.quiet = session.quiet
      /\ session'.next = n + 1 /\ session'.used = session.used + TokensOf(fit)
      /\ session'.loaded = session.loaded \o fit /\ session'.fulfilled = full /\ session'.skipped = more
  <2> HIDE DEF more, full
  <2> QED
    BY <1>1 DEF SessionOK, SessionType
<1>9. SessionType'
  <2>1. n + 1 \in 1..(Len(Recalls) + 1) /\ session.used + TokensOf(fit) \in Nat /\ session.loaded \o fit \in Seq(Entries)
    BY <1>2, <1>3, <1>5
  <2> HIDE DEF more, full
  <2> QED
    BY <1>1, <1>7, <2>1 DEF SessionOK, SessionType
<1>10. Budgeted'
  <2>1. TokensOf(session.loaded \o fit) = TokensOf(session.loaded) + TokensOf(fit)
    BY <1>2, <1>5, TokensOfBoth
  <2> QED
    BY <1>2, <1>5, <1>8, <2>1 DEF Budgeted
<1>11. \A st, p : FoundIn(st, p)' = FoundIn(st, p)
  BY <1>1 DEF FoundIn, Org
<1>12. ASSUME NEW st \in Stores, NEW p, TooBig(st, p) PROVE TooBig(st, p)'
  <2>1. \A e \in Of(FoundIn(st, p)) : e.tokens \in Nat
    <3>1. Shelved(shelf["primary"]) /\ Shelved(Org)
      BY OrgShelved DEF IInv
    <3>2. FoundIn(st, p) \in Seq(Entries)
      BY <3>1, CandidatesType DEF FoundIn
    <3>3. Of(FoundIn(st, p)) \subseteq Entries
      BY <3>2 DEF Of
    <3> QED
      BY <3>3 DEF Entries, Saying
  <2> QED
    BY <1>2, <1>3, <1>5, <1>8, <1>11, <1>12, <2>1 DEF TooBig
<1>13. \A st \in Stores : \A p : p \in Tried(st)' => p \in Tried(st) \/ (st = at /\ p = q)
  <2>1. \A k \in 1..((n + 1) - 1) : k \in 1..(n - 1) \/ k = n
    BY <1>3
  <2> QED
    BY <1>8, <2>1 DEF Tried
<1>14. session.fulfilled \subseteq full /\ (fit # << >> => q \in full)
  OBVIOUS
<1>15. Of(session.skipped) \subseteq Of(more) /\ (fit = << >> => skip \in Of(more))
  BY <1>7
<1> HIDE DEF more, full
<1>16. Accounted'
  <2> SUFFICES ASSUME NEW st \in Stores, NEW p \in Tried(st)' \ full
               PROVE  /\ \E x \in Of(more) : x.query = p
                      /\ session.quiet /\ FoundIn(st, p) # << >> =>
                           Skip(p, "budget_exceeded") \in Of(more) /\ TooBig(st, p)'
    BY <1>8, <1>11 DEF Accounted
  <2>1. CASE p \in Tried(st)
    <3>1. p \in Tried(st) \ session.fulfilled
      BY <1>14, <2>1
    <3>2. /\ \E x \in Of(session.skipped) : x.query = p
          /\ session.quiet /\ FoundIn(st, p) # << >> =>
               Skip(p, "budget_exceeded") \in Of(session.skipped) /\ TooBig(st, p)
      BY <1>1, <3>1 DEF SessionOK, Recalling, Accounted
    <3> QED
      BY <1>12, <1>15, <3>2
  <2>2. CASE st = at /\ p = q
    <3>1. fit = << >>
      BY <1>14, <2>2
    <3>2. skip \in Of(more) /\ skip.query = p
      BY <1>6, <1>15, <2>2, <3>1
    <3>3. found # << >> => skip = Skip(p, "budget_exceeded")
      BY <2>2
    <3>4. TooBig(st, p)'
      BY <1>5, <1>12, <2>2, <3>1
    <3> HIDE DEF skip
    <3> QED
      BY <2>2, <3>2, <3>3, <3>4 DEF found
  <2> QED
    BY <1>13, <2>1, <2>2
<1>17. Truthful'
  <2> SUFFICES ASSUME session.quiet, NEW x \in Of(more), x.reason = "budget_exceeded"
               PROVE  \E st \in Stores : FoundIn(st, x.query) # << >>
    BY <1>8, <1>11 DEF Truthful
  <2>1. CASE x \in Of(session.skipped)
    BY <1>1, <2>1 DEF SessionOK, Recalling, Truthful
  <2>2. CASE x = skip
    <3>1. found # << >> /\ x.query = q
      BY <1>6, <2>2
    <3> QED
      BY <1>2, <3>1 DEF found
  <2> QED
    BY <1>7, <2>1, <2>2
<1>18. at = "org" => session.org
  BY <1>1 DEF SessionOK, Recalling
<1> QED
  BY <1>8, <1>9, <1>10, <1>16, <1>17, <1>18 DEF SessionOK, Recalling, SkippedSaysWhy

LEMMA EndPassesOK ==
    ASSUME IInv, SessionOK, EndPasses
    PROVE  SessionOK'
<1> DEFINE Q == Of(Recalls) \ session.fulfilled
           C == Collapse(session.skipped, session.fulfilled)
           r == IF session.org THEN SetToSeq(C) ELSE session.skipped
<1>1. /\ session.pc = "recall" /\ session.next > Len(Recalls) /\ (session.org => session.pass = "org")
      /\ session' = [session EXCEPT !.pc = "done", !.skipped = r]
      /\ UNCHANGED <<shelf, org>>
  BY DEF EndPasses, SameRest, store
<1>2. session.skipped \in Seq(Skips) /\ session.fulfilled \in SUBSET Of(Recalls)
  BY DEF SessionOK, SessionType
<1>3. ASSUME session.org PROVE \A st \in Stores : Tried(st) = Of(Recalls)
  <2>1. Len(Recalls) \in Nat /\ Of(Recalls) = {Recalls[k] : k \in 1..Len(Recalls)}
    BY Setting DEF Of
  <2>2. session.next - 1 = Len(Recalls)
    BY <1>1, <2>1 DEF SessionOK, SessionType
  <2> QED
    BY <1>1, <1>3, <2>1, <2>2 DEF Tried, Stores
<1>4. Accounted /\ Truthful
  BY <1>1 DEF SessionOK, Recalling
<1>5. ASSUME session.org PROVE \A q \in Q : \E x \in Of(session.skipped) : x.query = q
  <2>1. "primary" \in Stores
    BY DEF Stores
  <2> QED
    BY <1>3, <1>4, <1>5, <2>1 DEF Accounted
<1>6. ASSUME session.org
      PROVE  r \in Seq(Skips) /\ Of(r) = C /\ {x.query : x \in Of(r)} = Q /\ Len(r) = Cardinality(Q)
  <2>1. r = SetToSeq(C)
    BY <1>6
  <2> HIDE DEF r
  <2> QED
    BY <1>2, <1>5, <1>6, <2>1, Collapsed
<1>7. r \in Seq(Skips)
  BY <1>2, <1>6
<1> HIDE DEF r, C
<1>8. /\ session'.pc = "done" /\ session'.org = session.org /\ session'.used = session.used
      /\ session'.loaded = session.loaded /\ session'.fulfilled = session.fulfilled
      /\ session'.quiet = session.quiet /\ session'.skipped = r
  BY <1>1 DEF SessionOK, SessionType
<1>9. SessionType'
  BY <1>1, <1>7 DEF SessionOK, SessionType
<1>10. Budgeted'
  BY <1>8 DEF SessionOK, Budgeted
<1> DEFINE matches(q) == Of(Candidates(shelf["primary"], q)) \cup Of(Candidates(Org, q))
<1>11. ASSUME session.org, session.quiet, NEW x \in C
       PROVE  /\ x.reason = "budget_exceeded" <=> matches(x.query) # {}
              /\ \A e \in matches(x.query) : session.used + e.tokens > MaxTokens
  <2>1. x \in Of(session.skipped) /\ x.query \in Q
        /\ (Skip(x.query, "budget_exceeded") \in Of(session.skipped) => x.reason = "budget_exceeded")
    <3>1. x \in Of(session.skipped) /\ x.query \in Q
      <4>1. Of(session.skipped) \subseteq Skips
        BY <1>2 DEF Of
      <4> QED
        BY <1>11, <4>1 DEF C, Collapse, Skips
    <3>2. Skip(x.query, "budget_exceeded").query = x.query
      BY DEF Skip
    <3> QED
      BY <1>11, <3>1, <3>2 DEF C, Collapse
  <2>2. \A st \in Stores : FoundIn(st, x.query) # << >> =>
           Skip(x.query, "budget_exceeded") \in Of(session.skipped) /\ TooBig(st, x.query)
    BY <1>3, <1>4, <1>11, <2>1 DEF Accounted
  <2>3. x.reason = "budget_exceeded" => \E st \in Stores : FoundIn(st, x.query) # << >>
    BY <1>4, <1>11, <2>1 DEF Truthful
  <2>4. \A st \in Stores : Of(FoundIn(st, x.query)) = {} <=> FoundIn(st, x.query) = << >>
    <3>1. Shelved(shelf["primary"]) /\ Shelved(Org)
      BY OrgShelved DEF IInv
    <3>2. \A st \in Stores : FoundIn(st, x.query) \in Seq(Entries)
      BY <3>1, CandidatesType DEF FoundIn
    <3> QED
      BY <3>2, OfEmpty
  <2>5. matches(x.query) = Of(FoundIn("primary", x.query)) \cup Of(FoundIn("org", x.query))
    BY DEF FoundIn
  <2>6. Stores = {"primary", "org"}
    BY DEF Stores
  <2> HIDE DEF matches
  <2>7. matches(x.query) # {} <=> \E st \in Stores : FoundIn(st, x.query) # << >>
    BY <2>4, <2>5, <2>6
  <2>8. \A e \in matches(x.query) : session.used + e.tokens > MaxTokens
    <3> TAKE e \in matches(x.query)
    <3>1. PICK st \in Stores : e \in Of(FoundIn(st, x.query))
      BY <2>5, <2>6
    <3> QED
      BY <2>2, <2>4, <3>1 DEF TooBig
  <2> QED
    BY <2>1, <2>2, <2>3, <2>7, <2>8
<1>12. \A q : matches(q)' = matches(q)
  BY <1>1 DEF Org
<1>13. SkippedSaysWhy'
  <2>1. Budgeted
    BY DEF SessionOK
  <2>2. session.org => {x.query : x \in Of(r)} = Q /\ Len(r) = Cardinality(Q)
    BY <1>6
  <2>3. session.org /\ session.quiet => \A x \in Of(r) :
           /\ x.reason = "budget_exceeded" <=> matches(x.query) # {}
           /\ \A e \in matches(x.query) : session.used + e.tokens > MaxTokens
    <3> HIDE DEF matches
    <3> QED
      BY <1>6, <1>11
  <2>4. shelf' = shelf /\ Org' = Org
    BY <1>1 DEF Org
  <2> QED
    BY <1>8, <2>1, <2>2, <2>3, <2>4 DEF SkippedSaysWhy, Budgeted
<1> QED
  BY <1>8, <1>9, <1>10, <1>13 DEF SessionOK, Recalling
LEMMA SessionSteps ==
    ASSUME IInv, SessionOK, Next
    PROVE  SessionOK'
<1>1. CASE Disturbed
  BY <1>1, DisturbedOK DEF Disturbed
<1>2. CASE Left
  BY <1>2, UntouchedOK, IdleOK DEF Left, store
<1>3. CASE Sessions
  <2>1. CASE StartSession
    <3>1. \A s \in Mcp : s \in {"mcp", "stdio", "cli", "status"}
      BY DEF Mcp
    <3> QED
      BY <2>1, <3>1, StartOK DEF StartSession
  <2>2. CASE StartCliSession \/ Preview
    BY <2>2, StartOK DEF StartCliSession, Preview
  <2>3. CASE RecallNext
    BY <2>3, RecallNextOK
  <2>4. CASE NextPass
    BY <2>4, NextPassOK
  <2>5. CASE EndPasses
    BY <2>5, EndPassesOK
  <2>6. CASE EndSession
    BY <2>6, IdleOK DEF EndSession
  <2> QED
    BY <1>3, <2>1, <2>2, <2>3, <2>4, <2>5, <2>6 DEF Sessions
<1> QED
  BY <1>1, <1>2, <1>3, Steps DEF Stays

LEMMA SessionBegin == ASSUME Init PROVE SessionOK
<1>1. session = IdleSession
  BY DEF Init
<1>2. IdleSession.next \in 1..(Len(Recalls) + 1)
  <2>1. Len(Recalls) \in Nat
    BY Setting
  <2> QED
    BY <2>1 DEF IdleSession
<1>3. SessionType
  BY <1>1, <1>2 DEF SessionType, IdleSession, Stores
<1>4. Budgeted
  BY <1>1, TokensNone, Setting DEF Budgeted, IdleSession
<1> QED
  BY <1>1, <1>3, <1>4 DEF SessionOK, Recalling, SkippedSaysWhy, IdleSession

(* The reasons that a session start gives, from recalls in any number and   *)
(* order, doublets and both files' included, over any stores and whatever   *)
(* writes them while it runs: never over the budget, each query of which    *)
(* nothing was loaded once, and the budget named exactly when it is why.    *)
THEOREM SessionSaysWhy == Spec => []SkippedSaysWhy
<1>1. Init => IInv /\ SessionOK
  BY Begin, SessionBegin
<1>2. (IInv /\ SessionOK) /\ [Next]_vars => (IInv /\ SessionOK)'
  <2>1. ASSUME IInv, SessionOK, UNCHANGED vars PROVE SessionOK'
    BY <2>1, UntouchedOK DEF vars, store
  <2>2. ASSUME IInv, SessionOK, Next PROVE IInv' /\ SessionOK'
    BY <2>2, Steps, SessionSteps
  <2>3. ASSUME IInv, UNCHANGED vars PROVE IInv'
    BY <2>3, Idles
  <2> QED
    BY <2>1, <2>2, <2>3
<1>3. IInv /\ SessionOK => SkippedSaysWhy
  BY DEF SessionOK
<1> QED
  BY <1>1, <1>2, <1>3, PTL DEF Spec
-----------------------------------------------------------------------------
(* The dashboard.                                                           *)

Listings == Seq(Entries) \cup SUBSET Edges
Fetch == [read : 0..2, p : Listings, o : Listings, fresh : BOOLEAN, late : BOOLEAN]

DashType ==
    /\ view \in {"memories", "edges"} /\ tab \in {"closed", "loading", "loaded", "open", "cut"}
    /\ fetches \in Seq(Fetch)

\* A refresh that shows what the stores list, as far as it has read.
Lists == Both(Listed("primary"), OrgListed)
Current(f) == (f.read >= 1 => f.p = Listed("primary")) /\ (f.read = 2 => f.o = OrgListed)

\* The last refresh, if none that was started after it has been shown.
Newest == fetches[Len(fetches)]
Settled == fetches = << >> \/ Newest.late

Tidy ==
    /\ tab # "open" => events = 0
    /\ tab \in {"closed", "loaded", "cut"} => fetches = << >>
    /\ tab = "loading" => Len(fetches) = 1 /\ ~fetches[1].late
    /\ \A j, k \in 1..Len(fetches) : j < k =>
          (fetches[k].late => fetches[j].late) /\ (fetches[j].fresh => fetches[k].fresh)

\* What was to be known is shown, or is on its way: a signal, or the newest
\* refresh, and for as long as one is fresh it makes up for what was missed.
Following ==
    /\ tab = "loading" /\ (Newest.fresh \/ ~missed) => Current(Newest)
    /\ tab \in {"loaded", "cut"} /\ ~missed => screen = Lists
    /\ tab = "open" /\ ~missed => Signals \/ IF Settled THEN screen = Lists ELSE Current(Newest)
    /\ tab = "open" /\ ~Settled /\ Newest.fresh => Signals \/ Current(Newest)

DashOK == DashType /\ Tidy /\ Following

LEMMA ListedType == ASSUME IInv, DashType PROVE Listed("primary") \in Listings /\ OrgListed \in Listings
BY DEF IInv, StoresOK, DashType, Listings, Listed, OrgListed, Nothing, Stores

\* Of a change that the dashboard is not told of no refresh is fresh.
LEMMA StaleOK ==
    ASSUME DashOK, missed' = (tab # "closed"), UNCHANGED <<view, tab, screen, events>>,
           fetches' = [k \in DOMAIN fetches |-> [fetches[k] EXCEPT !.fresh = FALSE]]
    PROVE  DashOK'
<1> DEFINE n == Len(fetches)
           stale == [k \in DOMAIN fetches |-> [fetches[k] EXCEPT !.fresh = FALSE]]
<1>1. fetches \in Seq(Fetch) /\ n \in Nat /\ DOMAIN fetches = 1..n /\ \A k \in 1..n : fetches[k] \in Fetch
  BY DEF DashOK, DashType
<1>2. ASSUME NEW f \in Fetch
      PROVE  [f EXCEPT !.fresh = FALSE] \in Fetch /\ [f EXCEPT !.fresh = FALSE].late = f.late
             /\ [f EXCEPT !.fresh = FALSE].fresh = FALSE
  BY DEF Fetch
<1> HIDE DEF n
<1>3. stale \in Seq(Fetch) /\ Len(stale) = n
      /\ \A k \in 1..n : stale[k].late = fetches[k].late /\ stale[k].fresh = FALSE
  <2> DEFINE r(k) == [fetches[k] EXCEPT !.fresh = FALSE]
  <2>1. \A k \in 1..n : r(k) \in Fetch /\ r(k).late = fetches[k].late /\ r(k).fresh = FALSE
    BY <1>1, <1>2
  <2>2. stale = [k \in 1..n |-> r(k)]
    BY <1>1
  <2> HIDE DEF r, stale
  <2> QED
    BY <1>1, <2>1, <2>2
<1>4. n = 0 <=> fetches = << >>
  BY <1>1 DEF n
<1>5. n = 0 <=> stale = << >>
  <2> HIDE DEF stale
  <2> QED
    BY <1>1, <1>3
<1>6. fetches' = stale
  OBVIOUS
<1> HIDE DEF stale
<1>7. DashType'
  BY <1>3, <1>6 DEF DashOK, DashType
<1>8. Len(fetches') = n /\ \A k \in 1..n : fetches'[k].late = fetches[k].late /\ fetches'[k].fresh = FALSE
  BY <1>3, <1>6
<1>9. Tidy'
  <2>1. (tab # "open" => events = 0)' /\ (tab \in {"closed", "loaded", "cut"} => fetches = << >>)'
    BY <1>4, <1>5, <1>6 DEF DashOK, Tidy
  <2>2. (tab = "loading" => Len(fetches) = 1 /\ ~fetches[1].late)'
    <3>1. tab = "loading" => n = 1 /\ ~fetches[1].late
      BY DEF DashOK, Tidy, n
    <3> QED
      BY <1>8, <3>1
  <2>3. (\A j, k \in 1..Len(fetches) : j < k =>
          (fetches[k].late => fetches[j].late) /\ (fetches[j].fresh => fetches[k].fresh))'
    <3>1. \A j, k \in 1..n : j < k => (fetches[k].late => fetches[j].late)
      BY DEF DashOK, Tidy, n
    <3> QED
      BY <1>8, <3>1
  <2> QED
    BY <2>1, <2>2, <2>3 DEF Tidy
<1>10. fetches' # << >> => Newest'.fresh = FALSE
  <2>1. n # 0 => n \in 1..n
    BY <1>1
  <2> QED
    BY <1>5, <1>6, <1>8, <2>1 DEF Newest
<1>11. tab' = "loading" => fetches' # << >>
  BY <1>5, <1>6, <1>8, <1>9 DEF Tidy
<1> QED
  BY <1>7, <1>9, <1>10, <1>11 DEF DashOK, Following, Settled

LEMMA HeardOK ==
    ASSUME IInv, DashOK, Heard
    PROVE  DashOK'
<1>0. PICK st \in Stores : \E s, l, surface, op : Write(st, s, l, surface, op) /\ (Told(surface, op, st) => Signals')
  BY DEF Heard
<1>1. PICK s, l, surface, op : Write(st, s, l, surface, op) /\ (Told(surface, op, st) => Signals')
  BY <1>0
<1> DEFINE told == Told(surface, op, st)
<1>2. /\ missed' = (tab # "closed" /\ (missed \/ ~told \/ tab # "open"))
      /\ fetches' = IF told /\ tab = "open" THEN fetches
                    ELSE [k \in DOMAIN fetches |-> [fetches[k] EXCEPT !.fresh = FALSE]]
      /\ UNCHANGED <<view, tab, screen, events>>
  BY <1>1 DEF Write, Unheard, dash
<1> HIDE DEF told
<1>3. CASE told /\ tab = "open"
  <2>1. Signals' /\ fetches' = fetches
    BY <1>1, <1>2, <1>3 DEF told
  <2> QED
    BY <1>2, <1>3, <2>1 DEF DashOK, DashType, Tidy, Following
<1>4. CASE ~(told /\ tab = "open")
  <2>1. missed' = (tab # "closed")
    BY <1>2, <1>4
  <2> QED
    BY <1>2, <1>4, <2>1, StaleOK
<1> QED
  BY <1>3, <1>4

LEMMA SilentOK ==
    ASSUME IInv, DashOK, Silent
    PROVE  DashOK'
<1>1. UNCHANGED <<shelf, links, org, view, tab, screen, fetches, missed>>
      /\ (tab = "open" /\ Signals => Signals') /\ (tab # "open" => events' = events)
  BY DEF Silent, store
<1>2. Lists' = Lists /\ Newest' = Newest /\ Settled' = Settled /\ \A f : Current(f)' = Current(f)
  BY <1>1 DEF Lists, Both, Listed, OrgListed, Nothing, Newest, Settled, Current
<1> QED
  BY <1>1, <1>2 DEF DashOK, DashType, Tidy, Following

LEMMA TurnedOK ==
    ASSUME DashOK, NEW state, OrgTurns(state)
    PROVE  DashOK'
<1>1. missed' = (tab # "closed") /\ UNCHANGED <<view, tab, screen, events>>
      /\ fetches' = [k \in DOMAIN fetches |-> [fetches[k] EXCEPT !.fresh = FALSE]]
  BY DEF OrgTurns, Unheard, dash
<1> QED
  BY <1>1, StaleOK
LEMMA PollOK == ASSUME IInv, Poll PROVE Silent
<1>1. UNCHANGED <<store, org, call, view, tab, screen, fetches, missed>>
      /\ events' = (IF polled /\ tab = "open" THEN events + 1 ELSE events)
  BY DEF Poll, SameWorld
<1>2. \A q : There(q)' = There(q)
  BY <1>1 DEF store, There, Org
<1>3. ASSUME tab = "open", Signals PROVE Signals'
  <2>1. CASE events > 0 \/ (moved /\ polled)
    BY <1>1, <1>3, <2>1 DEF Signals, IInv
  <2>2. CASE \E c \in Clients : call[c].pc = "notify" \/ (call[c].pc = "reread" /\ There(call[c]))
    BY <1>1, <1>2, <2>2 DEF Signals
  <2> QED
    BY <1>3, <2>1, <2>2 DEF Signals
<1> QED
  BY <1>1, <1>3 DEF Silent, IInv, store

LEMMA NewFetchType ==
    ASSUME DashType
    PROVE  NewFetch \in Fetch /\ NewFetch.fresh = TRUE /\ NewFetch.late = FALSE /\ Current(NewFetch)
BY DEF DashType, NewFetch, Nothing, Fetch, Listings, Current

LEMMA TabOK ==
    ASSUME DashOK, OpenTab \/ Connect \/ CloseTab
    PROVE  DashOK'
<1>1. CASE OpenTab
  <2>1. tab = "closed" /\ tab' = "loading" /\ fetches' = <<NewFetch>>
        /\ UNCHANGED <<shelf, links, org, view, events>>
    BY <1>1 DEF OpenTab, SameWorld, store
  <2>2. NewFetch \in Fetch /\ NewFetch.fresh = TRUE /\ NewFetch.late = FALSE /\ Current(NewFetch)
    BY NewFetchType DEF DashOK
  <2>3. Len(fetches') = 1 /\ fetches'[1] = NewFetch /\ fetches' \in Seq(Fetch)
    BY <2>1, <2>2
  <2>4. \A f : Current(f)' = Current(f)
    BY <2>1 DEF Current, Listed, OrgListed, Nothing
  <2>5. DashType'
    BY <2>1, <2>3 DEF DashOK, DashType
  <2>6. Tidy'
    BY <2>1, <2>2, <2>3 DEF DashOK, Tidy
  <2> QED
    BY <2>1, <2>2, <2>3, <2>4, <2>5, <2>6 DEF DashOK, Following, Newest
<1>2. CASE Connect
  <2>1. tab \in {"loaded", "cut"} /\ tab' = "open" /\ UNCHANGED <<shelf, links, org, view, screen, events, fetches, missed>>
    BY <1>2 DEF Connect, SameWorld, store, dash
  <2>2. Lists' = Lists /\ fetches = << >> /\ (~missed => screen = Lists)
    BY <2>1 DEF Lists, Both, Listed, OrgListed, Nothing, DashOK, Tidy, Following
  <2>3. Settled'
    BY <2>1, <2>2 DEF Settled
  <2> QED
    BY <2>1, <2>2, <2>3 DEF DashOK, DashType, Tidy, Following
<1>3. CASE CloseTab
  <2>1. tab' = "closed" /\ fetches' = << >> /\ events' = 0 /\ view' = view
    BY <1>3 DEF CloseTab, SameWorld
  <2> QED
    BY <2>1 DEF DashOK, DashType, Tidy, Following
<1> QED
  BY <1>1, <1>2, <1>3

LEMMA RestartOK ==
    ASSUME DashOK, Restart
    PROVE  DashOK'
<1>1. /\ events' = 0 /\ fetches' = << >> /\ view' = view
      /\ tab' = CASE tab = "open" -> "cut" [] tab = "loading" -> "closed" [] OTHER -> tab
      /\ missed' = (tab \notin {"closed", "loading"})
  BY DEF Restart
<1>2. tab' \in {"closed", "loaded", "cut"} /\ (tab' # "closed" => missed')
  BY <1>1 DEF DashOK, DashType
<1> QED
  BY <1>1, <1>2 DEF DashOK, DashType, Tidy, Following

LEMMA DeliverOK ==
    ASSUME IInv, DashOK, Deliver
    PROVE  DashOK'
<1> DEFINE n == Len(fetches)
           more == Append(fetches, NewFetch)
<1>1. events > 0 /\ fetches' = more /\ UNCHANGED <<shelf, links, org, view, tab, screen, missed>>
  BY DEF Deliver, SameWorld, store
<1>2. tab = "open"
  BY <1>1 DEF DashOK, Tidy
<1>3. NewFetch \in Fetch /\ NewFetch.fresh = TRUE /\ NewFetch.late = FALSE /\ Current(NewFetch)
  BY NewFetchType DEF DashOK
<1>4. n \in Nat /\ more \in Seq(Fetch) /\ Len(more) = n + 1 /\ more[n + 1] = NewFetch
      /\ \A k \in 1..n : more[k] = fetches[k]
  BY <1>3 DEF DashOK, DashType
<1>5. \A j, k \in 1..n : j < k => (fetches[k].late => fetches[j].late) /\ (fetches[j].fresh => fetches[k].fresh)
  BY DEF DashOK, Tidy
<1> HIDE DEF more, n
<1>6. \A f : Current(f)' = Current(f)
  BY <1>1 DEF Current, Listed, OrgListed, Nothing
<1>7. \A j, k \in 1..Len(more) : j < k => (more[k].late => more[j].late) /\ (more[j].fresh => more[k].fresh)
  <2> TAKE j, k \in 1..Len(more)
  <2> HAVE j < k
  <2>1. j \in 1..n
    BY <1>4
  <2>2. CASE k = n + 1
    BY <1>3, <1>4, <2>2
  <2>3. CASE k # n + 1
    <3>1. k \in 1..n
      BY <1>4, <2>3
    <3> QED
      BY <1>4, <1>5, <2>1, <3>1
  <2> QED
    BY <2>2, <2>3
<1>8. Newest' = NewFetch /\ fetches' # << >>
  BY <1>1, <1>4 DEF Newest
<1>9. ~Settled' /\ Current(Newest)'
  BY <1>3, <1>6, <1>8 DEF Settled
<1> QED
  BY <1>1, <1>2, <1>4, <1>7, <1>9 DEF DashOK, DashType, Tidy, Following

LEMMA ReadOK ==
    ASSUME IInv, DashOK, NEW k \in DOMAIN fetches, Read(k)
    PROVE  DashOK'
<1> DEFINE n == Len(fetches)
           f == fetches[k]
           g == IF f.read = 0 THEN [f EXCEPT !.read = 1, !.p = Listed("primary")]
                ELSE [f EXCEPT !.read = 2, !.o = OrgListed]
<1>1. f.read < 2 /\ fetches' = [fetches EXCEPT ![k] = g]
      /\ UNCHANGED <<shelf, links, org, call, view, tab, screen, events, moved, polled, missed>>
  BY DEF Read, SameWorld, store, dash
<1>2. fetches \in Seq(Fetch) /\ n \in Nat /\ k \in 1..n /\ f \in Fetch
  BY DEF DashOK, DashType
<1>3. Listed("primary") \in Listings /\ OrgListed \in Listings
  BY ListedType DEF DashOK
<1>4. g \in Fetch /\ g.late = f.late /\ g.fresh = f.fresh /\ (Current(f) => Current(g))
  <2> HIDE DEF f
  <2>1. CASE f.read = 0
    <3>1. g = [f EXCEPT !.read = 1, !.p = Listed("primary")]
      BY <2>1
    <3>2. f \in Fetch
      BY <1>2
    <3> HIDE DEF g
    <3>3. g = [read |-> 1, p |-> Listed("primary"), o |-> f.o, fresh |-> f.fresh, late |-> f.late]
      BY <3>1, <3>2 DEF Fetch
    <3>4. f.o \in Listings /\ f.fresh \in BOOLEAN /\ f.late \in BOOLEAN
      BY <3>2 DEF Fetch
    <3>5. g \in Fetch
      BY <1>3, <3>3, <3>4 DEF Fetch
    <3> QED
      BY <3>3, <3>5 DEF Current
  <2>2. CASE f.read # 0
    <3>1. g = [f EXCEPT !.read = 2, !.o = OrgListed]
      BY <2>2
    <3>2. f \in Fetch /\ f.read = 1
      BY <1>1, <1>2, <2>2 DEF Fetch
    <3> HIDE DEF g
    <3>3. g = [read |-> 2, p |-> f.p, o |-> OrgListed, fresh |-> f.fresh, late |-> f.late]
      BY <3>1, <3>2 DEF Fetch
    <3>4. f.p \in Listings /\ f.fresh \in BOOLEAN /\ f.late \in BOOLEAN
      BY <3>2 DEF Fetch
    <3>5. g \in Fetch
      BY <1>3, <3>3, <3>4 DEF Fetch
    <3> QED
      BY <3>2, <3>3, <3>5 DEF Current
  <2> QED
    BY <2>1, <2>2
<1> HIDE DEF f, g, n
<1>5. Len(fetches') = n /\ fetches' \in Seq(Fetch)
      /\ \A j \in 1..n : fetches'[j] = IF j = k THEN g ELSE fetches[j]
  BY <1>1, <1>2, <1>4 DEF n
<1>6. \A j \in 1..n : /\ fetches'[j].late = fetches[j].late /\ fetches'[j].fresh = fetches[j].fresh
                      /\ Current(fetches[j]) => Current(fetches'[j])
  BY <1>4, <1>5 DEF f
<1>7. Lists' = Lists /\ Signals' = Signals /\ \A h : Current(h)' = Current(h)
  BY <1>1 DEF Lists, Both, Listed, OrgListed, Nothing, Current, Signals, There, Org
<1>8. n \in 1..n /\ fetches # << >> /\ fetches' # << >>
  BY <1>2, <1>5 DEF n
<1>9. Newest'.late = Newest.late /\ Newest'.fresh = Newest.fresh /\ (Current(Newest) => Current(Newest)')
  <2>1. Newest = fetches[n] /\ Newest' = fetches'[n]
    BY <1>5 DEF Newest, n
  <2> QED
    BY <1>6, <1>7, <1>8, <2>1
<1>10. Settled' = Settled
  BY <1>8, <1>9 DEF Settled
<1>11. Tidy'
  <2>1. Len(fetches) = n
    BY DEF n
  <2>2. n = 1 => 1 \in 1..n
    BY <1>2
  <2> QED
    BY <1>1, <1>5, <1>6, <1>8, <2>1, <2>2 DEF DashOK, Tidy
<1>12. DashType'
  BY <1>1, <1>5 DEF DashOK, DashType
<1> QED
  BY <1>1, <1>7, <1>9, <1>10, <1>11, <1>12 DEF DashOK, Following
\* A response is shown, and what was asked for before it will come late.
LEMMA Shown ==
    ASSUME DashOK, NEW k \in DOMAIN fetches, Show(k), NEW n, n = Len(fetches)
    PROVE  /\ fetches' \in Seq(Fetch) /\ Len(fetches') = n - 1
           /\ \A j \in 1..(n - 1) :
                 IF j < k THEN fetches'[j].late /\ fetches'[j].fresh = fetches[j].fresh
                 ELSE j + 1 \in 1..n /\ fetches'[j] = fetches[j + 1]
<1>1. fetches \in Seq(Fetch) /\ n \in Nat /\ k \in 1..n /\ \A j \in 1..n : fetches[j] \in Fetch
  BY DEF DashOK, DashType
<1> DEFINE r(j) == IF j < k THEN [fetches[j] EXCEPT !.late = TRUE] ELSE fetches[j + 1]
<1>2. fetches' = [j \in 1..(n - 1) |-> r(j)]
  BY DEF Show
<1>3. ASSUME NEW j \in 1..(n - 1)
      PROVE  r(j) \in Fetch /\ IF j < k THEN r(j).late /\ r(j).fresh = fetches[j].fresh
                                ELSE j + 1 \in 1..n /\ r(j) = fetches[j + 1]
  <2>1. j \in 1..n /\ j + 1 \in 1..n
    BY <1>1
  <2> QED
    BY <1>1, <2>1 DEF Fetch
<1>4. n - 1 \in Nat
  BY <1>1
<1> HIDE DEF r
<1> QED
  BY <1>2, <1>3, <1>4

LEMMA ShowOK ==
    ASSUME IInv, DashOK, NEW k \in DOMAIN fetches, Show(k)
    PROVE  DashOK'
<1> DEFINE n == Len(fetches)
           f == fetches[k]
<1>1. /\ f.read = 2 /\ screen' = Both(f.p, f.o) /\ missed' = (f.late \/ (missed /\ ~f.fresh))
      /\ tab' = (IF tab = "loading" THEN "loaded" ELSE tab)
      /\ UNCHANGED <<shelf, links, org, call, view, events, moved, polled>>
  BY DEF Show, SameWorld, store
<1>2. n \in Nat /\ k \in 1..n /\ n \in 1..n /\ fetches # << >> /\ f \in Fetch
  BY DEF DashOK, DashType
<1>3. /\ fetches' \in Seq(Fetch) /\ Len(fetches') = n - 1
      /\ \A j \in 1..(n - 1) :
            IF j < k THEN fetches'[j].late /\ fetches'[j].fresh = fetches[j].fresh
            ELSE j + 1 \in 1..n /\ fetches'[j] = fetches[j + 1]
  BY Shown
<1>4. \A i, j \in 1..n : i < j => (fetches[j].late => fetches[i].late) /\ (fetches[i].fresh => fetches[j].fresh)
  BY DEF DashOK, Tidy
<1>5. Newest = fetches[n] /\ (tab = "loading" => n = 1 /\ ~fetches[1].late)
      /\ tab \in {"loading", "open"} /\ (tab # "open" => events = 0)
  BY <1>2 DEF Newest, DashOK, DashType, Tidy
<1>6. Lists' = Lists /\ Signals' = Signals /\ \A h : Current(h)' = Current(h)
  BY <1>1 DEF Lists, Both, Listed, OrgListed, Nothing, Current, Signals, There, Org
<1>7. Current(f) => screen' = Lists'
  BY <1>1, <1>6 DEF Current, Lists
<1>8. fetches' = << >> <=> n = 1
  <2>1. n - 1 = 0 <=> n = 1
    BY <1>2
  <2> HIDE DEF n
  <2>2. \A q \in Seq(Fetch) : q = << >> <=> Len(q) = 0
    OBVIOUS
  <2> QED
    BY <1>3, <2>1, <2>2
<1>9. tab' = (IF tab = "loading" THEN "loaded" ELSE "open")
  BY <1>1, <1>5
<1> HIDE DEF n, f
<1>10. \A i, j \in 1..(n - 1) : i < j =>
          (fetches'[j].late => fetches'[i].late) /\ (fetches'[i].fresh => fetches'[j].fresh)
  <2> TAKE i, j \in 1..(n - 1)
  <2> HAVE i < j
  <2>1. i \in 1..n /\ j \in 1..n /\ k \in 1..n
    BY <1>2
  <2>2. CASE j < k
    <3>1. i < k
      BY <2>1, <2>2
    <3> QED
      BY <1>3, <1>4, <2>1, <2>2, <3>1
  <2>3. CASE ~(j < k) /\ i < k
    <3>1. j + 1 \in 1..n /\ fetches'[j] = fetches[j + 1] /\ fetches'[i].late /\ fetches'[i].fresh = fetches[i].fresh
      BY <1>3, <2>3
    <3>2. i < j + 1
      BY <2>1
    <3> QED
      BY <1>4, <2>1, <3>1, <3>2
  <2>4. CASE ~(j < k) /\ ~(i < k)
    <3>1. j + 1 \in 1..n /\ fetches'[j] = fetches[j + 1] /\ i + 1 \in 1..n /\ fetches'[i] = fetches[i + 1]
      BY <1>3, <2>4
    <3>2. i + 1 < j + 1
      BY <2>1
    <3> QED
      BY <1>4, <3>1, <3>2
  <2> QED
    BY <2>2, <2>3, <2>4
<1>11. Tidy'
  BY <1>1, <1>3, <1>5, <1>8, <1>9, <1>10 DEF Tidy
<1>12. DashType'
  BY <1>1, <1>3, <1>9 DEF DashOK, DashType
<1>13. CASE tab = "loading"
  <2>1. n = 1 /\ k = 1 /\ f = Newest /\ ~f.late
    BY <1>2, <1>5, <1>13 DEF f
  <2>2. ~missed' => Current(f)
    BY <1>1, <1>13, <2>1 DEF DashOK, Following
  <2> QED
    BY <1>7, <1>9, <1>11, <1>12, <1>13, <2>2 DEF DashOK, Following
<1>14. CASE tab = "open"
  <2>0. Settled <=> Newest.late
    BY <1>2 DEF Settled
  <2>1. CASE k = n
    <3>1. f = Newest
      BY <1>5, <2>1 DEF f
    <3>2. Settled'
      <4>1. CASE n = 1
        BY <1>8, <4>1 DEF Settled
      <4>2. CASE n # 1
        <5>1. n - 1 \in 1..(n - 1) /\ n - 1 < k
          BY <1>2, <2>1, <4>2
        <5> QED
          BY <1>3, <5>1 DEF Settled, Newest
      <4> QED
        BY <4>1, <4>2
    <3>3. ~missed' => ~Settled /\ (Signals \/ Current(f))
      BY <1>1, <1>14, <2>0, <3>1 DEF DashOK, Following
    <3>4. ~missed' => Signals' \/ screen' = Lists'
      BY <1>6, <1>7, <3>3
    <3> QED
      BY <1>9, <1>11, <1>12, <1>14, <3>2, <3>4 DEF DashOK, Following
  <2>2. CASE k # n
    <3>1. n - 1 \in 1..(n - 1) /\ ~(n - 1 < k) /\ k < n /\ n # 1 /\ n - 1 + 1 = n
      BY <1>2, <2>2
    <3>2. fetches'[n - 1] = fetches[n]
      BY <1>3, <3>1
    <3>3. Newest' = Newest
      BY <1>3, <1>5, <3>2 DEF Newest
    <3>4. Settled' = Settled
      BY <1>2, <1>8, <3>1, <3>3 DEF Settled
    <3>5. (Newest.late => f.late) /\ (f.fresh => Newest.fresh)
      BY <1>2, <1>4, <1>5, <3>1 DEF f
    <3>6. ~missed' => ~Settled /\ (Signals \/ Current(Newest))
      BY <1>1, <1>14, <2>0, <3>5 DEF DashOK, Following
    <3>7. Current(Newest)' = Current(Newest)
      BY <1>6, <3>3 DEF Current
    <3>8. ~missed' => ~Settled' /\ (Signals' \/ Current(Newest)')
      BY <1>6, <3>4, <3>6, <3>7
    <3>9. ~Settled' /\ Newest'.fresh => Signals' \/ Current(Newest)'
      BY <1>6, <1>14, <3>3, <3>4, <3>7 DEF DashOK, Following
    <3> QED
      BY <1>9, <1>11, <1>12, <1>14, <3>8, <3>9 DEF DashOK, Following
  <2> QED
    BY <2>1, <2>2
<1> QED
  BY <1>5, <1>13, <1>14
LEMMA DashBegin ==
    ASSUME Init
    PROVE  DashOK
BY DEF Init, DashOK, DashType, Tidy, Following

LEMMA DashStays ==
    ASSUME DashOK, UNCHANGED vars
    PROVE  DashOK'
<1>1. UNCHANGED <<shelf, links, org, call, view, tab, screen, fetches, events, moved, polled, missed>>
  BY DEF vars
<1>2. Lists' = Lists /\ Newest' = Newest /\ Settled' = Settled /\ Signals' = Signals
      /\ \A f : Current(f)' = Current(f)
  BY <1>1 DEF Lists, Both, Listed, OrgListed, Nothing, Newest, Settled, Current, Signals, There, Org
<1> QED
  BY <1>1, <1>2 DEF DashOK, DashType, Tidy, Following

LEMMA DashSteps ==
    ASSUME IInv, DashOK, Next
    PROVE  DashOK'
<1>1. CASE Heard
  BY <1>1, HeardOK
<1>2. CASE Silent \/ Poll
  BY <1>2, SilentOK, PollOK
<1>3. CASE OrgTurns("up") \/ OrgTurns("down")
  BY <1>3, TurnedOK
<1>4. CASE OpenTab \/ Connect \/ CloseTab
  BY <1>4, TabOK
<1>5. CASE Deliver
  BY <1>5, DeliverOK
<1>6. CASE Fetching
  BY <1>6, ReadOK, ShowOK DEF Fetching
<1>7. CASE Restart
  BY <1>7, RestartOK
<1> QED
  BY <1>1, <1>2, <1>3, <1>4, <1>5, <1>6, <1>7, Steps DEF Dashes

\* No event is due and no refresh is under way.
Arrived ==
    /\ events = 0 /\ fetches = << >> /\ ~(moved /\ polled)
    /\ \A c \in Clients : call[c].pc \notin {"reread", "notify"}

(* The safety half of ScreenCatchesUp: a page that could know of every      *)
(* change, and to which nothing is on its way any more, shows what the      *)
(* stores list - whichever writes, polls, reconnections and overtaking      *)
(* responses brought it there.                                              *)
ScreenIsCurrent == tab \notin {"closed", "loading"} /\ ~missed /\ Arrived => screen = Lists

THEOREM DashboardFollows == Spec => []ScreenIsCurrent
<1>1. Init => IInv /\ DashOK
  BY Begin, DashBegin
<1>2. (IInv /\ DashOK) /\ [Next]_vars => (IInv /\ DashOK)'
  <2>1. ASSUME IInv, DashOK, UNCHANGED vars PROVE IInv' /\ DashOK'
    BY <2>1, Idles, DashStays
  <2>2. ASSUME IInv, DashOK, Next PROVE IInv' /\ DashOK'
    BY <2>2, Steps, DashSteps
  <2> QED
    BY <2>1, <2>2
<1>3. IInv /\ DashOK => ScreenIsCurrent
  <2> SUFFICES ASSUME IInv, DashOK, tab \notin {"closed", "loading"}, ~missed, Arrived PROVE screen = Lists
    BY DEF ScreenIsCurrent
  <2>1. ~Signals /\ Settled
    BY DEF Arrived, Signals, Settled
  <2> QED
    BY <2>1 DEF DashOK, DashType, Following
<1> QED
  BY <1>1, <1>2, <1>3, PTL DEF Spec
=============================================================================
