--------------------------- MODULE SSDModelProofs ---------------------------
(***************************************************************************)
(* For any draft tree, vocabulary, prompts and failures and any number of  *)
(* calls: every token is the network's choice after exactly the text the   *)
(* cache holds, the root and the tokens accepted before it, the accepted   *)
(* branch is the longest the tree offers, its entries are what the cache   *)
(* gains, and the next tree is drafted from where it ended.                *)
(***************************************************************************)
EXTENDS SSDModel, SharedFacts, FiniteSetTheorems
-----------------------------------------------------------------------------
(* The draft tree.                                                         *)

\* A function that follows parents down to a root: f of a node from f of its parent.
Descends(f, S, base, up, move, n) ==
    /\ f \in [0 .. n -> S]
    /\ f[0] = base
    /\ \A i \in 1 .. n : f[i] = move[i][f[up[i]]]

\* There is one when every parent comes before its children.
LEMMA Descent ==
    ASSUME NEW S, NEW base \in S, NEW move \in Steps(S), NEW up, NEW n \in Nat,
           \A i \in 1 .. n : up[i] \in 0 .. i - 1
    PROVE  \E f : Descends(f, S, base, up, move, n)
  <1> DEFINE Good == {m \in Nat : m <= n => \E f : Descends(f, S, base, up, move, m)}
  <1>1. 0 \in Good
    <2> DEFINE f == [i \in 0 .. 0 |-> base]
    <2>1. Descends(f, S, base, up, move, 0)
      BY DEF Descends
    <2> QED BY <2>1
  <1>2. ASSUME NEW m \in Nat, m \in Good PROVE m + 1 \in Good
    <2> SUFFICES ASSUME m + 1 <= n PROVE \E f : Descends(f, S, base, up, move, m + 1)
      OBVIOUS
    <2>1. PICK f : Descends(f, S, base, up, move, m)
      BY <1>2
    <2> DEFINE g == [i \in 0 .. m + 1 |-> IF i <= m THEN f[i] ELSE move[m + 1][f[up[m + 1]]]]
    <2>2. up[m + 1] \in 0 .. m
      <3>1. m + 1 \in 1 .. n /\ (m + 1) - 1 = m
        OBVIOUS
      <3> QED BY <3>1
    <2>3. move[m + 1] \in [S -> S] /\ f[up[m + 1]] \in S /\ f \in [0 .. m -> S]
      BY <2>1, <2>2 DEF Descends, Steps
    <2>4. g \in [0 .. m + 1 -> S]
      BY <2>3
    <2>5. g[0] = base
      BY SMTT(40), <2>1 DEF Descends
    <2>6. ASSUME NEW i \in 1 .. m + 1 PROVE g[i] = move[i][g[up[i]]]
      <3>1. CASE i <= m
        <4>1. up[i] \in 0 .. m
          <5>1. i \in 1 .. n
            BY <3>1
          <5>2. up[i] \in 0 .. i - 1
            BY <5>1
          <5> QED BY <3>1, <5>2
        <4>2. g[i] = f[i] /\ g[up[i]] = f[up[i]] /\ f[i] = move[i][f[up[i]]]
          BY SMTT(40), <2>1, <3>1, <4>1 DEF Descends
        <4> QED BY <4>2
      <3>2. CASE i = m + 1
        <4>1. g[m + 1] = move[m + 1][f[up[m + 1]]] /\ g[up[m + 1]] = f[up[m + 1]]
          BY <2>2
        <4> QED BY <3>2, <4>1
      <3> QED BY SMTT(40), <3>1, <3>2
    <2> HIDE DEF g
    <2> QED BY <2>4, <2>5, <2>6 DEF Descends
  <1> HIDE DEF Good
  <1>3. n \in Good
    BY <1>1, <1>2, Induction
  <1> QED BY <1>3 DEF Good

\* A product in either order.
LEMMA Commute ==
    ASSUME NEW a \in Nat, NEW b \in Nat
    PROVE  a * b = b * a
  OBVIOUS

\* A quotient by b of a number below w * b.
LEMMA QuotientBelow ==
    ASSUME NEW w \in Nat, NEW b \in Nat \ {0}, NEW a \in 0 .. w * b - 1
    PROVE  a \div b \in 0 .. w - 1
  <1>1. a \in Nat /\ a \div b \in Nat /\ a % b \in 0 .. b - 1 /\ a = (a \div b) * b + (a % b)
    <2>1. a \in Nat
      BY ProductNat
    <2> QED BY <2>1, QuotientRemainder
  <1> DEFINE q == a \div b
  <1>2. CASE w <= q
    <2>1. w * b <= q * b
      BY <1>1, <1>2, ProductMonotone
    <2>2. w * b \in Nat /\ q * b \in Nat
      BY <1>1, ProductNat
    <2> HIDE DEF q
    <2>3. a >= q * b
      BY <1>1, <2>2 DEF q
    <2> QED BY <2>1, <2>2, <2>3
  <1>3. CASE ~ (w <= q)
    BY <1>1, <1>3
  <1> QED BY <1>2, <1>3

\* The trees genAttentionMap goes through: a root, and every other node after its parent.
WellGrown ==
    {g \in [parents : Seq(Int), start : Nat] :
        /\ g.start < Len(g.parents)
        /\ g.parents[1] = -1
        /\ \A i \in 1 .. Len(g.parents) - 1 : g.parents[i + 1] \in 0 .. i - 1}

\* One more level, of b children for every node of the last.
Grow(g, b) ==
    LET width == Len(g.parents) - g.start
    IN  [parents |-> g.parents \o [k \in 1 .. width * b |-> g.start + ((k - 1) \div b)],
         start |-> Len(g.parents)]

LEMMA GrowFacts ==
    ASSUME NEW g \in WellGrown, NEW b \in Nat \ {0}
    PROVE  /\ Grow(g, b) \in WellGrown
           /\ Len(Grow(g, b).parents) > Len(g.parents)
           /\ \A i \in Len(g.parents) + 1 .. Len(Grow(g, b).parents) :
                 Grow(g, b).parents[i] \in 0 .. Len(g.parents) - 1
           /\ \A i \in 1 .. Len(g.parents) : Grow(g, b).parents[i] = g.parents[i]
  <1> DEFINE len == Len(g.parents)
             w == len - g.start
             m == w * b
             new == [k \in 1 .. m |-> g.start + ((k - 1) \div b)]
             all == g.parents \o new
  <1>1. /\ g.parents \in Seq(Int) /\ g.start \in Nat /\ g.start < len /\ len \in Nat
        /\ g.parents[1] = -1
        /\ \A i \in 1 .. len - 1 : g.parents[i + 1] \in 0 .. i - 1
    BY DEF WellGrown
  <1>2. Grow(g, b) = [parents |-> all, start |-> len]
    BY DEF Grow
  <1> HIDE DEF len
  <1>3. w \in Nat \ {0}
    BY <1>1
  <1>4. w * b \in Nat /\ w * b >= 1
    <2> HIDE DEF w
    <2>1. w * b \in Nat /\ 1 * b <= w * b /\ 1 * b = b
      BY <1>3, ProductNat, ProductMonotone
    <2> QED BY <2>1
  <1>5. ASSUME NEW k \in 1 .. m PROVE new[k] \in 0 .. len - 1
    <2>1. k - 1 \in 0 .. m - 1
      BY <1>4
    <2>2. (k - 1) \div b \in 0 .. w - 1
      BY <1>3, <2>1, QuotientBelow
    <2>3. new[k] = g.start + ((k - 1) \div b)
      <3> HIDE DEF m
      <3> QED OBVIOUS
    <2> HIDE DEF m, new
    <2> QED BY SMTT(40), <1>1, <2>2, <2>3 DEF w
  <1>6. new \in Seq(Int) /\ Len(new) = m
    <2>1. m \in Nat
      BY <1>4
    <2> HIDE DEF m
    <2>2. \A k \in 1 .. m : g.start + ((k - 1) \div b) \in Int
      BY <1>1
    <2> QED BY <2>1, <2>2
  <1> HIDE DEF m, new, w
  <1>7. /\ all \in Seq(Int) /\ Len(all) = len + m
        /\ \A i \in 1 .. len : all[i] = g.parents[i]
        /\ \A i \in len + 1 .. len + m : all[i] = new[i - len]
    <2> DEFINE p == g.parents
    <2>1. p \in Seq(Int) /\ len = Len(p) /\ all = p \o new /\ m \in Nat
      BY <1>1, <1>4 DEF len, m
    <2> HIDE DEF p, all
    <2>2. /\ p \o new \in Seq(Int) /\ Len(p \o new) = Len(p) + Len(new)
          /\ \A i \in 1 .. Len(p) + Len(new) : (p \o new)[i] = IF i <= Len(p) THEN p[i] ELSE new[i - Len(p)]
      BY <1>6, <2>1, ConcatProperties
    <2>3. /\ all \in Seq(Int) /\ Len(all) = len + m
          /\ \A i \in 1 .. len + m : all[i] = IF i <= len THEN p[i] ELSE new[i - len]
      BY <1>6, <2>1, <2>2
    <2>4. /\ \A i \in 1 .. len : all[i] = p[i]
          /\ \A i \in len + 1 .. len + m : all[i] = new[i - len]
      BY SMTT(40), <1>1, <2>1, <2>3
    <2> QED BY <2>3, <2>4 DEF p
  <1> HIDE DEF all
  <1>8. m \in Nat \ {0}
    BY <1>4 DEF m
  <1>9. ASSUME NEW i \in len + 1 .. len + m PROVE all[i] \in 0 .. len - 1
    <2>1. i - len \in 1 .. m
      BY <1>1, <1>8
    <2> QED BY <1>5, <1>7, <2>1
  <1>10. ASSUME NEW i \in 1 .. len + m - 1 PROVE all[i + 1] \in 0 .. i - 1
    <2>1. CASE i + 1 <= len
      BY SMTT(40), <1>1, <1>7, <2>1
    <2>2. CASE i + 1 > len
      <3>1. i + 1 \in len + 1 .. len + m
        BY <1>1, <1>8, <2>2
      <3>2. all[i + 1] \in 0 .. len - 1
        BY <1>9, <3>1
      <3> QED BY <1>1, <2>2, <3>2
    <2> QED BY <1>1, <1>8, <2>1, <2>2
  <1>11. Grow(g, b).parents = all /\ Grow(g, b).start = len
    BY <1>2
  <1>12. [parents |-> all, start |-> len] \in WellGrown
    <2>1. /\ len < Len(all) /\ all[1] = -1
          /\ \A i \in 1 .. Len(all) - 1 : all[i + 1] \in 0 .. i - 1
      <3>1. 1 \in 1 .. len /\ len < len + m
        BY <1>1, <1>8
      <3>2. all[1] = -1
        <4>1. all[1] = g.parents[1]
          BY <1>7, <3>1
        <4> QED BY <1>1, <4>1
      <3>3. \A i \in 1 .. Len(all) - 1 : all[i + 1] \in 0 .. i - 1
        <4>1. Len(all) - 1 = len + m - 1
          BY <1>1, <1>7, <1>8
        <4> QED BY <1>10, <4>1, Zenon
      <3> QED BY <1>7, <3>1, <3>2, <3>3
    <2> QED BY <1>1, <1>7, <2>1 DEF WellGrown
  <1>13. Len(all) > len
    BY <1>1, <1>7, <1>8
  <1>14. /\ \A i \in len + 1 .. Len(all) : all[i] \in 0 .. len - 1
         /\ \A i \in 1 .. len : all[i] = g.parents[i]
    BY <1>7, <1>9
  <1> QED BY <1>2, <1>11, <1>12, <1>13, <1>14 DEF len

\* genAttentionMap goes through well-grown trees, level by level.
LEMMA GrownFacts ==
    /\ Levels \in Nat \ {0}
    /\ Grown[0] = [parents |-> <<-1>>, start |-> 0]
    /\ \A d \in 1 .. Levels : Grown[d] = Grow(Grown[d - 1], Branches[d])
    /\ \A d \in 0 .. Levels : Grown[d] \in WellGrown
    /\ \A d \in 1 .. Levels : Branches[d] \in Nat \ {0}
  <1> DEFINE base == [parents |-> <<-1>>, start |-> 0]
             next(d, g) == IF d \in 1 .. Levels THEN Grow(g, Branches[d]) ELSE g
             move == [d \in Nat |-> [g \in WellGrown |-> next(d, g)]]
             Is(f) == f = [d \in 0 .. Levels |-> IF d = 0 THEN base ELSE Grow(f[d - 1], Branches[d])]
  <1>1. Levels \in Nat \ {0} /\ \A d \in 1 .. Levels : Branches[d] \in Nat \ {0}
    BY TreeAssumption, EmptySeq DEF Levels
  <1>2. base \in WellGrown
    <2>1. <<-1>> \in Seq(Int) /\ Len(<<-1>>) = 1 /\ <<-1>>[1] = -1
      OBVIOUS
    <2> QED BY <2>1 DEF WellGrown
  <1>3. Grown = CHOOSE f : Is(f)
    BY DEF Grown, Grow
  <1>4. ASSUME NEW d \in Nat, NEW g \in WellGrown PROVE next(d, g) \in WellGrown
    BY <1>1, GrowFacts
  <1>5. move \in Steps(WellGrown)
    BY <1>4 DEF Steps
  <1>6. \A d \in 1 .. Levels, g \in WellGrown : move[d][g] = Grow(g, Branches[d])
    BY <1>1
  <1> HIDE DEF move, base
  <1>7. PICK f : Iterates(f, WellGrown, base, move, Levels)
    BY <1>1, <1>2, <1>5, Recursion
  <1>8. Is(f)
    <2>1. f \in [0 .. Levels -> WellGrown] /\ f[0] = base
      BY <1>7 DEF Iterates
    <2>2. ASSUME NEW d \in 0 .. Levels, d # 0 PROVE f[d] = Grow(f[d - 1], Branches[d])
      <3>1. d \in 1 .. Levels /\ d - 1 \in 0 .. Levels
        BY <1>1, <2>2
      <3>2. f[d] = move[d][f[d - 1]]
        BY <1>7, <3>1 DEF Iterates
      <3> QED BY <1>6, <2>1, <3>1, <3>2
    <2> QED BY <2>1, <2>2
  <1>9. Is(Grown)
    <2> HIDE DEF Is
    <2> QED BY <1>3, <1>8
  <1>10. Grown[0] = base /\ \A d \in 1 .. Levels : Grown[d] = Grow(Grown[d - 1], Branches[d])
    BY <1>1, <1>9
  <1> HIDE DEF Is
  <1> DEFINE S == {d \in Nat : d <= Levels => Grown[d] \in WellGrown}
  <1>11. 0 \in S
    BY <1>2, <1>10
  <1>12. ASSUME NEW d \in Nat, d \in S PROVE d + 1 \in S
    <2> SUFFICES ASSUME d + 1 <= Levels PROVE Grown[d + 1] \in WellGrown
      OBVIOUS
    <2>1. d + 1 \in 1 .. Levels /\ (d + 1) - 1 = d /\ d <= Levels
      BY <1>1
    <2>2. Grown[d + 1] = Grow(Grown[d], Branches[d + 1])
      BY <1>10, <2>1
    <2> QED BY <1>1, <1>12, <2>1, <2>2, GrowFacts
  <1> HIDE DEF S
  <1>13. Nat \subseteq S
    BY <1>11, <1>12, Induction
  <1>14. \A d \in 0 .. Levels : Grown[d] \in WellGrown
    BY <1>1, <1>13 DEF S
  <1> QED BY <1>1, <1>10, <1>14 DEF base

\* The tree has a root and at least one more node, every node comes after its parent,
\* and a chain of forecast tokens hangs off every node.
LEMMA TreeFacts ==
    /\ NumDraftNodes \in Nat /\ NumDraftNodes >= 2
    /\ TotalTokens \in Nat /\ TotalTokens = NumDraftNodes + NumDraftNodes * Levels
    /\ NumDraftNodes * Levels \in Nat /\ NumDraftNodes * Levels >= NumDraftNodes
    /\ AttentionMap[0] = -1
    /\ \A i \in 1 .. TotalTokens - 1 : AttentionMap[i] \in 0 .. i - 1
    /\ \A i \in NumDraftNodes .. TotalTokens - 1 : AttentionMap[i] = ForecastParent(i)
  <1> DEFINE N == NumDraftNodes
             L == Levels
             T == TotalTokens
  <1>1. L \in Nat \ {0} /\ Grown[L] \in WellGrown
    BY GrownFacts
  <1> DEFINE g == Grown[L]
  <1>2. /\ N = Len(g.parents) /\ g.parents \in Seq(Int) /\ N \in Nat /\ g.parents[1] = -1 /\ N >= 1
        /\ \A i \in 1 .. N - 1 : g.parents[i + 1] \in 0 .. i - 1
    BY <1>1 DEF WellGrown, NumDraftNodes
  <1>3. N >= 2
    <2>1. g = Grow(Grown[L - 1], Branches[L]) /\ Grown[L - 1] \in WellGrown /\ Branches[L] \in Nat \ {0}
      BY <1>1, GrownFacts
    <2> DEFINE h == Grown[L - 1]
    <2>2. Len(h.parents) \in Nat /\ Len(h.parents) >= 1
      BY <2>1 DEF WellGrown
    <2>3. Len(Grow(h, Branches[L]).parents) > Len(h.parents)
      BY <2>1, GrowFacts
    <2> HIDE DEF h
    <2> QED BY <1>2, <2>1, <2>2, <2>3 DEF h
  <1>4. N * L \in Nat /\ N * L >= N /\ T = N + N * L
    <2> HIDE DEF N, L
    <2>1. N * L \in Nat
      BY <1>1, <1>2, ProductNat
    <2>2. 1 * N <= L * N
      BY <1>1, <1>2, ProductMonotone
    <2>3. T = N * (L + 1)
      BY DEF TotalTokens, N, L
    <2>4. L + 1 \in Nat /\ 1 * N = N
      BY <1>1, <1>2
    <2>5. (L + 1) * N = L * N + N
      BY <1>1, <1>2, NextRow
    <2>6. N * (L + 1) = (L + 1) * N /\ N * L = L * N
      BY <1>1, <1>2, <2>4, Commute
    <2> HIDE DEF T
    <2>7. T = N * L + N
      BY <2>3, <2>5, <2>6
    <2> DEFINE P == N * L
    <2>8. P \in Nat /\ P >= N /\ T = P + N
      BY <2>1, <2>2, <2>4, <2>6, <2>7
    <2> HIDE DEF P
    <2>9. P \in Nat /\ P >= N /\ T = N + P
      BY <1>2, <2>8
    <2> QED BY <2>9 DEF P
  <1> HIDE DEF N, g, T
  <1>5. \A i \in 0 .. T - 1 : AttentionMap[i] = IF i < N THEN g.parents[i + 1] ELSE ForecastParent(i)
    BY DEF AttentionMap, N, g, T
  <1>6. AttentionMap[0] = -1
    BY <1>2, <1>4, <1>5
  <1>7. ASSUME NEW i \in 1 .. T - 1 PROVE AttentionMap[i] \in 0 .. i - 1
    <2>1. CASE i < N
      <3>1. i \in 1 .. N - 1 /\ i \in 0 .. T - 1
        BY <1>2, <1>4, <2>1
      <3>2. AttentionMap[i] = g.parents[i + 1] /\ g.parents[i + 1] \in 0 .. i - 1
        BY <1>2, <1>5, <2>1, <3>1
      <3> QED BY <3>2
    <2>2. CASE ~ (i < N)
      <3>1. AttentionMap[i] = ForecastParent(i)
        BY <1>4, <1>5, <2>2
      <3> DEFINE x == i - N
      <3>2. x \in 0 .. N * L - 1
        BY SMTT(40), <1>2, <1>4, <2>2
      <3>3. x \div L \in 0 .. N - 1
        <4> HIDE DEF x
        <4> QED BY <1>1, <1>2, <3>2, QuotientBelow
      <3>4. ForecastParent(i) = IF x % L = 0 THEN x \div L ELSE i - 1
        BY DEF ForecastParent, N
      <3> HIDE DEF x
      <3> QED BY <1>2, <2>2, <3>1, <3>3, <3>4
    <2> QED BY <2>1, <2>2
  <1>8. \A i \in N .. T - 1 : AttentionMap[i] = ForecastParent(i)
    BY <1>2, <1>4, <1>5
  <1> QED BY <1>2, <1>3, <1>4, <1>6, <1>7, <1>8 DEF N, T

TreeNode == 0 .. TotalTokens - 1

\* What a row sees of its own pass ends with the row and begins with what its parent sees.
LEMMA BranchFacts ==
    /\ Branch[0] = <<0>>
    /\ \A i \in 1 .. TotalTokens - 1 : Branch[i] = Append(Branch[AttentionMap[i]], i)
    /\ \A i \in TreeNode :
         /\ Branch[i] \in Seq(Nat) /\ Len(Branch[i]) > 0 /\ Branch[i][1] = 0
         /\ \A k \in 1 .. Len(Branch[i]) : Branch[i][k] <= i
  <1> DEFINE n == TotalTokens - 1
             move == [i \in Nat |-> [s \in Seq(Nat) |-> Append(s, i)]]
             Is(f) == f = [i \in TreeNode |-> IF AttentionMap[i] < 0 THEN <<i>> ELSE Append(f[AttentionMap[i]], i)]
  <1>1. /\ n \in Nat /\ n >= 1 /\ TreeNode = 0 .. n
        /\ AttentionMap[0] = -1 /\ \A i \in 1 .. n : AttentionMap[i] \in 0 .. i - 1
    BY TreeFacts DEF TreeNode
  <1>2. Branch = CHOOSE f : Is(f)
    BY DEF Branch, TreeNode
  <1>3. move \in Steps(Seq(Nat)) /\ <<0>> \in Seq(Nat)
    BY DEF Steps
  <1>4. \A i \in 1 .. n, s \in Seq(Nat) : move[i][s] = Append(s, i)
    OBVIOUS
  <1> HIDE DEF move, n
  <1>5. PICK f : Descends(f, Seq(Nat), <<0>>, AttentionMap, move, n)
    BY <1>1, <1>3, Descent
  <1>6. Is(f)
    <2>1. f \in [0 .. n -> Seq(Nat)] /\ f[0] = <<0>>
      BY <1>5 DEF Descends
    <2>2. ASSUME NEW i \in 1 .. n PROVE f[i] = Append(f[AttentionMap[i]], i)
      <3>1. f[i] = move[i][f[AttentionMap[i]]] /\ AttentionMap[i] \in 0 .. n
        BY SMTT(40), <1>1, <1>5 DEF Descends
      <3> QED BY <1>4, <2>1, <3>1
    <2>3. ASSUME NEW i \in TreeNode
          PROVE  f[i] = IF AttentionMap[i] < 0 THEN <<i>> ELSE Append(f[AttentionMap[i]], i)
      <3>1. CASE i = 0
        <4>1. f[0] = <<0>> /\ AttentionMap[0] < 0
          BY <1>1, <2>1
        <4> QED BY <3>1, <4>1
      <3>2. CASE i # 0
        <4>1. i \in 1 .. n
          BY <1>1, <3>2
        <4>2. ~ (AttentionMap[i] < 0)
          BY <1>1, <4>1
        <4> QED BY <2>2, <4>1, <4>2
      <3> QED BY <3>1, <3>2
    <2> QED BY <1>1, <2>1, <2>3
  <1>7. Is(Branch)
    <2> HIDE DEF Is
    <2> QED BY <1>2, <1>6
  <1>8. Branch[0] = <<0>>
    BY <1>1, <1>7
  <1>9. ASSUME NEW i \in 1 .. n PROVE Branch[i] = Append(Branch[AttentionMap[i]], i)
    <2>1. AttentionMap[i] \in 0 .. i - 1 /\ ~ (AttentionMap[i] < 0) /\ i \in TreeNode
      BY <1>1
    <2> QED BY <1>7, <2>1
  <1> HIDE DEF Is
  <1> DEFINE Fine(i) == /\ Branch[i] \in Seq(Nat) /\ Len(Branch[i]) > 0 /\ Branch[i][1] = 0
                        /\ \A k \in 1 .. Len(Branch[i]) : Branch[i][k] <= i
             S == {i \in Nat : i <= n => Fine(i)}
  <1>10. ASSUME NEW i \in Nat, \A m \in 0 .. i - 1 : m \in S PROVE i \in S
    <2> SUFFICES ASSUME i <= n PROVE Fine(i)
      OBVIOUS
    <2>1. CASE i = 0
      <3>1. <<0>> \in Seq(Nat) /\ Len(<<0>>) = 1 /\ <<0>>[1] = 0
        OBVIOUS
      <3>2. Fine(0)
        <4>1. \A k \in 1 .. 1 : <<0>>[k] <= 0
          OBVIOUS
        <4> QED BY <1>8, <3>1, <4>1
      <3> QED BY <2>1, <3>2
    <2>2. CASE i # 0
      <3> DEFINE p == AttentionMap[i]
                 s == Branch[p]
      <3>1. i \in 1 .. n /\ p \in 0 .. i - 1
        BY <1>1, <2>2
      <3>2. Fine(p)
        BY SMTT(40), <1>1, <1>10, <3>1
      <3>3. Branch[i] = Append(s, i)
        BY <1>9, <3>1
      <3>4. /\ s \in Seq(Nat) /\ Len(s) > 0 /\ s[1] = 0 /\ \A k \in 1 .. Len(s) : s[k] <= p
        BY <3>2
      <3> HIDE DEF s, p
      <3>5. /\ Append(s, i) \in Seq(Nat) /\ Len(Append(s, i)) = Len(s) + 1
            /\ \A k \in 1 .. Len(s) + 1 : Append(s, i)[k] = IF k <= Len(s) THEN s[k] ELSE i
        BY <3>4, AppendProperties
      <3>6. ASSUME NEW k \in 1 .. Len(s) + 1 PROVE Append(s, i)[k] <= i
        BY <3>1, <3>4, <3>5
      <3>7. Append(s, i)[1] = 0
        BY <3>4, <3>5
      <3> QED BY <3>3, <3>4, <3>5, <3>6, <3>7
    <2> QED BY <2>1, <2>2
  <1> HIDE DEF S, Fine
  <1>11. Nat \subseteq S
    BY <1>10, StrongInduction
  <1>12. \A i \in TreeNode : Fine(i)
    BY <1>1, <1>11 DEF S
  <1> QED BY <1>8, <1>9, <1>12 DEF Fine, n

\* computeTreePositionIds counts the nodes above a row; the draft tree has as many levels
\* as branches_ has entries.
LEMMA DepthFacts ==
    /\ Depth[0] = 0
    /\ \A i \in TreeNode : Depth[i] \in Nat /\ Depth[i] = Len(Branch[i]) - 1
    /\ \A i \in 1 .. NumDraftNodes - 1 : Depth[i] \in 1 .. Levels
  <1> DEFINE n == TotalTokens - 1
             move == [i \in Nat |-> [x \in Nat |-> x + 1]]
             Is(f) == f = [i \in TreeNode |-> IF AttentionMap[i] < 0 THEN 0 ELSE f[AttentionMap[i]] + 1]
  <1>1. /\ n \in Nat /\ n >= 1 /\ TreeNode = 0 .. n /\ NumDraftNodes \in Nat /\ NumDraftNodes <= n
        /\ AttentionMap[0] = -1 /\ \A i \in 1 .. n : AttentionMap[i] \in 0 .. i - 1
    BY TreeFacts DEF TreeNode
  <1>2. Depth = CHOOSE f : Is(f)
    BY DEF Depth, TreeNode
  <1>3. move \in Steps(Nat) /\ 0 \in Nat
    BY DEF Steps
  <1>4. \A i \in 1 .. n, x \in Nat : move[i][x] = x + 1
    OBVIOUS
  <1> HIDE DEF move, n
  <1>5. PICK f : Descends(f, Nat, 0, AttentionMap, move, n)
    BY <1>1, <1>3, Descent
  <1>6. Is(f)
    <2>1. f \in [0 .. n -> Nat] /\ f[0] = 0
      BY <1>5 DEF Descends
    <2>2. ASSUME NEW i \in 1 .. n PROVE f[i] = f[AttentionMap[i]] + 1
      <3>1. f[i] = move[i][f[AttentionMap[i]]] /\ AttentionMap[i] \in 0 .. n
        BY <1>1, <1>5 DEF Descends
      <3> QED BY <1>4, <2>1, <3>1
    <2>3. ASSUME NEW i \in TreeNode
          PROVE  f[i] = IF AttentionMap[i] < 0 THEN 0 ELSE f[AttentionMap[i]] + 1
      <3>1. CASE i = 0
        <4>1. f[0] = 0 /\ AttentionMap[0] < 0
          BY <1>1, <2>1
        <4> QED BY <3>1, <4>1
      <3>2. CASE i # 0
        <4>1. i \in 1 .. n
          BY <1>1, <3>2
        <4>2. ~ (AttentionMap[i] < 0)
          BY <1>1, <4>1
        <4> QED BY <2>2, <4>1, <4>2
      <3> QED BY <3>1, <3>2
    <2> QED BY <1>1, <2>1, <2>3
  <1>7. Is(Depth)
    <2> HIDE DEF Is
    <2> QED BY <1>2, <1>6
  <1>8. Depth[0] = 0
    BY <1>1, <1>7
  <1>9. ASSUME NEW i \in 1 .. n PROVE Depth[i] = Depth[AttentionMap[i]] + 1
    <2>1. AttentionMap[i] \in 0 .. i - 1 /\ ~ (AttentionMap[i] < 0) /\ i \in TreeNode
      BY <1>1
    <2> QED BY <1>7, <2>1
  <1> HIDE DEF Is
  <1> DEFINE Fine(i) == Depth[i] \in Nat /\ Depth[i] = Len(Branch[i]) - 1
             S == {i \in Nat : i <= n => Fine(i)}
  <1>10. ASSUME NEW i \in Nat, \A m \in 0 .. i - 1 : m \in S PROVE i \in S
    <2> SUFFICES ASSUME i <= n PROVE Fine(i)
      OBVIOUS
    <2>1. CASE i = 0
      <3>1. Branch[0] = <<0>> /\ Len(<<0>>) = 1
        BY BranchFacts
      <3> QED BY <1>8, <2>1, <3>1
    <2>2. CASE i # 0
      <3> DEFINE p == AttentionMap[i]
                 s == Branch[p]
      <3>1. i \in 1 .. n /\ p \in 0 .. i - 1 /\ p \in TreeNode
        BY <1>1, <2>2
      <3>2. Fine(p)
        BY <1>1, <1>10, <3>1
      <3>3. Branch[i] = Append(s, i) /\ s \in Seq(Nat)
        BY <3>1, BranchFacts DEF n
      <3>4. Len(Branch[i]) = Len(s) + 1 /\ Len(s) \in Nat
        BY <3>3, AppendProperties
      <3>5. Depth[i] = Depth[p] + 1 /\ Depth[p] \in Nat /\ Depth[p] = Len(s) - 1
        BY <1>9, <3>1, <3>2
      <3> HIDE DEF s, p
      <3> QED BY <3>4, <3>5
    <2> QED BY <2>1, <2>2
  <1> HIDE DEF S, Fine
  <1>11. Nat \subseteq S
    BY <1>10, StrongInduction
  <1>12. \A i \in TreeNode : Fine(i)
    BY <1>1, <1>11 DEF S
  <1>13. \A i \in TreeNode : Depth[i] \in Nat /\ Depth[i] = Len(Branch[i]) - 1
    BY <1>12 DEF Fine
  <1> DEFINE len(d) == Len(Grown[d].parents)
             Kept(d) == /\ len(d) <= NumDraftNodes
                        /\ \A i \in 1 .. len(d) : Grown[d].parents[i] = Grown[Levels].parents[i]
             K == {m \in Nat : m <= Levels => Kept(Levels - m)}
  <1>14. \A d \in 0 .. Levels : len(d) \in Nat /\ len(d) >= 1
    BY GrownFacts DEF WellGrown
  <1>15. \A d \in 1 .. Levels :
           /\ len(d) > len(d - 1)
           /\ \A i \in len(d - 1) + 1 .. len(d) : Grown[d].parents[i] \in 0 .. len(d - 1) - 1
           /\ \A i \in 1 .. len(d - 1) : Grown[d].parents[i] = Grown[d - 1].parents[i]
    <2> TAKE d \in 1 .. Levels
    <2>1. /\ Grown[d] = Grow(Grown[d - 1], Branches[d]) /\ Grown[d - 1] \in WellGrown
          /\ Branches[d] \in Nat \ {0}
      BY GrownFacts
    <2> QED BY ZenonT(40), <2>1, GrowFacts
  <1>16. Levels \in Nat \ {0}
    BY GrownFacts
  <1> HIDE DEF len
  <1>17. 0 \in K
    <2>1. Levels - 0 = Levels /\ len(Levels) = NumDraftNodes
      BY <1>16 DEF len, NumDraftNodes
    <2>2. Kept(Levels)
      BY <1>14, <1>16, <2>1
    <2> QED BY <2>1, <2>2
  <1>18. ASSUME NEW m \in Nat, m \in K PROVE m + 1 \in K
    <2> SUFFICES ASSUME m + 1 <= Levels PROVE Kept(Levels - (m + 1))
      OBVIOUS
    <2> DEFINE d == Levels - m
    <2>1. d \in 1 .. Levels /\ Levels - (m + 1) = d - 1 /\ m <= Levels /\ d - 1 \in 0 .. Levels
      BY <1>16
    <2>2. Kept(d)
      BY <1>18, <2>1
    <2> HIDE DEF d
    <2>3. len(d) \in Nat /\ len(d - 1) \in Nat /\ len(d) > len(d - 1)
      BY <1>14, <1>15, <2>1
    <2>4. Kept(d - 1)
      BY <1>1, <1>15, <2>1, <2>2, <2>3
    <2> QED BY <2>1, <2>4
  <1> HIDE DEF K
  <1>19. Nat \subseteq K
    BY <1>17, <1>18, Induction
  <1>20. ASSUME NEW d \in 0 .. Levels PROVE Kept(d)
    <2>1. Levels - d \in Nat /\ Levels - d <= Levels /\ Levels - (Levels - d) = d
      BY <1>16
    <2> QED BY <1>19, <2>1 DEF K
  <1> HIDE DEF Kept
  <1> DEFINE Shallow(d) == \A i \in 0 .. len(d) - 1 : Depth[i] <= d
             B == {d \in Nat : d <= Levels => Shallow(d)}
  <1>21. 0 \in B
    <2>1. len(0) = 1
      BY GrownFacts DEF len
    <2>2. \A i \in 0 .. len(0) - 1 : i = 0
      BY <2>1
    <2> QED BY <1>8, <2>2
  <1>22. ASSUME NEW d \in Nat, d \in B PROVE d + 1 \in B
    <2> SUFFICES ASSUME d + 1 <= Levels, NEW i \in 0 .. len(d + 1) - 1 PROVE Depth[i] <= d + 1
      OBVIOUS
    <2>1. d + 1 \in 1 .. Levels /\ (d + 1) - 1 = d /\ d <= Levels /\ d \in 0 .. Levels /\ d + 1 \in 0 .. Levels
      BY <1>16
    <2>2. Shallow(d)
      BY <1>22, <2>1
    <2>3. len(d) \in Nat /\ len(d) >= 1 /\ len(d + 1) \in Nat
      BY <1>14, <2>1
    <2>4. CASE i < len(d)
      <3>1. i \in 0 .. len(d) - 1
        BY <2>3, <2>4
      <3>2. i \in TreeNode
        <4>1. len(d) <= NumDraftNodes
          BY <1>20, <2>1 DEF Kept
        <4> QED BY <1>1, <2>3, <3>1, <4>1
      <3>3. Depth[i] \in Nat /\ Depth[i] <= d
        BY <1>13, <2>2, <3>1, <3>2
      <3> QED BY <3>3
    <2>5. CASE ~ (i < len(d))
      <3>1. i + 1 \in len(d) + 1 .. len(d + 1) /\ i + 1 \in 1 .. len(d + 1)
        BY <2>3, <2>5
      <3>2. Grown[d + 1].parents[i + 1] \in 0 .. len(d) - 1
        BY <1>15, <2>1, <3>1
      <3>3. len(d + 1) <= NumDraftNodes /\ Grown[d + 1].parents[i + 1] = Grown[Levels].parents[i + 1]
        BY <1>20, <2>1, <3>1 DEF Kept
      <3>4. i \in 1 .. n /\ i < NumDraftNodes
        BY <1>1, <2>3, <2>5, <3>3
      <3>5. AttentionMap[i] = Grown[Levels].parents[i + 1]
        BY <1>1, <3>4 DEF AttentionMap, n
      <3>6. AttentionMap[i] \in 0 .. len(d) - 1 /\ AttentionMap[i] \in TreeNode
        BY SMTT(40), <1>1, <3>2, <3>3, <3>4, <3>5
      <3>7. Depth[AttentionMap[i]] \in Nat /\ Depth[AttentionMap[i]] <= d
        BY <1>13, <2>2, <3>6
      <3> QED BY <1>9, <3>4, <3>7
    <2> QED BY <2>4, <2>5
  <1> HIDE DEF B
  <1>23. Nat \subseteq B
    BY <1>21, <1>22, Induction
  <1>24. ASSUME NEW i \in 1 .. NumDraftNodes - 1 PROVE Depth[i] \in 1 .. Levels
    <2>1. Shallow(Levels)
      BY <1>16, <1>23 DEF B
    <2>2. i \in 0 .. len(Levels) - 1
      BY <1>1 DEF len, NumDraftNodes
    <2>3. Depth[i] <= Levels
      BY <2>1, <2>2
    <2>4. i \in 1 .. n /\ AttentionMap[i] \in TreeNode /\ i \in TreeNode
      BY <1>1
    <2>5. Depth[i] = Depth[AttentionMap[i]] + 1 /\ Depth[AttentionMap[i]] \in Nat
      BY <1>9, <1>13, <2>4
    <2> QED BY <1>16, <2>3, <2>5
  <1> QED BY <1>8, <1>13, <1>24

\* There are as many tokens as spec_.vocab_size says.
LEMMA VocabularyCount == Cardinality(Token) = VocabSize
  <1>1. VocabSize \in Nat
    BY SSDAssumption
  <1>2. CASE VocabSize = 0
    <2>1. Token = {}
      BY <1>2 DEF Token
    <2> QED BY <1>2, <2>1, FS_EmptySet
  <1>3. CASE VocabSize # 0
    <2>1. 0 \in Int /\ VocabSize - 1 \in Int /\ ~ (0 > VocabSize - 1)
      BY <1>1, <1>3
    <2>2. Cardinality(0 .. VocabSize - 1) = VocabSize - 1 - 0 + 1
      BY <2>1, FS_Interval
    <2> QED BY <1>1, <2>2 DEF Token
  <1> QED BY <1>2, <1>3

\* The samples of one level: topKLogits of a ranking of the vocabulary.
Samples(samples) ==
    \A d \in 1 .. Levels : samples[d] \in Seq(Token) /\ Len(samples[d]) = Branches[d] + 1

LEMMA TopSamples ==
    ASSUME NEW ranking \in [1 .. Levels -> Rankings(Token)]
    PROVE  Samples([d \in 1 .. Levels |-> TopK(ranking[d], Branches[d] + 1)])
  <1> SUFFICES ASSUME NEW d \in 1 .. Levels
               PROVE  /\ TopK(ranking[d], Branches[d] + 1) \in Seq(Token)
                      /\ Len(TopK(ranking[d], Branches[d] + 1)) = Branches[d] + 1
    BY DEF Samples
  <1> DEFINE s == ranking[d]
             k == Branches[d] + 1
  <1>1. k \in Nat \ {0} /\ k <= VocabSize /\ VocabSize \in Nat
    BY SMTT(40), GrownFacts, SSDAssumption
  <1>2. s \in [1 .. VocabSize -> Token]
    <2>1. s \in Rankings(Token)
      OBVIOUS
    <2> QED BY <2>1, VocabularyCount DEF Rankings
  <1> HIDE DEF s, k
  <1>3. s \in Seq(Token) /\ Len(s) = VocabSize
    BY <1>1, <1>2
  <1>4. SubSeq(s, 1, k) \in Seq(Token) /\ Len(SubSeq(s, 1, k)) = IF 1 <= k THEN k - 1 + 1 ELSE 0
    BY <1>1, <1>3, Slice
  <1> QED BY <1>1, <1>4 DEF TopK, s, k

\* buildSampleTree: the last accepted token at the root, a token of the vocabulary at
\* every other node.
LEMMA SampleTreeFacts ==
    ASSUME NEW last_token \in Token, NEW samples, Samples(samples)
    PROVE  /\ SampleTree(last_token, samples) \in [DraftNode -> Token]
           /\ SampleTree(last_token, samples)[0] = last_token
  <1> DEFINE n == NumDraftNodes - 1
             child(i, t) == Candidate(samples[Depth[i]], t, Sibling(i) + 1)
             move == [i \in Nat |-> [t \in Token |-> IF i \in 1 .. n THEN child(i, t) ELSE t]]
             Is(f) == f = [i \in DraftNode |-> IF i = 0 THEN last_token ELSE child(i, f[AttentionMap[i]])]
  <1>1. /\ n \in Nat /\ n >= 1 /\ DraftNode = 0 .. n /\ n <= TotalTokens - 1
        /\ \A i \in 1 .. n : AttentionMap[i] \in 0 .. i - 1
    BY TreeFacts DEF DraftNode
  <1>2. ASSUME NEW i \in 1 .. n, NEW t \in Token PROVE child(i, t) \in Token
    <2> DEFINE d == Depth[i]
               k == Sibling(i) + 1
               b == Branches[d]
               s == samples[d]
    <2>1. d \in 1 .. Levels
      BY DepthFacts
    <2> HIDE DEF d
    <2>2. b \in Nat \ {0} /\ s \in Seq(Token) /\ Len(s) = b + 1
      BY <2>1, GrownFacts DEF Samples
    <2>3. k \in 1 .. b
      <3> DEFINE x == i - Grown[d].start
      <3>1. Grown[d] \in WellGrown
        <4>1. d \in 0 .. Levels
          BY <2>1
        <4> QED BY <4>1, GrownFacts
      <3>2. x \in Int
        BY <1>1, <3>1 DEF WellGrown
      <3>3. k = (x % b) + 1
        BY DEF Sibling, d
      <3> HIDE DEF x, b, k
      <3>4. x % b \in 0 .. b - 1
        BY <2>2, <3>2
      <3> QED BY <2>2, <3>3, <3>4
    <2> HIDE DEF k, b
    <2>4. \A j \in 1 .. b + 1 : s[j] \in Token
      BY <2>2
    <2> HIDE DEF s
    <2>5. Candidate(s, t, k) = s[IF \E j \in 1 .. k : s[j] = t THEN k + 1 ELSE k]
      BY DEF Candidate
    <2>6. Candidate(s, t, k) \in Token
      BY <2>2, <2>3, <2>4, <2>5
    <2> QED BY <2>6 DEF s, d, k
  <1> HIDE DEF child
  <1>3. move \in Steps(Token)
    BY <1>2 DEF Steps
  <1>4. \A i \in 1 .. n, t \in Token : move[i][t] = child(i, t)
    BY <1>1
  <1>5. SampleTree(last_token, samples) = CHOOSE f : Is(f)
    BY DEF SampleTree, child
  <1> HIDE DEF move, n
  <1>6. PICK f : Descends(f, Token, last_token, AttentionMap, move, n)
    BY <1>1, <1>3, Descent
  <1>7. Is(f)
    <2>1. f \in [0 .. n -> Token] /\ f[0] = last_token
      BY <1>6 DEF Descends
    <2>2. ASSUME NEW i \in 1 .. n PROVE f[i] = child(i, f[AttentionMap[i]])
      <3>1. f[i] = move[i][f[AttentionMap[i]]] /\ AttentionMap[i] \in 0 .. n
        BY <1>1, <1>6 DEF Descends
      <3> QED BY <1>4, <2>1, <3>1
    <2> QED BY <1>1, <2>1, <2>2
  <1> DEFINE tree == SampleTree(last_token, samples)
  <1>8. Is(tree)
    <2> HIDE DEF Is, tree
    <2>1. tree = CHOOSE g : Is(g)
      BY <1>5 DEF tree
    <2> QED BY <1>7, <2>1
  <1> HIDE DEF tree
  <1>9. /\ DOMAIN tree = DraftNode /\ tree = [i \in DraftNode |-> tree[i]]
        /\ tree[0] = last_token
        /\ \A i \in 1 .. n : tree[i] = child(i, tree[AttentionMap[i]])
    <2>1. ASSUME NEW i \in DraftNode
          PROVE  tree[i] = IF i = 0 THEN last_token ELSE child(i, tree[AttentionMap[i]])
      BY <1>8
    <2>2. DOMAIN tree = DraftNode /\ tree = [i \in DraftNode |-> tree[i]]
      <3> DEFINE body(i) == IF i = 0 THEN last_token ELSE child(i, tree[AttentionMap[i]])
      <3>1. tree = [i \in DraftNode |-> body(i)]
        BY <1>8
      <3> HIDE DEF body
      <3> QED BY <3>1
    <2>3. 0 \in DraftNode /\ \A i \in 1 .. n : i \in DraftNode /\ i # 0
      BY <1>1
    <2> QED BY <2>1, <2>2, <2>3, Zenon
  <1> HIDE DEF Is
  <1> DEFINE S == {i \in Nat : i <= n => tree[i] \in Token}
  <1>10. ASSUME NEW i \in Nat, \A m \in 0 .. i - 1 : m \in S PROVE i \in S
    <2> SUFFICES ASSUME i <= n PROVE tree[i] \in Token
      OBVIOUS
    <2>1. CASE i = 0
      BY <1>9, <2>1
    <2>2. CASE i # 0
      <3>1. i \in 1 .. n /\ AttentionMap[i] \in 0 .. i - 1
        BY <1>1, <2>2
      <3>2. AttentionMap[i] \in S /\ AttentionMap[i] <= n
        BY <1>1, <1>10, <3>1
      <3>3. tree[AttentionMap[i]] \in Token
        BY <3>2
      <3> QED BY <1>2, <1>9, <3>1, <3>3
    <2> QED BY <2>1, <2>2
  <1> HIDE DEF S
  <1>11. Nat \subseteq S
    BY <1>10, StrongInduction
  <1>12. \A i \in DraftNode : tree[i] \in Token
    BY <1>1, <1>11 DEF S
  <1>13. tree \in [DraftNode -> Token]
    BY <1>9, <1>12
  <1> QED BY <1>9, <1>13 DEF tree

\* The d-th forecast row of the chain that hangs off node m.
ForecastRow(m, d) == NumDraftNodes + m * Levels + d - 1

\* Where that row is, and what it sees: what its node sees, then the chain down to it.
Chained(m, d) ==
    LET row == ForecastRow(m, d)
    IN  /\ row \in NumDraftNodes .. TotalTokens - 1 /\ (row - NumDraftNodes) % Levels = d - 1
        /\ Len(Branch[row]) = Len(Branch[m]) + d
        /\ \A k \in 1 .. Len(Branch[m]) : Branch[row][k] = Branch[m][k]
        /\ \A k \in 1 .. d : Branch[row][Len(Branch[m]) + k] = ForecastRow(m, k)

LEMMA ForecastRowPlace ==
    ASSUME NEW m \in DraftNode, NEW d \in 1 .. Levels
    PROVE  /\ ForecastRow(m, d) \in NumDraftNodes .. TotalTokens - 1
           /\ (ForecastRow(m, d) - NumDraftNodes) % Levels = d - 1
           /\ ForecastParent(ForecastRow(m, d)) = IF d = 1 THEN m ELSE ForecastRow(m, d - 1)
  <1> DEFINE N == NumDraftNodes
             L == Levels
             a == m * L
             row == ForecastRow(m, d)
  <1>1. L \in Nat \ {0} /\ N \in Nat /\ m \in 0 .. N - 1 /\ m \in Nat /\ d - 1 \in 0 .. L - 1
        /\ N * L \in Nat /\ TotalTokens = N + N * L
    BY GrownFacts, TreeFacts DEF DraftNode
  <1>2. a \in Nat /\ (m + 1) * L = a + L /\ (m + 1) * L <= N * L
    <2>1. m + 1 \in Nat /\ m + 1 <= N
      BY <1>1
    <2> QED BY <1>1, <2>1, ProductNat, NextRow, ProductMonotone
  <1>3. (a + (d - 1)) \div L = m /\ (a + (d - 1)) % L = d - 1
    BY <1>1, RowAndPlace
  <1>4. row = N + a + d - 1 /\ ForecastRow(m, d - 1) = N + a + (d - 1) - 1
    BY DEF ForecastRow
  <1>5. ForecastParent(row) = IF (row - N) % L = 0 THEN (row - N) \div L ELSE row - 1
    BY DEF ForecastParent
  <1> DEFINE NL == N * L
             nextRow == (m + 1) * L
  <1>6. NL \in Nat /\ TotalTokens = N + NL /\ nextRow = a + L /\ nextRow <= NL
    BY <1>1, <1>2
  <1> HIDE DEF N, L, a, row, NL, nextRow
  <1>7. row - N = a + (d - 1) /\ row - 1 = ForecastRow(m, d - 1)
    BY <1>1, <1>2, <1>4
  <1>8. row \in N .. TotalTokens - 1
    BY <1>1, <1>2, <1>4, <1>6
  <1>9. (row - N) % L = d - 1 /\ (row - N) \div L = m
    BY <1>3, <1>7
  <1>10. ForecastParent(row) = IF d = 1 THEN m ELSE ForecastRow(m, d - 1)
    BY <1>1, <1>5, <1>7, <1>9
  <1> QED BY <1>8, <1>9, <1>10 DEF row, N, L

LEMMA ChainFacts ==
    ASSUME NEW m \in DraftNode
    PROVE  \A d \in 1 .. Levels : Chained(m, d)
  <1> DEFINE S == {d \in Nat : d + 1 <= Levels => Chained(m, d + 1)}
             t == Branch[m]
  <1>1. Levels \in Nat \ {0} /\ NumDraftNodes \in Nat /\ NumDraftNodes >= 2
    BY GrownFacts, TreeFacts
  <1>2. t \in Seq(Nat) /\ Len(t) \in Nat
    <2>1. m \in TreeNode
      BY TreeFacts DEF DraftNode, TreeNode
    <2> QED BY <2>1, BranchFacts
  <1>3. ASSUME NEW d \in 1 .. Levels
        PROVE  Branch[ForecastRow(m, d)] = Append(Branch[IF d = 1 THEN m ELSE ForecastRow(m, d - 1)], ForecastRow(m, d))
    <2> DEFINE row == ForecastRow(m, d)
    <2>1. row \in NumDraftNodes .. TotalTokens - 1 /\ ForecastParent(row) = IF d = 1 THEN m ELSE ForecastRow(m, d - 1)
      BY ForecastRowPlace
    <2> HIDE DEF row
    <2>2. row \in 1 .. TotalTokens - 1
      BY <1>1, <2>1, TreeFacts
    <2>3. AttentionMap[row] = ForecastParent(row) /\ Branch[row] = Append(Branch[AttentionMap[row]], row)
      BY <2>1, <2>2, TreeFacts, BranchFacts
    <2> QED BY <2>1, <2>3 DEF row
  <1>4. \A d \in 1 .. Levels : ForecastRow(m, d) \in Nat
    BY <1>1, ForecastRowPlace
  <1>5. 0 \in S
    <2> DEFINE row == ForecastRow(m, 1)
    <2>1. 1 \in 1 .. Levels
      BY <1>1
    <2>2. Branch[row] = Append(t, row) /\ row \in Nat
      BY <1>3, <1>4, <2>1
    <2> HIDE DEF row, t
    <2>3. /\ Len(Append(t, row)) = Len(t) + 1
          /\ \A k \in 1 .. Len(t) + 1 : Append(t, row)[k] = IF k <= Len(t) THEN t[k] ELSE row
      BY <1>2, <2>2, AppendProperties
    <2>4. /\ Len(Branch[row]) = Len(t) + 1
          /\ \A k \in 1 .. Len(t) : Branch[row][k] = t[k]
          /\ Branch[row][Len(t) + 1] = row
      BY <1>2, <2>2, <2>3
    <2>5. \A k \in 1 .. 1 : Branch[row][Len(t) + k] = ForecastRow(m, k)
      <3>1. \A k \in 1 .. 1 : k = 1
        OBVIOUS
      <3> QED BY <2>4, <3>1 DEF row
    <2>6. /\ row \in NumDraftNodes .. TotalTokens - 1 /\ (row - NumDraftNodes) % Levels = 1 - 1
      BY <2>1, ForecastRowPlace DEF row
    <2>7. Chained(m, 1)
      BY <2>4, <2>5, <2>6 DEF Chained, row, t
    <2> QED BY <2>7
  <1>6. ASSUME NEW d \in Nat, d \in S PROVE d + 1 \in S
    <2> SUFFICES ASSUME (d + 1) + 1 <= Levels PROVE Chained(m, (d + 1) + 1)
      OBVIOUS
    <2> DEFINE e == d + 1
               row == ForecastRow(m, e + 1)
               s == Branch[ForecastRow(m, e)]
    <2>1. e + 1 \in 1 .. Levels /\ e + 1 # 1 /\ (e + 1) - 1 = e /\ e \in 1 .. Levels /\ e \in Nat
      BY <1>1
    <2>2. Chained(m, e)
      BY <1>6, <2>1
    <2> HIDE DEF e
    <2>3. Branch[row] = Append(s, row) /\ row \in Nat
      BY <1>3, <1>4, <2>1
    <2>4. s \in Seq(Nat)
      <3>1. ForecastRow(m, e) \in TreeNode
        BY <1>1, <2>1, ForecastRowPlace DEF TreeNode
      <3> QED BY <3>1, BranchFacts
    <2>5. /\ Len(s) = Len(t) + e
          /\ \A k \in 1 .. Len(t) : s[k] = t[k]
          /\ \A k \in 1 .. e : s[Len(t) + k] = ForecastRow(m, k)
      BY <2>2 DEF Chained
    <2> HIDE DEF s, row, t
    <2>6. /\ Len(Append(s, row)) = Len(s) + 1
          /\ \A k \in 1 .. Len(s) + 1 : Append(s, row)[k] = IF k <= Len(s) THEN s[k] ELSE row
      BY <2>3, <2>4, AppendProperties
    <2>7. /\ Len(Branch[row]) = Len(t) + (e + 1)
          /\ \A k \in 1 .. Len(t) : Branch[row][k] = t[k]
      BY <1>2, <2>1, <2>3, <2>5, <2>6
    <2>8. ASSUME NEW k \in 1 .. e + 1 PROVE Branch[row][Len(t) + k] = ForecastRow(m, k)
      <3>1. CASE k = e + 1
        <4>1. Len(t) + k = Len(s) + 1 /\ Len(s) + 1 \in 1 .. Len(s) + 1 /\ ~ (Len(s) + 1 <= Len(s))
          BY <1>2, <2>1, <2>5, <3>1
        <4> QED BY <2>3, <2>6, <3>1, <4>1 DEF row
      <3>2. CASE k # e + 1
        <4>1. k \in 1 .. e /\ Len(t) + k \in 1 .. Len(s) + 1 /\ Len(t) + k <= Len(s)
          BY <1>2, <2>1, <2>5, <3>2
        <4> QED BY <2>3, <2>5, <2>6, <4>1
      <3> QED BY <3>1, <3>2
    <2>9. row \in NumDraftNodes .. TotalTokens - 1 /\ (row - NumDraftNodes) % Levels = (e + 1) - 1
      BY <2>1, ForecastRowPlace DEF row
    <2>10. Chained(m, e + 1)
      BY <2>7, <2>8, <2>9 DEF Chained, row, t
    <2> QED BY <2>10 DEF e
  <1> HIDE DEF S
  <1>7. Nat \subseteq S
    BY <1>5, <1>6, Induction
  <1>8. ASSUME NEW d \in 1 .. Levels PROVE Chained(m, d)
    <2>1. d - 1 \in Nat /\ (d - 1) + 1 = d /\ (d - 1) + 1 <= Levels
      BY <1>1
    <2> QED BY <1>7, <2>1 DEF S
  <1> QED BY <1>8
-----------------------------------------------------------------------------
(* The tokens of a tree pass.                                              *)

\* The tokens of the pass over a draft tree.
Passed(tree) ==
    [i \in 0 .. TotalTokens - 1 |->
       IF i < NumDraftNodes THEN tree[i] ELSE ForecastToken(((i - NumDraftNodes) % Levels) + 1)]

\* The tokens behind row i of such a pass, from the root on.
Text(tree, i) == [k \in 1 .. Len(Branch[i]) |-> Passed(tree)[Branch[i][k]]]

\* d forecast tokens in a row.
Forecasts(d) == [k \in 1 .. d |-> ForecastToken(k)]

\* The tokens of tree at the nodes of ids.
Drafted(tree, ids) == [k \in 1 .. Len(ids) |-> tree[ids[k]]]

LEMMA VocabularyIsInt == VocabSize \in Nat /\ Token \subseteq Nat /\ \A t \in Token : t < VocabSize
  BY SSDAssumption DEF Token

LEMMA PassedFacts ==
    ASSUME NEW tree \in [DraftNode -> Token]
    PROVE  /\ DOMAIN Passed(tree) = TreeNode
           /\ Passed(tree) \in [TreeNode -> Int]
           /\ \A i \in DraftNode : i \in TreeNode /\ i < NumDraftNodes /\ Passed(tree)[i] = tree[i]
           /\ \A m \in DraftNode, d \in 1 .. Levels :
                 /\ ForecastRow(m, d) \in TreeNode /\ ~ (ForecastRow(m, d) < NumDraftNodes)
                 /\ Passed(tree)[ForecastRow(m, d)] = ForecastToken(d)
  <1>1. /\ NumDraftNodes \in Nat /\ NumDraftNodes <= TotalTokens /\ TotalTokens \in Nat
        /\ Levels \in Nat \ {0}
    BY TreeFacts, GrownFacts
  <1>2. VocabSize \in Nat /\ Token \subseteq Nat
    BY VocabularyIsInt
  <1>3. \A i \in DraftNode : i \in TreeNode /\ i < NumDraftNodes /\ Passed(tree)[i] = tree[i]
    BY <1>1 DEF DraftNode, TreeNode, Passed
  <1>4. ASSUME NEW m \in DraftNode, NEW d \in 1 .. Levels
        PROVE  /\ ForecastRow(m, d) \in TreeNode /\ ~ (ForecastRow(m, d) < NumDraftNodes)
               /\ Passed(tree)[ForecastRow(m, d)] = ForecastToken(d)
    <2> DEFINE row == ForecastRow(m, d)
    <2>1. row \in NumDraftNodes .. TotalTokens - 1 /\ (row - NumDraftNodes) % Levels = d - 1
      BY ForecastRowPlace
    <2> HIDE DEF row
    <2>2. row \in TreeNode /\ ~ (row < NumDraftNodes)
      BY <1>1, <2>1 DEF TreeNode
    <2>3. Passed(tree)[row] = ForecastToken(((row - NumDraftNodes) % Levels) + 1)
      BY <2>2 DEF Passed, TreeNode
    <2>4. Passed(tree)[row] = ForecastToken((d - 1) + 1)
      BY <2>1, <2>3
    <2>5. (d - 1) + 1 = d
      OBVIOUS
    <2> QED BY <2>2, <2>4, <2>5 DEF row
  <1>5. Passed(tree) \in [TreeNode -> Int]
    <2>1. ASSUME NEW i \in TreeNode
          PROVE  (IF i < NumDraftNodes THEN tree[i] ELSE ForecastToken(((i - NumDraftNodes) % Levels) + 1)) \in Int
      <3>1. CASE i < NumDraftNodes
        <4>1. i \in DraftNode
          BY <1>1, <3>1 DEF TreeNode, DraftNode
        <4>2. tree[i] \in Nat
          BY <1>2, <4>1
        <4> QED BY <3>1, <4>2
      <3>2. CASE ~ (i < NumDraftNodes)
        <4> DEFINE k == (i - NumDraftNodes) % Levels
        <4>1. i - NumDraftNodes \in Int
          BY <1>1 DEF TreeNode
        <4>2. k \in Int
          BY <1>1, <4>1
        <4> HIDE DEF k
        <4>3. ForecastToken(k + 1) \in Int
          BY <1>2, <4>2 DEF ForecastToken
        <4> QED BY <3>2, <4>3 DEF k
      <3> QED BY <3>1, <3>2
    <2> QED BY <2>1 DEF Passed, TreeNode
  <1>6. DOMAIN Passed(tree) = TreeNode
    BY <1>5
  <1> QED BY <1>3, <1>4, <1>5, <1>6

\* A draft node stands for the drafted tokens of its branch.
LEMMA DraftText ==
    ASSUME NEW tree \in [DraftNode -> Token], NEW i \in DraftNode
    PROVE  /\ Branch[i] \in Seq(DraftNode)
           /\ Text(tree, i) = Drafted(tree, Branch[i])
           /\ Text(tree, i) \in Seq(Token) /\ Len(Text(tree, i)) = Len(Branch[i])
  <1>1. NumDraftNodes \in Nat /\ i \in Nat /\ i < NumDraftNodes /\ i \in TreeNode
    BY TreeFacts DEF DraftNode, TreeNode
  <1> DEFINE b == Branch[i]
             n == Len(b)
  <1>2. b \in Seq(Nat) /\ n \in Nat /\ \A k \in 1 .. n : b[k] <= i
    BY <1>1, BranchFacts
  <1> HIDE DEF n
  <1>3. \A k \in 1 .. n : b[k] \in DraftNode
    <2> HIDE DEF b
    <2>1. \A k \in 1 .. n : b[k] \in Nat
      BY <1>2 DEF n
    <2> QED BY <1>1, <1>2, <2>1 DEF DraftNode
  <1> HIDE DEF b
  <1>4. b \in Seq(DraftNode)
    BY <1>2, <1>3 DEF n
  <1>5. \A k \in 1 .. n : Passed(tree)[b[k]] = tree[b[k]] /\ tree[b[k]] \in Token
    BY <1>3, PassedFacts
  <1>6. [k \in 1 .. n |-> Passed(tree)[b[k]]] = [k \in 1 .. n |-> tree[b[k]]]
    BY <1>5
  <1>7. [k \in 1 .. n |-> tree[b[k]]] \in Seq(Token) /\ Len([k \in 1 .. n |-> tree[b[k]]]) = n
    BY <1>2, <1>5
  <1> QED BY <1>4, <1>6, <1>7 DEF Text, Drafted, b, n

\* A forecast row stands for the tokens of its node's branch and the forecast tokens
\* down to it.
LEMMA ForecastText ==
    ASSUME NEW tree \in [DraftNode -> Token], NEW m \in DraftNode, NEW d \in 1 .. Levels
    PROVE  Text(tree, ForecastRow(m, d)) = Text(tree, m) \o Forecasts(d)
  <1> DEFINE row == ForecastRow(m, d)
             n == Len(Branch[m])
             t == Text(tree, m)
             f == Forecasts(d)
             b == Branch[row]
             p == Passed(tree)
  <1>1. Chained(m, d)
    BY ChainFacts
  <1>2. t \in Seq(Token) /\ Len(t) = n /\ n \in Nat /\ \A k \in 1 .. n : t[k] = p[Branch[m][k]]
    <2>1. Branch[m] \in Seq(DraftNode) /\ t \in Seq(Token) /\ Len(t) = n
      BY DraftText, Zenon
    <2>2. t = [k \in 1 .. n |-> p[Branch[m][k]]]
      BY DEF Text
    <2> HIDE DEF t, p
    <2>3. n \in Nat
      BY <2>1
    <2> HIDE DEF n
    <2> QED BY <2>1, <2>2, <2>3
  <1>3. VocabSize \in Nat /\ d \in Nat
    BY VocabularyIsInt, GrownFacts
  <1>4. f \in Seq(Int) /\ Len(f) = d /\ \A k \in 1 .. d : f[k] = ForecastToken(k)
    <2>1. \A k \in 1 .. d : ForecastToken(k) \in Int
      BY <1>3 DEF ForecastToken
    <2> QED BY <1>3, <2>1 DEF Forecasts
  <1>5. /\ Len(b) = n + d
        /\ \A k \in 1 .. n : b[k] = Branch[m][k]
        /\ \A k \in 1 .. d : b[n + k] = ForecastRow(m, k)
    BY <1>1 DEF Chained
  <1>6. \A k \in 1 .. d : p[ForecastRow(m, k)] = ForecastToken(k)
    <2>1. \A k \in 1 .. d : k \in 1 .. Levels
      BY GrownFacts
    <2> QED BY <2>1, PassedFacts
  <1>7. Text(tree, row) = [k \in 1 .. n + d |-> p[b[k]]]
    BY <1>5 DEF Text
  <1> HIDE DEF t, f, p, b, n
  <1>8. t \in Seq(Int)
    <2>1. Token \subseteq Int
      <3>1. Token \subseteq Nat /\ Nat \subseteq Int
        BY VocabularyIsInt
      <3> QED BY <3>1, Zenon
    <2>2. \A k \in 1 .. n : t[k] \in Token
      BY <1>2
    <2>3. \A k \in 1 .. n : t[k] \in Int
      BY <2>1, <2>2, Zenon
    <2> QED BY <1>2, <2>3
  <1>12. /\ t \o f \in Seq(Int) /\ Len(t \o f) = n + d
         /\ \A k \in 1 .. n + d : (t \o f)[k] = IF k <= n THEN t[k] ELSE f[k - n]
    BY ZenonT(40), <1>2, <1>4, <1>8, ConcatProperties
  <1>9. ASSUME NEW k \in 1 .. n + d PROVE p[b[k]] = (t \o f)[k]
    <2>1. CASE k <= n
      <3>1. k \in 1 .. n
        BY <1>2, <1>3, <2>1
      <3>2. p[b[k]] = t[k]
        BY <1>2, <1>5, <3>1
      <3> QED BY <1>12, <2>1, <3>2
    <2>2. CASE ~ (k <= n)
      <3> DEFINE j == k - n
      <3>1. j \in 1 .. d /\ k = n + j
        BY <1>2, <1>3, <2>2
      <3> HIDE DEF j
      <3>2. p[b[k]] = f[j]
        BY <1>4, <1>5, <1>6, <3>1
      <3>3. (t \o f)[k] = f[k - n]
        BY <1>12, <2>2
      <3> QED BY <3>2, <3>3 DEF j
    <2> QED BY <2>1, <2>2
  <1>10. t \o f = [k \in 1 .. n + d |-> (t \o f)[k]]
    <2> DEFINE u == t \o f
    <2>1. u \in Seq(Int) /\ Len(u) = n + d
      BY <1>12
    <2> HIDE DEF u
    <2>2. u = [k \in 1 .. n + d |-> u[k]]
      BY <2>1
    <2> QED BY <2>2 DEF u
  <1>11. [k \in 1 .. n + d |-> p[b[k]]] = [k \in 1 .. n + d |-> (t \o f)[k]]
    BY <1>9
  <1> QED BY <1>7, <1>10, <1>11 DEF t, f

\* TreeRows: a row stands for the context and its branch if it is a drafted token behind
\* the mask of drafts, or a forecast token with the prefix loaded.
LEMMA RowText ==
    ASSUME NEW tokens, NEW prefix_offset, NEW i \in DOMAIN tokens, i \in TreeNode,
           CacheHolds(DecodeKV), n_past = ForecastPrefix + Len(context), context \in Seq(Token),
           IF i < prefix_offset THEN ~ (tokens[i] >= VocabSize)
           ELSE tokens[i] >= VocabSize /\ PrefixLoaded(DecodeKV)
    PROVE  TreeRows(tokens, prefix_offset)[i] = context \o [k \in 1 .. Len(Branch[i]) |-> tokens[Branch[i][k]]]
  <1> DEFINE forecast == tokens[i] >= VocabSize
             sees == /\ MaskColumns(i, prefix_offset) = (IF forecast THEN 0 ELSE ForecastPrefix) .. n_past - 1
                     /\ forecast => PrefixLoaded(DecodeKV)
             behind == n_past - ForecastPrefix + Depth[i] = Len(context) + Len(Branch[i]) - 1
             text == context \o [k \in 1 .. Len(Branch[i]) |-> tokens[Branch[i][k]]]
  <1>1. TreeRows(tokens, prefix_offset)[i] = IF CacheHolds(DecodeKV) /\ sees /\ behind THEN text ELSE Junk
    BY DEF TreeRows
  <1>2. sees
    <2>1. CASE i < prefix_offset
      BY <2>1 DEF MaskColumns
    <2>2. CASE ~ (i < prefix_offset)
      BY <2>2 DEF MaskColumns
    <2> QED BY <2>1, <2>2
  <1>3. behind
    <2>1. Depth[i] \in Nat /\ Depth[i] = Len(Branch[i]) - 1 /\ Len(Branch[i]) \in Nat
      BY DepthFacts, BranchFacts
    <2>2. ForecastPrefix \in Nat /\ Len(context) \in Nat
      BY SSDAssumption
    <2> QED BY <2>1, <2>2
  <1> QED BY <1>1, <1>2, <1>3
-----------------------------------------------------------------------------
(* The buffer: what its columns hold and what the moves of a call keep.    *)

Addr == 0 .. Rows * DecodeKV - 1
Strides == {PrefillKV, DecodeKV}

LEMMA StrideFacts ==
    /\ PrefillKV \in Nat \ {0} /\ DecodeKV \in Nat \ {0} /\ PrefillKV <= DecodeKV
    /\ ForecastPrefix \in Nat /\ ForecastPrefix < PrefillKV /\ Rows \in Nat \ {0}
    /\ SeqLenPrefill \in Nat \ {0}
    /\ \A s \in Strides : s \in Nat \ {0} /\ s <= DecodeKV
  <1>1. /\ ContextLength \in Nat /\ SeqLenPrefill \in Nat /\ SeqLenDecode \in Nat
        /\ SeqLenDecode <= SeqLenPrefill /\ TotalTokens <= SeqLenDecode /\ TotalTokens \in Nat
        /\ TotalTokens >= 2
        /\ ForecastPrefix \in Nat /\ ForecastPrefix < ContextLength - SeqLenPrefill /\ Rows \in Nat \ {0}
    <2>1. TotalTokens \in Nat /\ TotalTokens >= 2
      BY TreeFacts
    <2> QED BY <2>1, SSDAssumption DEF PrefillKV
  <1>2. /\ PrefillKV \in Nat \ {0} /\ DecodeKV \in Nat \ {0} /\ PrefillKV <= DecodeKV
        /\ ForecastPrefix < PrefillKV
    BY <1>1 DEF PrefillKV, DecodeKV
  <1> QED BY <1>1, <1>2 DEF Strides

LEMMA CellInBuffer ==
    ASSUME NEW stride \in Strides, NEW r \in Row, NEW i \in 0 .. stride - 1
    PROVE  r * stride + i \in Addr
  <1>1. /\ Rows \in Nat /\ DecodeKV \in Nat /\ stride \in 0 .. DecodeKV /\ r \in 0 .. Rows - 1
    BY StrideFacts DEF Row
  <1> QED BY <1>1, CellInTensor DEF Addr

\* buf holds, behind the prefix of every row, the entries of the tokens c.
Held(buf, stride, c) ==
    \A r \in Row, i \in 1 .. Len(c) :
        buf[r * stride + (ForecastPrefix + i - 1)] = Entry(r, SubSeq(c, 1, i))

\* buf and old agree on the columns of the prefix.
SamePrefix(old, buf, stride) ==
    \A r \in Row, i \in 0 .. ForecastPrefix - 1 : buf[r * stride + i] = old[r * stride + i]

LEMMA CacheHoldsIsHeld ==
    ASSUME NEW stride \in Strides, context \in Seq(Token)
    PROVE  CacheHolds(stride) <=> n_past <= stride /\ Held(kv, stride, context)
  <1>1. ASSUME NEW r \in Row, NEW i \in 1 .. Len(context)
        PROVE  r * stride + ForecastPrefix + i - 1 = r * stride + (ForecastPrefix + i - 1)
    <2> DEFINE a == r * stride
    <2>1. a \in Nat
      BY StrideFacts, ProductNat DEF Row
    <2> HIDE DEF a
    <2>2. a + ForecastPrefix + i - 1 = a + (ForecastPrefix + i - 1)
      BY <2>1, StrideFacts
    <2> QED BY <2>2 DEF a
  <1>2. (\A r \in Row, i \in 1 .. Len(context) :
           kv[r * stride + ForecastPrefix + i - 1] = Entry(r, SubSeq(context, 1, i)))
          <=> Held(kv, stride, context)
    BY <1>1 DEF Held
  <1> QED BY <1>2 DEF CacheHolds

\* src holds the entries of the n tokens of e behind the first m.
Sources(src, e, m, n) ==
    \A r \in Row, k \in 0 .. n - 1 : src[r, k] = Entry(r, SubSeq(e, 1, m + k + 1))

\* e begins with c.
Begins(e, c) == \A i \in 1 .. Len(c) : SubSeq(e, 1, i) = SubSeq(c, 1, i)

\* updateKV and selectiveKVUpdate: the entries of the tokens that follow c join those of c.
LEMMA CopyHeld ==
    ASSUME NEW buf, DOMAIN buf = Addr, NEW stride \in Strides, NEW c \in Seq(Token), NEW n \in Nat,
           NEW e \in Seq(Token), Len(e) = Len(c) + n,
           Begins(e, c), NEW off, off = ForecastPrefix + Len(c), Overruns(stride, off, n) = {},
           NEW src, Sources(src, e, Len(c), n),
           Held(buf, stride, c)
    PROVE  /\ ForecastPrefix + Len(e) <= stride
           /\ Held(CopyTokens(buf, Rows, stride, off, n, src), stride, e)
           /\ SamePrefix(buf, CopyTokens(buf, Rows, stride, off, n, src), stride)
  <1> DEFINE b == CopyTokens(buf, Rows, stride, off, n, src)
  <1>1. FitsRow(stride, off, n) /\ off + n <= stride
    BY DEF Overruns, FitsRow
  <1>2. stride \in Nat \ {0} /\ Rows \in Nat /\ ForecastPrefix \in Nat /\ Len(c) \in Nat /\ off \in Nat
    BY StrideFacts
  <1>3. Copied(buf, b, Rows, stride, off, n, src)
    BY <1>1, <1>2, CopyCells, Zenon
  <1> HIDE DEF b
  <1>4. ASSUME NEW r \in Row, NEW i \in 0 .. stride - 1
        PROVE  b[r * stride + i] = IF off <= i /\ i < off + n THEN src[r, i - off] ELSE buf[r * stride + i]
    <2>1. r \in 0 .. Rows - 1 /\ r * stride + i \in DOMAIN buf
      BY CellInBuffer DEF Row
    <2> QED BY <1>3, <2>1 DEF Copied
  <1>5. ASSUME NEW r \in Row, NEW i \in 1 .. Len(e)
        PROVE  b[r * stride + (ForecastPrefix + i - 1)] = Entry(r, SubSeq(e, 1, i))
    <2> DEFINE x == ForecastPrefix + i - 1
    <2>1. x \in 0 .. stride - 1
      BY <1>1, <1>2
    <2>2. b[r * stride + x] = IF off <= x /\ x < off + n THEN src[r, x - off] ELSE buf[r * stride + x]
      BY <1>4, <2>1
    <2>3. CASE i <= Len(c)
      <3>1. i \in 1 .. Len(c) /\ ~ (off <= x)
        BY <1>2, <2>3
      <3>2. buf[r * stride + x] = Entry(r, SubSeq(c, 1, i))
        BY <3>1 DEF Held
      <3>3. SubSeq(e, 1, i) = SubSeq(c, 1, i)
        BY <3>1 DEF Begins
      <3> QED BY <2>2, <3>1, <3>2, <3>3
    <2>4. CASE ~ (i <= Len(c))
      <3>1. off <= x /\ x < off + n /\ x - off \in 0 .. n - 1 /\ Len(c) + (x - off) + 1 = i
        BY <1>2, <2>4
      <3> HIDE DEF x
      <3>2. src[r, x - off] = Entry(r, SubSeq(e, 1, Len(c) + (x - off) + 1))
        BY <3>1 DEF Sources
      <3> QED BY <2>2, <3>1, <3>2 DEF x
    <2> QED BY <2>3, <2>4
  <1>6. ASSUME NEW r \in Row, NEW i \in 0 .. ForecastPrefix - 1
        PROVE  b[r * stride + i] = buf[r * stride + i]
    <2>1. i \in 0 .. stride - 1 /\ ~ (off <= i)
      BY <1>1, <1>2
    <2> QED BY <1>4, <2>1
  <1>7. ForecastPrefix + Len(e) <= stride
    BY <1>1, <1>2
  <1> QED BY <1>5, <1>6, <1>7 DEF Held, SamePrefix, b

\* reshapeKV: a change of stride that loses none of the valid tokens.
LEMMA RestrideHeld ==
    ASSUME NEW buf, DOMAIN buf = Addr, NEW old \in Strides, NEW new \in Strides, NEW c \in Seq(Token),
           NEW n, n = ForecastPrefix + Len(c), Loses(old, new) = {}, n_past = n,
           Held(buf, old, c)
    PROVE  n <= new /\ Held(Restride(buf, Rows, old, new, n, Zero), new, c)
  <1> DEFINE b == Restride(buf, Rows, old, new, n, Zero)
             len == CopyLen(old, new, n)
  <1>1. /\ old \in Nat \ {0} /\ new \in Nat \ {0} /\ Rows \in Nat /\ ForecastPrefix \in Nat
        /\ Len(c) \in Nat /\ n \in Nat
    BY StrideFacts
  <1>2. ~ (len < n)
    BY DEF Loses
  <1>3. len = n /\ n <= new
    BY <1>1, <1>2 DEF CopyLen, Min2
  <1>4. Moved(buf, b, Rows, old, new, len)
    BY <1>1, RestrideCells, Zenon
  <1> HIDE DEF b, len
  <1>5. ASSUME NEW r \in Row, NEW i \in 1 .. Len(c)
        PROVE  b[r * new + (ForecastPrefix + i - 1)] = Entry(r, SubSeq(c, 1, i))
    <2> DEFINE x == ForecastPrefix + i - 1
    <2>1. x \in 0 .. len - 1 /\ x \in 0 .. new - 1 /\ r \in 0 .. Rows - 1
      BY <1>1, <1>3 DEF Row
    <2> HIDE DEF x
    <2>2. r * new + x \in DOMAIN buf
      BY <2>1, CellInBuffer
    <2>3. b[r * new + x] = buf[r * old + x]
      BY <1>4, <2>1, <2>2 DEF Moved
    <2>4. buf[r * old + x] = Entry(r, SubSeq(c, 1, i))
      BY DEF Held, x
    <2> QED BY <2>3, <2>4 DEF x
  <1> QED BY <1>3, <1>5 DEF Held, b

\* A context followed by more tokens has the same beginnings.
LEMMA Beginnings ==
    ASSUME NEW T, NEW c \in Seq(T), NEW u \in Seq(T), NEW i \in 1 .. Len(c)
    PROVE  SubSeq(c \o u, 1, i) = SubSeq(c, 1, i)
  <1> DEFINE e == c \o u
             a == SubSeq(e, 1, i)
             b == SubSeq(c, 1, i)
  <1>1. /\ e \in Seq(T) /\ Len(e) = Len(c) + Len(u) /\ Len(c) \in Nat /\ Len(u) \in Nat
        /\ \A j \in 1 .. Len(c) : e[j] = c[j]
    <2>1. /\ e \in Seq(T) /\ Len(e) = Len(c) + Len(u) /\ Len(c) \in Nat /\ Len(u) \in Nat
          /\ \A j \in 1 .. Len(c) + Len(u) : e[j] = IF j <= Len(c) THEN c[j] ELSE u[j - Len(c)]
      BY ConcatProperties
    <2> HIDE DEF e
    <2> QED BY <2>1
  <1> HIDE DEF e
  <1>2. i \in Nat /\ 1 \in Nat \ {0} /\ i <= Len(c) /\ i <= Len(e)
    BY <1>1
  <1>3. /\ a \in Seq(T) /\ Len(a) = (IF 1 <= i THEN i - 1 + 1 ELSE 0)
        /\ \A j \in 1 .. i - 1 + 1 : a[j] = e[1 + j - 1]
    BY <1>1, <1>2, Slice
  <1>4. /\ b \in Seq(T) /\ Len(b) = (IF 1 <= i THEN i - 1 + 1 ELSE 0)
        /\ \A j \in 1 .. i - 1 + 1 : b[j] = c[1 + j - 1]
    BY <1>2, Slice
  <1> HIDE DEF a, b
  <1>5. Len(a) = i /\ Len(b) = i
    BY <1>2, <1>3, <1>4
  <1>6. ASSUME NEW j \in 1 .. i PROVE a[j] = b[j]
    <2>1. j \in 1 .. i - 1 + 1 /\ 1 + j - 1 = j /\ j \in 1 .. Len(c)
      BY <1>1
    <2> QED BY <1>1, <1>3, <1>4, <2>1
  <1>7. a = b
    BY <1>3, <1>4, <1>5, <1>6
  <1> QED BY <1>7 DEF a, b, e
-----------------------------------------------------------------------------
(* The invariants.                                                         *)

Walking == pc \in {"verify", "commit"}

Members ==
    /\ n_past \in Nat /\ context \in Seq(Token) /\ DOMAIN kv = Addr
    /\ damage \subseteq {"overrun", "truncated", "stride"}

Locals ==
    /\ pc \in {"idle", "prefill", "initial", "draft", "loop", "verify", "commit", "restore", "thrown"}
    /\ max_tokens \in MaxTokens \cup {0} /\ todo \in Seq(Token)
    /\ output \in Seq(Token) /\ step \in Nat /\ root \in Token /\ offset \in 0 .. TotalTokens - 1
    /\ pc \in {"prefill", "initial"} => step = 0
    /\ pc = "initial" => output = <<root>>

Rooted ==
    /\ draft_tree \in [DraftNode -> Token]
    /\ pc \in {"loop", "verify", "commit"} => draft_tree[0] = root

Verdict ==
    /\ accepted_ids \in Seq(DraftNode) /\ accepted_tokens \in Seq(Token)
    /\ Len(accepted_ids) = Len(accepted_tokens) /\ cur_idx \in 0 .. NumDraftNodes
    /\ Walking => accepted_ids # <<>> /\ accepted_tokens # <<>> /\ cur_idx >= 1

TypeInv == Members /\ Locals /\ Rooted /\ Verdict

\* The accepted nodes are one branch from the root on, and no node looked at continues it.
Path ==
    Walking =>
      /\ \A k \in 1 .. Len(accepted_ids) :
            Branch[accepted_ids[k]] = SubSeq(accepted_ids, 1, k) /\ accepted_ids[k] < cur_idx
      /\ \A j, k \in 1 .. Len(accepted_ids) : j < k => accepted_ids[j] < accepted_ids[k]
      /\ \A i \in 1 .. cur_idx - 1 : ~ Extends(i)
      /\ pc = "commit" /\ Last(accepted_tokens) \notin Eos => cur_idx = NumDraftNodes

\* Every accepted node drafted the token that was accepted before it.
Agreed == Walking => Drafted(draft_tree, accepted_ids) = <<root>> \o Front(accepted_tokens)

\* The rows of the last tree pass.
RowsSound ==
    Walking /\ damage = {} =>
      \A i \in TreeNode : i < NumDraftNodes \/ PrefixLoaded(DecodeKV) =>
        logits[i] = context \o Text(draft_tree, i)

\* The context behind the last token that was chosen.
BasisSound ==
    damage = {} =>
      /\ pc = "prefill" /\ todo = <<>> => basis = context
      /\ Walking => basis = logits[Last(accepted_ids)]

\* How many levels of the next tree are drafted behind the cached text.
Sound == IF step = 0 THEN 1 ELSE Levels

\* The rows the next tree will be drafted from.
OffsetSound ==
    pc = "draft" /\ damage = {} /\ PrefixLoaded(DecodeKV) =>
      \A d \in 1 .. Sound : logits[offset + d - 1] = context \o Forecasts(d)

\* An EOS ends the walk.
EndsLast ==
    /\ pc = "verify" => \A k \in 1 .. Len(accepted_tokens) : accepted_tokens[k] \notin Eos
    /\ pc = "commit" => \A k \in 1 .. Len(accepted_tokens) - 1 : accepted_tokens[k] \notin Eos

\* The cached text and the root end with the emitted text, or go beyond it by less than a
\* branch.
Goes(text, emitted, most) ==
    \E pre, rest \in Seq(Token) : Len(rest) <= most /\ text = (pre \o emitted) \o rest

Continued ==
    /\ pc = "prefill" => output = <<>>
    /\ pc \in {"draft", "loop", "verify", "commit"} => Goes(Append(context, root), output, 0)
    /\ pc = "restore" => Goes(Append(context, root), output, Levels)
-----------------------------------------------------------------------------
(* The types.                                                              *)

LEMMA Beginning ==
    ASSUME NEW T, NEW s \in Seq(T), NEW k \in 0 .. Len(s)
    PROVE  /\ SubSeq(s, 1, k) \in Seq(T) /\ Len(SubSeq(s, 1, k)) = k
           /\ \A i \in 1 .. k : SubSeq(s, 1, k)[i] = s[i]
  <1>1. Len(s) \in Nat /\ k \in Nat /\ k <= Len(s) /\ 1 \in Nat \ {0}
    OBVIOUS
  <1>2. /\ SubSeq(s, 1, k) \in Seq(T) /\ Len(SubSeq(s, 1, k)) = (IF 1 <= k THEN k - 1 + 1 ELSE 0)
        /\ \A i \in 1 .. k - 1 + 1 : SubSeq(s, 1, k)[i] = s[1 + i - 1]
    BY <1>1, Slice
  <1>3. k - 1 + 1 = k /\ (IF 1 <= k THEN k - 1 + 1 ELSE 0) = k
    BY <1>1
  <1>4. \A i \in 1 .. k : 1 + i - 1 = i
    OBVIOUS
  <1> QED BY <1>2, <1>3, <1>4

LEMMA WholeSlice ==
    ASSUME NEW T, NEW s \in Seq(T)
    PROVE  SubSeq(s, 1, Len(s)) = s
  OBVIOUS

\* The tokens to emit are the first of the accepted ones.
LEMMA EmittableFacts ==
    ASSUME accepted_tokens \in Seq(Token)
    PROVE  /\ Emittable \in Seq(Token)
           /\ Len(Emittable) \in 0 .. Len(accepted_tokens)
           /\ Emittable = SubSeq(accepted_tokens, 1, Len(Emittable))
  <1> DEFINE ends == {k \in DOMAIN accepted_tokens : accepted_tokens[k] \in Eos}
             m == IF ends = {} THEN Len(accepted_tokens) ELSE Min(ends) - 1
  <1>1. ends \subseteq 1 .. Len(accepted_tokens) /\ Len(accepted_tokens) \in Nat
    OBVIOUS
  <1> HIDE DEF ends
  <1>2. ASSUME ends # {} PROVE Min(ends) \in ends
    <2>1. ends \in SUBSET Nat
      BY <1>1
    <2>2. PICK x \in ends : \A y \in ends : x <= y
      BY <1>2, <2>1, Least
    <2> QED BY <2>2 DEF Min
  <1>3. m \in 0 .. Len(accepted_tokens)
    <2>1. CASE ends = {}
      BY <1>1, <2>1
    <2>2. CASE ends # {}
      <3> DEFINE x == Min(ends)
      <3>1. x \in 1 .. Len(accepted_tokens)
        BY <1>1, <1>2, <2>2
      <3>2. m = x - 1
        BY <2>2
      <3> HIDE DEF x, m
      <3> QED BY <1>1, <3>1, <3>2
    <2> QED BY <2>1, <2>2
  <1>4. Emittable = SubSeq(accepted_tokens, 1, m)
    BY DEF Emittable, ends
  <1> HIDE DEF m
  <1>5. Emittable \in Seq(Token) /\ Len(Emittable) = m
    BY <1>3, <1>4, Beginning
  <1>6. Emittable = SubSeq(accepted_tokens, 1, Len(Emittable))
    BY <1>4, <1>5
  <1> QED BY <1>3, <1>5, <1>6

LEMMA BeginningTwice ==
    ASSUME NEW T, NEW s \in Seq(T), NEW e \in 0 .. Len(s), NEW k \in 0 .. e
    PROVE  SubSeq(SubSeq(s, 1, e), 1, k) = SubSeq(s, 1, k)
  <1> DEFINE a == SubSeq(s, 1, e)
             b == SubSeq(s, 1, k)
             c == SubSeq(a, 1, k)
  <1>1. k \in 0 .. Len(s) /\ k <= e
    OBVIOUS
  <1>2. a \in Seq(T) /\ Len(a) = e /\ \A i \in 1 .. e : a[i] = s[i]
    BY Beginning
  <1>3. b \in Seq(T) /\ Len(b) = k /\ \A i \in 1 .. k : b[i] = s[i]
    BY <1>1, Beginning
  <1> HIDE DEF a, b
  <1>4. c \in Seq(T) /\ Len(c) = k /\ \A i \in 1 .. k : c[i] = a[i]
    BY <1>2, Beginning
  <1> HIDE DEF c
  <1>5. c = b
    BY <1>1, <1>2, <1>3, <1>4, SeqEqual
  <1> QED BY <1>5 DEF a, b, c

\* A sequence is its beginning and what is behind it.
LEMMA Halves ==
    ASSUME NEW T, NEW s \in Seq(T), NEW j \in 0 .. Len(s)
    PROVE  s = SubSeq(s, 1, j) \o SubSeq(s, j + 1, Len(s))
  <1> DEFINE n == Len(s)
             u == SubSeq(s, 1, j)
             v == SubSeq(s, j + 1, n)
             w == u \o v
  <1>1. u \in Seq(T) /\ Len(u) = j /\ \A i \in 1 .. j : u[i] = s[i]
    BY Beginning
  <1>2. v \in Seq(T) /\ Len(v) = n - j /\ \A i \in 1 .. n - j : v[i] = s[j + i]
    BY Behind
  <1>3. n \in Nat /\ j \in 0 .. n
    OBVIOUS
  <1> HIDE DEF u, v
  <1>4. /\ w \in Seq(T) /\ Len(w) = Len(u) + Len(v)
        /\ \A i \in 1 .. Len(u) + Len(v) : w[i] = IF i <= Len(u) THEN u[i] ELSE v[i - Len(u)]
    BY <1>1, <1>2, ConcatProperties
  <1> HIDE DEF w, n
  <1>5. Len(w) = n
    BY <1>1, <1>2, <1>3, <1>4
  <1>6. ASSUME NEW i \in 1 .. n PROVE w[i] = s[i]
    <2>1. CASE i <= j
      BY <1>1, <1>2, <1>3, <1>4, <2>1
    <2>2. CASE ~ (i <= j)
      <3>1. i - j \in 1 .. n - j /\ j + (i - j) = i /\ i \in 1 .. Len(u) + Len(v) /\ ~ (i <= Len(u))
        BY <1>1, <1>2, <1>3, <2>2
      <3>2. w[i] = v[i - j]
        BY <1>1, <1>4, <3>1
      <3> QED BY <1>2, <3>1, <3>2
    <2> QED BY <2>1, <2>2
  <1>7. s = w
    BY <1>4, <1>5, <1>6, SeqEqual DEF n
  <1> QED BY <1>7 DEF w, u, v, n

\* Of a concatenation the first half is left when the length of the second is cut off.
LEMMA FirstHalf ==
    ASSUME NEW T, NEW x \in Seq(T), NEW rest \in Seq(T)
    PROVE  Len(x \o rest) - Len(rest) = Len(x) /\ SubSeq(x \o rest, 1, Len(x)) = x
  <1> DEFINE t == x \o rest
             k == Len(x)
             b == SubSeq(t, 1, k)
  <1>1. /\ t \in Seq(T) /\ Len(t) = k + Len(rest) /\ k \in Nat /\ Len(rest) \in Nat
        /\ \A i \in 1 .. k + Len(rest) : t[i] = IF i <= k THEN x[i] ELSE rest[i - k]
    BY ConcatProperties
  <1> HIDE DEF t
  <1>2. b \in Seq(T) /\ Len(b) = k /\ \A i \in 1 .. k : b[i] = t[i]
    <2>1. k \in 0 .. Len(t)
      BY <1>1
    <2> QED BY <1>1, <2>1, Beginning
  <1> HIDE DEF b
  <1>3. \A i \in 1 .. k : b[i] = x[i]
    BY <1>1, <1>2
  <1>4. b = x
    BY <1>2, <1>3, SeqEqual
  <1>5. Len(t) - Len(rest) = k
    <2> HIDE DEF k
    <2> QED BY <1>1
  <1> QED BY <1>4, <1>5 DEF b, t, k

\* The nodes of a branch drafted tokens of the vocabulary.
LEMMA DraftedType ==
    ASSUME NEW tree \in [DraftNode -> Token], NEW ids \in Seq(DraftNode)
    PROVE  Drafted(tree, ids) \in Seq(Token) /\ Len(Drafted(tree, ids)) = Len(ids)
  <1>1. \A k \in 1 .. Len(ids) : tree[ids[k]] \in Token
    OBVIOUS
  <1>2. Len(ids) \in Nat
    OBVIOUS
  <1> QED BY <1>1, <1>2 DEF Drafted

LEMMA CommitText ==
    ASSUME TypeInv, Commit
    PROVE  context' = context \o Drafted(draft_tree, accepted_ids) /\ n_past' = n_past + Len(accepted_ids)
  BY DEF TypeInv, Verdict, Commit, Drafted

LEMMA CopyDomain ==
    ASSUME NEW buf, NEW stride, NEW off, NEW n, NEW src
    PROVE  DOMAIN CopyTokens(buf, Rows, stride, off, n, src) = DOMAIN buf
  BY DEF CopyTokens

LEMMA RestrideDomain ==
    ASSUME NEW buf, NEW old, NEW new, NEW n
    PROVE  DOMAIN Restride(buf, Rows, old, new, n, Zero) = DOMAIN buf
  BY DEF Restride

\* A chunk of the prompt: what is fed, what is left.
LEMMA ChunkFacts ==
    ASSUME todo \in Seq(Token), todo # <<>>, NEW n, n = Min2(Len(todo), SeqLenPrefill)
    PROVE  /\ n \in 1 .. Len(todo)
           /\ SubSeq(todo, 1, n) \in Seq(Token) /\ Len(SubSeq(todo, 1, n)) = n
           /\ SubSeq(todo, n + 1, Len(todo)) \in Seq(Token)
  <1>1. Len(todo) \in Nat \ {0}
    BY EmptySeq
  <1>2. n \in 1 .. Len(todo) /\ n \in 0 .. Len(todo)
    BY <1>1, StrideFacts DEF Min2
  <1> QED BY <1>2, Beginning, Behind

LEMMA MembersNext == TypeInv /\ [Next]_vars => Members'
  <1> SUFFICES ASSUME TypeInv, [Next]_vars PROVE Members'
    OBVIOUS
  <1> USE DEF TypeInv, Members
  <1>1. CASE ResetKVCache
    BY <1>1, StrideFacts DEF ResetKVCache, FreshKV, Addr
  <1>2. ASSUME NEW prompt \in Prompts, NEW max \in MaxTokens, Generate(prompt, max) PROVE Members'
    BY <1>2 DEF Generate, members
  <1>3. CASE PrefillChunk
    <2> DEFINE n == Min2(Len(todo), SeqLenPrefill)
               u == SubSeq(todo, 1, n)
    <2>1. /\ n_past' = n_past + n /\ context' = context \o u
          /\ damage' = damage \cup Overruns(PrefillKV, PrefillColumn(n), n)
          /\ todo \in Seq(Token) /\ todo # <<>>
      BY <1>3 DEF PrefillChunk, Locals
    <2>2. DOMAIN kv' = Addr
      BY <1>3, CopyDomain DEF PrefillChunk
    <2>3. n \in 1 .. Len(todo) /\ u \in Seq(Token) /\ n \in Nat
      <3>1. n \in 1 .. Len(todo) /\ u \in Seq(Token)
        BY <2>1, ChunkFacts
      <3> QED BY <3>1
    <2> HIDE DEF n, u
    <2>4. n_past' \in Nat /\ context' \in Seq(Token)
      BY <2>1, <2>3, ConcatProperties
    <2> QED BY <2>1, <2>2, <2>4 DEF Overruns
  <1>4. CASE FirstToken
    <2>1. DOMAIN kv' = Addr
      BY <1>4, RestrideDomain DEF FirstToken
    <2> QED BY <1>4, <2>1 DEF FirstToken, Loses
  <1>5. CASE InitialPass
    <2>1. DOMAIN kv' = Addr
      BY <1>5, CopyDomain DEF InitialPass
    <2>2. root \in Token
      BY DEF Locals
    <2> QED BY <1>5, <2>1, <2>2 DEF InitialPass, Overruns
  <1>6. CASE Draft
    BY <1>6 DEF Draft, members
  <1>7. CASE LeaveLoop
    BY <1>7 DEF LeaveLoop, members
  <1>8. CASE TreePass
    BY <1>8 DEF TreePass, members
  <1>9. CASE VerifyNode
    BY <1>9 DEF VerifyNode, members
  <1>10. CASE VerifyDone
    BY <1>10 DEF VerifyDone, members
  <1>11. CASE Commit
    <2> DEFINE n == Len(accepted_ids)
               u == Drafted(draft_tree, accepted_ids)
    <2>1. context' = context \o u /\ n_past' = n_past + n
      BY <1>11, CommitText
    <2>2. DOMAIN kv' = Addr
      BY <1>11, CopyDomain DEF Commit
    <2>3. u \in Seq(Token) /\ n \in Nat
      BY DraftedType DEF Rooted, Verdict
    <2> HIDE DEF n, u
    <2>4. n_past' \in Nat /\ context' \in Seq(Token)
      BY <2>1, <2>3, ConcatProperties
    <2>5. damage' \subseteq {"overrun", "truncated", "stride"}
      BY <1>11 DEF Commit, Overruns
    <2> QED BY <2>2, <2>4, <2>5
  <1>12. CASE Restore
    <2>1. DOMAIN kv' = Addr
      BY <1>12, RestrideDomain DEF Restore
    <2> QED BY <1>12, <2>1 DEF Restore, Loses
  <1>13. CASE ExecuteFails
    BY <1>13 DEF ExecuteFails, members
  <1>14. CASE Unwind
    BY <1>14 DEF Unwind, members
  <1>15. CASE UNCHANGED vars
    BY <1>15 DEF vars
  <1> QED BY <1>1, <1>2, <1>3, <1>4, <1>5, <1>6, <1>7, <1>8, <1>9, <1>10, <1>11, <1>12, <1>13, <1>14, <1>15
          DEF Next

\* The first of the tokens to emit, the callback having ended the call there.
LEMMA EmittedFacts ==
    ASSUME accepted_tokens \in Seq(Token), output \in Seq(Token), NEW k \in 0 .. Len(Emittable)
    PROVE  /\ output \o Emittable \in Seq(Token)
           /\ output \o SubSeq(Emittable, 1, k) \in Seq(Token)
  <1>1. Emittable \in Seq(Token) /\ SubSeq(Emittable, 1, k) \in Seq(Token)
    BY EmittableFacts, Beginning
  <1> QED BY <1>1, ConcatProperties

LEMMA CommitOutput ==
    ASSUME TypeInv, Commit
    PROVE  output' \in Seq(Token) /\ pc' \in {"restore", "draft", "thrown"} /\ step' \in Nat
  <1>1. accepted_tokens \in Seq(Token) /\ output \in Seq(Token) /\ step \in Nat
    BY DEF TypeInv, Verdict, Locals
  <1>2. Emittable \in Seq(Token) /\ Len(Emittable) \in Nat
    BY <1>1, EmittableFacts
  <1>3. CASE /\ output' = output \o Emittable
             /\ IF Len(Emittable) < Len(accepted_tokens) \/ Enough(output')
                  THEN pc' = "restore" /\ UNCHANGED step
                  ELSE pc' = "draft" /\ step' = step + 1
    <2>1. 0 \in 0 .. Len(Emittable)
      BY <1>2
    <2>2. output' \in Seq(Token)
      BY <1>1, <1>3, <2>1, EmittedFacts
    <2> QED BY <1>1, <1>3, <2>2
  <1>4. ASSUME NEW k \in 1 .. Len(Emittable), NEW result \in CallbackResults \ {"go"},
               output' = output \o SubSeq(Emittable, 1, k),
               pc' = IF result = "stop" THEN "restore" ELSE "thrown", UNCHANGED step
        PROVE  output' \in Seq(Token) /\ pc' \in {"restore", "draft", "thrown"} /\ step' \in Nat
    <2>1. k \in 0 .. Len(Emittable)
      BY <1>2
    <2>2. output' \in Seq(Token)
      BY <1>1, <1>4, <2>1, EmittedFacts
    <2> QED BY <1>1, <1>4, <2>2
  <1> QED BY <1>3, <1>4 DEF Commit

LEMMA NextOffsetType ==
    ASSUME TypeInv, Walking
    PROVE  NextOffset \in 0 .. TotalTokens - 1
  <1> DEFINE m == Last(accepted_ids)
  <1>1. m \in DraftNode
    BY FrontLast DEF TypeInv, Verdict
  <1> HIDE DEF m
  <1>2. ForecastRow(m, 1) \in NumDraftNodes .. TotalTokens - 1
    <2>1. 1 \in 1 .. Levels
      BY GrownFacts
    <2> QED BY <1>1, <2>1, ForecastRowPlace
  <1>3. NextOffset = ForecastRow(m, 1)
    <2> DEFINE a == m * Levels
    <2>1. a \in Nat /\ NumDraftNodes \in Nat
      BY <1>1, ProductNat, GrownFacts, TreeFacts DEF DraftNode
    <2>2. NextOffset = NumDraftNodes + a /\ ForecastRow(m, 1) = NumDraftNodes + a + 1 - 1
      BY DEF NextOffset, ForecastRow, m
    <2> HIDE DEF a
    <2> QED BY <2>1, <2>2
  <1> QED BY <1>2, <1>3, TreeFacts

LEMMA Zeros == 0 \in Token /\ 0 \in 0 .. TotalTokens - 1 /\ 0 \in 0 .. NumDraftNodes
  <1>1. 1 \in 1 .. Levels
    BY GrownFacts
  <1>2. Branches[1] \in Nat \ {0} /\ Branches[1] < VocabSize /\ VocabSize \in Nat
    BY <1>1, GrownFacts, SSDAssumption
  <1>3. 0 \in Token
    BY <1>2 DEF Token
  <1>4. NumDraftNodes \in Nat /\ NumDraftNodes >= 2 /\ TotalTokens \in Nat /\ NumDraftNodes <= TotalTokens
    BY TreeFacts
  <1> QED BY <1>3, <1>4

LEMMA LeaveTypes ==
    ASSUME Leave
    PROVE  Locals' /\ Rooted' /\ Verdict' /\ pc' = "idle"
  <1>1. /\ pc' = "idle" /\ max_tokens' = 0 /\ todo' = <<>> /\ output' = <<>> /\ step' = 0
        /\ root' = 0 /\ draft_tree' = NoTree /\ offset' = 0
        /\ accepted_ids' = <<>> /\ accepted_tokens' = <<>> /\ cur_idx' = 0
    BY DEF Leave
  <1>2. Locals'
    BY <1>1, Zeros DEF Locals
  <1>3. Rooted'
    BY <1>1, Zeros DEF Rooted, NoTree
  <1>4. Verdict'
    BY <1>1, Zeros DEF Verdict, Walking
  <1> QED BY <1>1, <1>2, <1>3, <1>4

LEMMA LocalsNext == TypeInv /\ [Next]_vars => Locals'
  <1> SUFFICES ASSUME TypeInv, [Next]_vars PROVE Locals'
    OBVIOUS
  <1> USE DEF TypeInv, Locals
  <1>1. CASE ResetKVCache
    BY <1>1 DEF ResetKVCache, drafting
  <1>2. ASSUME NEW prompt \in Prompts, NEW max \in MaxTokens, Generate(prompt, max) PROVE Locals'
    <2>1. prompt \in Seq(Token)
      BY SSDAssumption
    <2> QED BY <1>2, <2>1 DEF Generate, drafting
  <1>3. CASE PrefillChunk
    <2>1. todo' \in Seq(Token)
      <3> DEFINE n == Min2(Len(todo), SeqLenPrefill)
      <3>1. todo' = SubSeq(todo, n + 1, Len(todo)) /\ todo # <<>>
        BY <1>3 DEF PrefillChunk
      <3> HIDE DEF n
      <3>2. n = Min2(Len(todo), SeqLenPrefill)
        BY DEF n
      <3> QED BY <3>1, <3>2, ChunkFacts
    <2> QED BY <1>3, <2>1 DEF PrefillChunk, drafting
  <1>4. CASE FirstToken
    <2>1. PICK t \in Token :
            /\ root' = t
            /\ \/ t \in Eos /\ pc' = "restore" /\ UNCHANGED output
               \/ /\ t \notin Eos /\ output' = <<t>>
                  /\ \E result \in CallbackResults :
                       pc' = CASE result = "go"   -> "initial"
                               [] result = "stop" -> "restore"
                               [] OTHER           -> "thrown"
      BY <1>4 DEF FirstToken
    <2>2. UNCHANGED <<max_tokens, todo, step, offset>> /\ pc = "prefill"
      BY <1>4 DEF FirstToken
    <2>3. CASE pc' = "restore" /\ UNCHANGED output
      BY <2>1, <2>2, <2>3
    <2>4. CASE output' = <<t>> /\ pc' \in {"initial", "restore", "thrown"}
      BY <2>1, <2>2, <2>4
    <2>5. \/ pc' = "restore" /\ UNCHANGED output
          \/ output' = <<t>> /\ pc' \in {"initial", "restore", "thrown"}
      BY <2>1
    <2> QED BY <2>3, <2>4, <2>5
  <1>5. CASE InitialPass
    <2>1. 1 \in 0 .. TotalTokens - 1
      BY TreeFacts
    <2> QED BY <1>5, <2>1 DEF InitialPass
  <1>6. CASE Draft
    BY <1>6 DEF Draft
  <1>7. CASE LeaveLoop
    BY <1>7 DEF LeaveLoop, drafting
  <1>8. CASE TreePass
    <2>1. pc' \in {"commit", "verify"}
      BY <1>8 DEF TreePass
    <2> QED BY <1>8, <2>1 DEF TreePass
  <1>9. CASE VerifyNode
    <2>1. pc' \in {"commit", "verify"}
      BY <1>9 DEF VerifyNode
    <2> QED BY <1>9, <2>1 DEF VerifyNode, drafting
  <1>10. CASE VerifyDone
    BY <1>10 DEF VerifyDone, drafting
  <1>11. CASE Commit
    <2>1. output' \in Seq(Token) /\ pc' \in {"restore", "draft", "thrown"} /\ step' \in Nat
      BY <1>11, CommitOutput
    <2>2. offset' \in 0 .. TotalTokens - 1
      BY <1>11, NextOffsetType DEF Commit, Walking
    <2>3. root' \in Token
      <3>1. accepted_tokens \in Seq(Token) /\ accepted_tokens # <<>>
        BY <1>11 DEF Verdict, Walking, Commit
      <3>2. Last(accepted_tokens) \in Token
        BY <3>1, FrontLast
      <3> QED BY <1>11, <3>2 DEF Commit, NextRoot
    <2>4. UNCHANGED <<max_tokens, todo>>
      BY <1>11 DEF Commit
    <2> QED BY <2>1, <2>2, <2>3, <2>4
  <1>12. CASE Restore
    BY <1>12, LeaveTypes DEF Restore
  <1>13. CASE ExecuteFails
    <2>1. CASE Leave
      BY <2>1, LeaveTypes
    <2>2. CASE /\ pc' = "thrown"
               /\ UNCHANGED <<max_tokens, todo, output, step, logits, basis, verdict, drafting>>
      BY <2>2 DEF drafting
    <2> QED BY <1>13, <2>1, <2>2 DEF ExecuteFails
  <1>14. CASE Unwind
    BY <1>14, LeaveTypes DEF Unwind
  <1>15. CASE UNCHANGED vars
    BY <1>15 DEF vars
  <1> QED BY <1>1, <1>2, <1>3, <1>4, <1>5, <1>6, <1>7, <1>8, <1>9, <1>10, <1>11, <1>12, <1>13, <1>14, <1>15
          DEF Next

LEMMA RootedNext == TypeInv /\ [Next]_vars => Rooted'
  <1> SUFFICES ASSUME TypeInv, [Next]_vars PROVE Rooted'
    OBVIOUS
  <1> USE DEF TypeInv, Rooted
  <1>1. CASE ResetKVCache
    BY <1>1 DEF ResetKVCache, drafting
  <1>2. ASSUME NEW prompt \in Prompts, NEW max \in MaxTokens, Generate(prompt, max) PROVE Rooted'
    BY <1>2 DEF Generate, drafting
  <1>3. CASE PrefillChunk
    BY <1>3 DEF PrefillChunk, drafting
  <1>4. CASE FirstToken
    <2>1. pc' \in {"initial", "restore", "thrown"}
      BY <1>4 DEF FirstToken
    <2> QED BY <1>4, <2>1 DEF FirstToken
  <1>5. CASE InitialPass
    BY <1>5 DEF InitialPass
  <1>6. CASE Draft
    <2>1. PICK ranking \in [1 .. Levels -> Rankings(Token)] :
            draft_tree' = SampleTree(root, [d \in 1 .. Levels |-> TopK(ranking[d], Branches[d] + 1)])
      BY <1>6 DEF Draft
    <2> DEFINE samples == [d \in 1 .. Levels |-> TopK(ranking[d], Branches[d] + 1)]
    <2>2. Samples(samples)
      BY TopSamples
    <2>3. root \in Token /\ UNCHANGED root
      BY <1>6 DEF Draft, Locals
    <2> HIDE DEF samples
    <2>4. draft_tree' \in [DraftNode -> Token] /\ draft_tree'[0] = root
      BY <2>1, <2>2, <2>3, SampleTreeFacts DEF samples
    <2> QED BY <2>3, <2>4
  <1>7. CASE LeaveLoop
    BY <1>7 DEF LeaveLoop, drafting
  <1>8. CASE TreePass
    BY <1>8 DEF TreePass
  <1>9. CASE VerifyNode
    <2>1. pc = "verify" /\ UNCHANGED <<draft_tree, root>>
      BY <1>9 DEF VerifyNode, drafting
    <2> QED BY <2>1
  <1>10. CASE VerifyDone
    BY <1>10 DEF VerifyDone, drafting
  <1>11. CASE Commit
    <2>1. pc' \in {"restore", "draft", "thrown"}
      BY <1>11, CommitOutput
    <2>2. draft_tree' = NoTree
      BY <1>11 DEF Commit
    <2>3. NoTree \in [DraftNode -> Token]
      BY Zeros DEF NoTree
    <2> QED BY <2>1, <2>2, <2>3
  <1>12. CASE Restore
    BY <1>12, LeaveTypes DEF Restore
  <1>13. CASE ExecuteFails
    <2>1. CASE Leave
      BY <2>1, LeaveTypes
    <2>2. CASE /\ pc' = "thrown"
               /\ UNCHANGED <<max_tokens, todo, output, step, logits, basis, verdict, drafting>>
      BY <2>2 DEF drafting
    <2> QED BY <1>13, <2>1, <2>2 DEF ExecuteFails
  <1>14. CASE Unwind
    BY <1>14, LeaveTypes DEF Unwind
  <1>15. CASE UNCHANGED vars
    BY <1>15 DEF vars
  <1> QED BY <1>1, <1>2, <1>3, <1>4, <1>5, <1>6, <1>7, <1>8, <1>9, <1>10, <1>11, <1>12, <1>13, <1>14, <1>15
          DEF Next

LEMMA VerdictNext == TypeInv /\ [Next]_vars => Verdict'
  <1> SUFFICES ASSUME TypeInv, [Next]_vars PROVE Verdict'
    OBVIOUS
  <1> USE DEF TypeInv, Verdict, Walking
  <1>1. CASE ResetKVCache
    BY <1>1 DEF ResetKVCache, verdict
  <1>2. ASSUME NEW prompt \in Prompts, NEW max \in MaxTokens, Generate(prompt, max) PROVE Verdict'
    BY <1>2 DEF Generate, verdict
  <1>3. CASE PrefillChunk
    BY <1>3 DEF PrefillChunk, verdict
  <1>4. CASE FirstToken
    <2>1. pc' \in {"initial", "restore", "thrown"}
      BY <1>4 DEF FirstToken
    <2> QED BY <1>4, <2>1 DEF FirstToken, verdict
  <1>5. CASE InitialPass
    BY <1>5 DEF InitialPass, verdict
  <1>6. CASE Draft
    BY <1>6 DEF Draft, verdict
  <1>7. CASE LeaveLoop
    BY <1>7 DEF LeaveLoop, verdict
  <1>8. CASE TreePass
    <2>1. PICK t \in Token : accepted_tokens' = <<t>>
      BY <1>8 DEF TreePass
    <2>2. accepted_ids' = <<0>> /\ cur_idx' = 1
      BY <1>8 DEF TreePass
    <2>3. NumDraftNodes \in Nat /\ NumDraftNodes >= 2 /\ 0 \in DraftNode
      BY TreeFacts DEF DraftNode
    <2> QED BY <2>1, <2>2, <2>3
  <1>9. CASE VerifyNode
    <2>1. pc = "verify" /\ cur_idx < NumDraftNodes /\ cur_idx' = cur_idx + 1
      BY <1>9 DEF VerifyNode, VerifyEnd, NextNode
    <2>2. cur_idx' \in 0 .. NumDraftNodes /\ cur_idx' >= 1 /\ cur_idx \in DraftNode
      BY <2>1, TreeFacts DEF DraftNode
    <2>3. CASE Extends(cur_idx)
      <3>1. PICK t \in Token : /\ accepted_tokens' = Append(accepted_tokens, t)
                               /\ accepted_ids' = Append(accepted_ids, cur_idx)
        BY <1>9, <2>3 DEF VerifyNode
      <3>2. /\ accepted_ids' \in Seq(DraftNode) /\ accepted_ids' # <<>> /\ Len(accepted_ids') = Len(accepted_ids) + 1
            /\ accepted_tokens' \in Seq(Token) /\ accepted_tokens' # <<>>
            /\ Len(accepted_tokens') = Len(accepted_tokens) + 1
        BY <2>2, <3>1, AppendLast
      <3> QED BY <2>2, <3>2
    <2>4. CASE ~ Extends(cur_idx)
      <3>1. UNCHANGED <<accepted_tokens, accepted_ids>>
        BY <1>9, <2>4 DEF VerifyNode
      <3> QED BY <2>1, <2>2, <3>1
    <2> QED BY <2>3, <2>4
  <1>10. CASE VerifyDone
    BY <1>10 DEF VerifyDone, verdict
  <1>11. CASE Commit
    <2>1. pc' \in {"restore", "draft", "thrown"}
      BY <1>11, CommitOutput
    <2>2. accepted_ids' = <<>> /\ accepted_tokens' = <<>> /\ cur_idx' = 0
      BY <1>11 DEF Commit
    <2> QED BY <2>1, <2>2, Zeros
  <1>12. CASE Restore
    BY <1>12, LeaveTypes DEF Restore
  <1>13. CASE ExecuteFails
    <2>1. CASE Leave
      BY <2>1, LeaveTypes
    <2>2. CASE /\ pc' = "thrown"
               /\ UNCHANGED <<max_tokens, todo, output, step, logits, basis, verdict, drafting>>
      BY <2>2 DEF verdict
    <2> QED BY <1>13, <2>1, <2>2 DEF ExecuteFails
  <1>14. CASE Unwind
    BY <1>14, LeaveTypes DEF Unwind
  <1>15. CASE UNCHANGED vars
    BY <1>15 DEF vars
  <1> QED BY <1>1, <1>2, <1>3, <1>4, <1>5, <1>6, <1>7, <1>8, <1>9, <1>10, <1>11, <1>12, <1>13, <1>14, <1>15
          DEF Next

LEMMA TypeStart == Init => TypeInv
  <1> SUFFICES ASSUME Init PROVE TypeInv
    OBVIOUS
  <1>1. DOMAIN kv = Addr
    BY DEF Init, FreshKV, Addr
  <1>2. /\ n_past = ForecastPrefix /\ context = <<>> /\ pc = "idle" /\ max_tokens = 0 /\ todo = <<>>
        /\ output = <<>> /\ step = 0 /\ root = 0 /\ draft_tree = NoTree /\ offset = 0
        /\ accepted_ids = <<>> /\ accepted_tokens = <<>> /\ cur_idx = 0 /\ damage = {}
    BY DEF Init
  <1>3. Members
    BY <1>1, <1>2, StrideFacts DEF Members
  <1>4. Locals
    BY <1>2, Zeros DEF Locals
  <1>5. Rooted
    BY <1>2, Zeros DEF Rooted, NoTree
  <1>6. Verdict
    BY <1>2, Zeros DEF Verdict, Walking
  <1> QED BY <1>3, <1>4, <1>5, <1>6 DEF TypeInv

LEMMA TypeStep == TypeInv /\ [Next]_vars => TypeInv'
  BY MembersNext, LocalsNext, RootedNext, VerdictNext DEF TypeInv

LEMMA TypeInvariant == Spec => []TypeInv
  BY TypeStart, TypeStep, PTL DEF Spec

\* Type correctness of SSDModel: whatever is drafted, accepted or fails, the members and
\* the locals of generate() keep their types and ranges.
THEOREM SSDTypeCorrect == Spec => []TypeOK
  <1>1. TypeInv => TypeOK
    <2> SUFFICES ASSUME TypeInv PROVE TypeOK
      OBVIOUS
    <2>1. Range(accepted_ids) \subseteq DraftNode
      BY DEF TypeInv, Verdict, Range
    <2> QED BY <2>1 DEF TypeInv, Members, Locals, Rooted, Verdict, Addr, TypeOK
  <1> QED BY <1>1, TypeInvariant, PTL
-----------------------------------------------------------------------------
(* The walk of verifyDraftTree.                                            *)

\* Only these steps lead into the walk or through it.
LEMMA OnlyWalks ==
    ASSUME [Next]_vars, Walking'
    PROVE  TreePass \/ VerifyNode \/ VerifyDone \/ UNCHANGED vars
  <1>1. CASE ResetKVCache \/ LeaveLoop \/ Draft \/ InitialPass \/ FirstToken \/ PrefillChunk
    BY <1>1 DEF ResetKVCache, LeaveLoop, Draft, InitialPass, FirstToken, PrefillChunk, Walking
  <1>2. ASSUME NEW prompt \in Prompts, NEW max \in MaxTokens, Generate(prompt, max) PROVE FALSE
    BY <1>2 DEF Generate, Walking
  <1>3. CASE Commit \/ Restore \/ ExecuteFails \/ Unwind
    BY <1>3 DEF Commit, Restore, ExecuteFails, Unwind, Leave, Walking
  <1> QED BY <1>1, <1>2, <1>3 DEF Next

LEMMA PathNext == TypeInv /\ Path /\ [Next]_vars => Path'
  <1> SUFFICES ASSUME TypeInv, Path, [Next]_vars, Walking' PROVE Path'
    BY DEF Path
  <1>1. CASE TreePass
    <2>1. PICK t \in Token : accepted_tokens' = <<t>> /\ pc' = IF t \in Eos THEN "commit" ELSE "verify"
      BY <1>1 DEF TreePass
    <2>2. accepted_ids' = <<0>> /\ cur_idx' = 1
      BY <1>1 DEF TreePass
    <2>3. \A k \in 1 .. Len(accepted_ids') :
            Branch[accepted_ids'[k]] = SubSeq(accepted_ids', 1, k) /\ accepted_ids'[k] < cur_idx'
      <3> DEFINE one == <<0>>
      <3>1. Len(one) = 1 /\ one[1] = 0 /\ one \in Seq(Nat)
        OBVIOUS
      <3>2. Branch[0] = one
        BY BranchFacts
      <3> HIDE DEF one
      <3>3. SubSeq(one, 1, 1) = one
        BY <3>1, WholeSlice
      <3>4. \A k \in 1 .. Len(one) : Branch[one[k]] = SubSeq(one, 1, k) /\ one[k] < 1
        BY <3>1, <3>2, <3>3
      <3> QED BY <2>2, <3>4 DEF one
    <2>4. \A j, k \in 1 .. Len(accepted_ids') : j < k => accepted_ids'[j] < accepted_ids'[k]
      BY <2>2
    <2>5. 1 .. cur_idx' - 1 = {}
      BY <2>2
    <2>6. Last(accepted_tokens') = t
      BY <2>1 DEF Last
    <2>7. pc' = "commit" => Last(accepted_tokens') \in Eos
      BY <2>1, <2>6
    <2> QED BY <2>3, <2>4, <2>5, <2>7 DEF Path
  <1>2. CASE VerifyNode
    <2> DEFINE ids == accepted_ids
               c == cur_idx
    <2>1. /\ pc = "verify" /\ c' = c + 1 /\ c \in DraftNode /\ c \in 1 .. NumDraftNodes - 1
          /\ ids \in Seq(DraftNode) /\ accepted_tokens \in Seq(Token) /\ ids # <<>> /\ UNCHANGED draft_tree
      BY <1>2, TreeFacts DEF VerifyNode, VerifyEnd, NextNode, TypeInv, Verdict, Walking, DraftNode, drafting
    <2>2. /\ \A k \in 1 .. Len(ids) : Branch[ids[k]] = SubSeq(ids, 1, k) /\ ids[k] < c
          /\ \A j, k \in 1 .. Len(ids) : j < k => ids[j] < ids[k]
          /\ \A i \in 1 .. c - 1 : ~ Extends(i)
      BY <2>1 DEF Path, Walking
    <2>3. CASE Extends(c)
      <3>1. PICK t \in Token : /\ accepted_tokens' = Append(accepted_tokens, t) /\ ids' = Append(ids, c)
                               /\ pc' = IF t \in Eos THEN "commit" ELSE "verify"
        BY <1>2, <2>3 DEF VerifyNode
      <3> DEFINE new == Append(ids, c)
                 n == Len(ids)
      <3>2. /\ new \in Seq(DraftNode) /\ Len(new) = n + 1 /\ n \in Nat
            /\ \A k \in 1 .. n + 1 : new[k] = IF k <= n THEN ids[k] ELSE c
        BY <2>1, AppendProperties
      <3>3. Branch[c] = new
        <4>1. AttentionMap[c] = ids[n] /\ n \in 1 .. n
          <5>1. n \in 1 .. n
            BY <2>1, EmptySeq
          <5> QED BY <2>3, <5>1 DEF Extends, Last
        <4>2. c \in 1 .. TotalTokens - 1
          BY <2>1, TreeFacts
        <4>3. Branch[c] = Append(Branch[AttentionMap[c]], c)
          BY <4>2, BranchFacts
        <4>4. Branch[ids[n]] = SubSeq(ids, 1, n) /\ SubSeq(ids, 1, n) = ids
          BY <2>1, <2>2, <4>1, WholeSlice
        <4> QED BY <4>1, <4>3, <4>4
      <3>4. ASSUME NEW k \in 1 .. n + 1
            PROVE  Branch[new[k]] = SubSeq(new, 1, k) /\ new[k] < c + 1
        <4>1. CASE k <= n
          <5>1. k \in 1 .. n /\ new[k] = ids[k]
            BY <3>2, <4>1
          <5>2. Branch[ids[k]] = SubSeq(ids, 1, k) /\ ids[k] < c /\ ids[k] \in Nat
            BY SMTT(40), <2>1, <2>2, <5>1, TreeFacts DEF DraftNode
          <5>3. SubSeq(new, 1, k) = SubSeq(ids, 1, k)
            <6>1. new = ids \o <<c>> /\ <<c>> \in Seq(DraftNode)
              BY <2>1
            <6> HIDE DEF new, c, ids, n
            <6>2. SubSeq(ids \o <<c>>, 1, k) = SubSeq(ids, 1, k)
              <7>1. k \in 1 .. Len(ids) /\ ids \in Seq(DraftNode)
                BY <2>1, <5>1 DEF n
              <7> QED BY <6>1, <7>1, Beginnings
            <6> QED BY <6>1, <6>2
          <5>4. c \in Nat
            BY <2>1
          <5> HIDE DEF new, c
          <5> QED BY <5>1, <5>2, <5>3, <5>4
        <4>2. CASE ~ (k <= n)
          <5>1. k = n + 1 /\ new[k] = c
            BY <3>2, <4>2
          <5>2. SubSeq(new, 1, n + 1) = new
            BY <3>2, WholeSlice
          <5>3. c < c + 1
            BY <2>1
          <5> HIDE DEF new, c
          <5> QED BY <3>3, <5>1, <5>2, <5>3
        <4> QED BY <4>1, <4>2
      <3>5. ASSUME NEW j \in 1 .. n + 1, NEW k \in 1 .. n + 1, j < k PROVE new[j] < new[k]
        <4>1. j \in 1 .. n /\ new[j] = ids[j]
          BY <3>2, <3>5
        <4>2. CASE k <= n
          <5>1. k \in 1 .. n /\ new[k] = ids[k]
            BY <3>2, <4>2
          <5> HIDE DEF new, n
          <5> QED BY <2>2, <3>5, <4>1, <5>1 DEF n
        <4>3. CASE ~ (k <= n)
          <5>1. new[k] = c
            BY <3>2, <4>3
          <5>2. ids[j] < c
            BY <2>2, <4>1
          <5> HIDE DEF new, c
          <5> QED BY <4>1, <5>1, <5>2
        <4> QED BY <4>2, <4>3
      <3>6. ASSUME NEW i \in 1 .. c' - 1 PROVE ~ Extends(i)'
        <4>1. i \in 1 .. c /\ i \in 1 .. TotalTokens - 1
          BY <2>1, TreeFacts
        <4>2. AttentionMap[i] \in 0 .. i - 1
          BY <4>1, TreeFacts
        <4>3. AttentionMap[i] # c
          BY <2>1, <4>1, <4>2
        <4>4. Last(ids') = c
          BY <2>1, <3>1, AppendLast
        <4> QED BY <4>3, <4>4 DEF Extends
      <3>7. pc' = "commit" => Last(accepted_tokens') \in Eos
        <4>1. Last(accepted_tokens') = t
          BY <2>1, <3>1, AppendLast
        <4> QED BY <3>1, <4>1
      <3>8. ids' = new /\ Len(ids') = n + 1
        BY <3>1, <3>2
      <3> HIDE DEF new, n
      <3>9. /\ \A k \in 1 .. Len(ids') : Branch[ids'[k]] = SubSeq(ids', 1, k) /\ ids'[k] < c'
            /\ \A j, k \in 1 .. Len(ids') : j < k => ids'[j] < ids'[k]
        BY <2>1, <3>4, <3>5, <3>8
      <3> QED BY <3>6, <3>7, <3>9 DEF Path
    <2>4. CASE ~ Extends(c)
      <3>1. UNCHANGED <<accepted_tokens, accepted_ids, pc>>
        BY <1>2, <2>4 DEF VerifyNode
      <3>2. \A i \in 1 .. c' - 1 : ~ Extends(i)'
        <4>1. \A i \in 1 .. c : ~ Extends(i)
          <5>1. \A i \in 1 .. c : i \in 1 .. c - 1 \/ i = c
            BY <2>1
          <5> QED BY <2>2, <2>4, <5>1
        <4>2. c' - 1 = c
          BY <2>1
        <4> QED BY <2>1, <3>1, <4>1, <4>2 DEF Extends
      <3>3. \A k \in 1 .. Len(ids) : ids[k] < c'
        <4>1. \A k \in 1 .. Len(ids) : ids[k] \in Nat /\ ids[k] < c
          BY SMTT(40), <2>1, <2>2, TreeFacts DEF DraftNode
        <4>2. c \in Nat
          BY <2>1
        <4> QED BY <2>1, <4>1, <4>2
      <3> QED BY <2>1, <2>2, <3>1, <3>2, <3>3 DEF Path
    <2> QED BY <2>3, <2>4
  <1>3. CASE VerifyDone
    <2>1. pc = "verify" /\ cur_idx = NumDraftNodes /\ UNCHANGED <<verdict, drafting>>
      BY <1>3 DEF VerifyDone, VerifyEnd
    <2>2. \A i : Extends(i)' <=> Extends(i)
      BY <2>1 DEF Extends, verdict, drafting
    <2> QED BY <2>1, <2>2 DEF Path, Walking, verdict
  <1>4. CASE UNCHANGED vars
    <2>1. UNCHANGED <<pc, accepted_ids, accepted_tokens, cur_idx, draft_tree>>
      BY <1>4 DEF vars
    <2>2. \A i : Extends(i)' <=> Extends(i)
      BY <2>1 DEF Extends
    <2> QED BY <2>1, <2>2 DEF Path, Walking
  <1> QED BY <1>1, <1>2, <1>3, <1>4, OnlyWalks

LEMMA PathInvariant == Spec => []Path
  <1>1. Init => Path
    BY DEF Init, Path, Walking
  <1> QED BY <1>1, TypeInvariant, PathNext, PTL DEF Spec

\* verifyDraftTree: for any tree and any answers of the network, its one pass over the
\* breadth-first order ends, unless at an EOS, only when no drafted node continues the
\* accepted branch.
THEOREM WalkFindsLongestBranch == Spec => []WalkIsMaximal
  <1>1. TypeInv /\ Path => WalkIsMaximal
    <2> SUFFICES ASSUME TypeInv, Path, pc = "commit", Last(accepted_tokens) \notin Eos,
                        NEW i \in DraftNode \ {0}
                 PROVE  ~ Extends(i)
      BY DEF WalkIsMaximal
    <2>1. i \in 1 .. cur_idx - 1
      BY TreeFacts DEF Path, Walking, DraftNode
    <2> QED BY <2>1 DEF Path, Walking
  <1> QED BY <1>1, TypeInvariant, PathInvariant, PTL
-----------------------------------------------------------------------------
(* The text: what was accepted is what was drafted, and what follows it.   *)

LEMMA DraftedAppend ==
    ASSUME NEW tree \in [DraftNode -> Token], NEW ids \in Seq(DraftNode), NEW c \in DraftNode
    PROVE  Drafted(tree, Append(ids, c)) = Append(Drafted(tree, ids), tree[c])
  <1> DEFINE new == Append(ids, c)
             n == Len(ids)
             d == Drafted(tree, ids)
             a == Drafted(tree, new)
             b == Append(d, tree[c])
  <1>1. /\ new \in Seq(DraftNode) /\ Len(new) = n + 1 /\ n \in Nat
        /\ \A k \in 1 .. n + 1 : new[k] = IF k <= n THEN ids[k] ELSE c
    BY AppendProperties
  <1> HIDE DEF new
  <1>2. d \in Seq(Token) /\ Len(d) = n /\ a \in Seq(Token) /\ Len(a) = n + 1 /\ tree[c] \in Token
    BY <1>1, DraftedType
  <1>3. \A k \in 1 .. n : d[k] = tree[ids[k]]
    BY DEF Drafted
  <1>4. \A k \in 1 .. n + 1 : a[k] = tree[new[k]]
    BY <1>1 DEF Drafted
  <1> HIDE DEF d, a, n
  <1>5. /\ b \in Seq(Token) /\ Len(b) = n + 1
        /\ \A k \in 1 .. n + 1 : b[k] = IF k <= n THEN d[k] ELSE tree[c]
    BY <1>2, AppendProperties
  <1> HIDE DEF b
  <1>6. \A k \in 1 .. n + 1 : a[k] = b[k]
    BY <1>1, <1>3, <1>4, <1>5
  <1>7. a = b
    BY <1>1, <1>2, <1>5, <1>6
  <1> QED BY <1>7 DEF a, b, d, new

LEMMA AgreedNext == TypeInv /\ Agreed /\ [Next]_vars => Agreed'
  <1> SUFFICES ASSUME TypeInv, Agreed, [Next]_vars, Walking'
               PROVE  (Drafted(draft_tree, accepted_ids) = <<root>> \o Front(accepted_tokens))'
    BY DEF Agreed
  <1>1. CASE TreePass
    <2>1. PICK t \in Token : accepted_tokens' = <<t>>
      BY <1>1 DEF TreePass
    <2>2. accepted_ids' = <<0>> /\ UNCHANGED <<draft_tree, root>> /\ draft_tree[0] = root /\ root \in Token
      BY <1>1 DEF TreePass, TypeInv, Rooted, Locals
    <2>3. Front(<<t>>) = <<>>
      <3>1. <<t>> = Append(<<>>, t) /\ <<>> \in Seq(Token)
        OBVIOUS
      <3> QED BY <3>1, FrontAppend
    <2>4. Drafted(draft_tree, <<0>>) = <<root>>
      BY <2>2 DEF Drafted
    <2>5. <<root>> \o <<>> = <<root>>
      OBVIOUS
    <2> QED BY <2>1, <2>2, <2>3, <2>4, <2>5
  <1>2. CASE VerifyNode
    <2> DEFINE ids == accepted_ids
               c == cur_idx
    <2>1. /\ pc = "verify" /\ c \in DraftNode /\ root \in Token /\ draft_tree \in [DraftNode -> Token]
          /\ ids \in Seq(DraftNode) /\ accepted_tokens \in Seq(Token) /\ accepted_tokens # <<>>
          /\ UNCHANGED <<draft_tree, root>>
      BY <1>2, TreeFacts
         DEF VerifyNode, VerifyEnd, TypeInv, Locals, Rooted, Verdict, Walking, DraftNode, drafting
    <2>2. Drafted(draft_tree, ids) = <<root>> \o Front(accepted_tokens)
      BY <2>1 DEF Agreed, Walking
    <2>3. CASE Extends(c)
      <3>1. PICK t \in Token : accepted_tokens' = Append(accepted_tokens, t) /\ ids' = Append(ids, c)
        BY <1>2, <2>3 DEF VerifyNode
      <3>2. Front(accepted_tokens') = accepted_tokens
        BY <2>1, <3>1, FrontAppend
      <3>3. Drafted(draft_tree, Append(ids, c)) = Append(Drafted(draft_tree, ids), draft_tree[c])
        BY <2>1, DraftedAppend
      <3> DEFINE f == Front(accepted_tokens)
                 l == Last(accepted_tokens)
      <3>4. draft_tree[c] = l /\ f \in Seq(Token) /\ l \in Token /\ accepted_tokens = Append(f, l)
        BY <2>1, <2>3, FrontLast DEF Extends
      <3> HIDE DEF f, l
      <3>5. Append(<<root>> \o f, l) = <<root>> \o Append(f, l)
        BY <2>1, <3>4, SMTT(40)
      <3> QED BY <2>1, <2>2, <3>1, <3>2, <3>3, <3>4, <3>5 DEF f
    <2>4. CASE ~ Extends(c)
      <3>1. UNCHANGED <<accepted_tokens, accepted_ids>>
        BY <1>2, <2>4 DEF VerifyNode
      <3> QED BY <2>1, <2>2, <3>1
    <2> QED BY <2>3, <2>4
  <1>3. CASE VerifyDone
    BY <1>3 DEF VerifyDone, Agreed, Walking, verdict, drafting
  <1>4. CASE UNCHANGED vars
    BY <1>4 DEF vars, Agreed, Walking
  <1> QED BY <1>1, <1>2, <1>3, <1>4, OnlyWalks

LEMMA AgreedInvariant == Spec => []Agreed
  <1>1. Init => Agreed
    BY DEF Init, Agreed, Walking
  <1> QED BY <1>1, TypeInvariant, AgreedNext, PTL DEF Spec

LEMMA Associate ==
    ASSUME NEW T, NEW a \in Seq(T), NEW b \in Seq(T), NEW c \in Seq(T)
    PROVE  (a \o b) \o c = a \o (b \o c)
  BY SMTT(40)

LEMMA Texts == \A x, y, z \in Seq(Token) : (x \o y) \o z = x \o (y \o z)
  <1> SUFFICES ASSUME NEW x \in Seq(Token), NEW y \in Seq(Token), NEW z \in Seq(Token)
               PROVE  (x \o y) \o z = x \o (y \o z)
    OBVIOUS
  <1> QED BY SMTT(40)

\* What a sequence is appended to, it ends with.
LEMMA EndsWith ==
    ASSUME NEW T, NEW pre \in Seq(T), NEW tail \in Seq(T)
    PROVE  Ends(pre \o tail, tail)
  <1> DEFINE t == pre \o tail
             k == Len(pre)
             e == SubSeq(t, k + 1, Len(t))
  <1>1. /\ t \in Seq(T) /\ Len(t) = k + Len(tail) /\ k \in Nat /\ Len(tail) \in Nat
        /\ \A i \in 1 .. k + Len(tail) : t[i] = IF i <= k THEN pre[i] ELSE tail[i - k]
    BY ConcatProperties
  <1> HIDE DEF t, k
  <1>2. /\ e \in Seq(T) /\ Len(e) = Len(t) - k /\ \A i \in 1 .. Len(t) - k : e[i] = t[k + i]
    <2>1. k \in 0 .. Len(t)
      BY <1>1
    <2> QED BY <1>1, <2>1, Behind
  <1> HIDE DEF e
  <1>3. Len(e) = Len(tail)
    BY <1>1, <1>2
  <1>4. ASSUME NEW i \in 1 .. Len(tail) PROVE e[i] = tail[i]
    <2>1. /\ k + i \in 1 .. k + Len(tail) /\ ~ (k + i <= k) /\ (k + i) - k = i /\ i \in 1 .. Len(t) - k
      BY <1>1
    <2>2. e[i] = t[k + i] /\ t[k + i] = tail[(k + i) - k]
      BY <1>1, <1>2, <2>1
    <2> QED BY <2>1, <2>2
  <1>5. e = tail
    BY <1>2, <1>3, <1>4
  <1>6. Len(t) - Len(tail) + 1 = k + 1
    BY <1>1
  <1> QED BY <1>5, <1>6 DEF Ends, e, t

\* The commit of a branch: the accepted tokens follow the root.
LEMMA CommitContinues ==
    ASSUME TypeInv, Agreed, Commit
    PROVE  /\ context' = context \o (<<root>> \o Front(accepted_tokens))
           /\ root' = Last(accepted_tokens)
           /\ Append(context', root') = Append(context, root) \o accepted_tokens
  <1> DEFINE f == Front(accepted_tokens)
             l == Last(accepted_tokens)
  <1>1. /\ context \in Seq(Token) /\ root \in Token /\ accepted_tokens \in Seq(Token) /\ Walking
        /\ accepted_tokens # <<>>
    BY DEF Commit, TypeInv, Members, Locals, Verdict, Walking
  <1>2. f \in Seq(Token) /\ l \in Token /\ accepted_tokens = f \o <<l>>
    BY <1>1, FrontLast
  <1>3. context' = context \o (<<root>> \o f)
    <2>1. Drafted(draft_tree, accepted_ids) = <<root>> \o Front(accepted_tokens)
      BY <1>1 DEF Agreed
    <2> QED BY <2>1, CommitText
  <1>4. root' = l
    BY DEF Commit, NextRoot
  <1> HIDE DEF f, l
  <1> DEFINE r == <<root>>
             e == <<l>>
  <1>5. r \in Seq(Token) /\ e \in Seq(Token) /\ r \o f \in Seq(Token) /\ context \o (r \o f) \in Seq(Token)
    BY <1>1, <1>2, ConcatProperties
  <1>6. /\ Append(context \o (r \o f), l) = (context \o (r \o f)) \o e
        /\ Append(context, root) = context \o r
    BY <1>1, <1>2, <1>5, AppendIsConcat
  <1> HIDE DEF r, e
  <1>7. (context \o (r \o f)) \o e = context \o ((r \o f) \o e)
    <2> DEFINE x == r \o f
    <2>1. context \in Seq(Token) /\ x \in Seq(Token) /\ e \in Seq(Token)
      BY <1>1, <1>5
    <2> HIDE DEF x
    <2>2. (context \o x) \o e = context \o (x \o e)
      BY SMTT(40), <2>1, Associate
    <2> QED BY <2>2 DEF x
  <1>8. (r \o f) \o e = r \o (f \o e)
    BY SMTT(40), <1>2, <1>5, Associate
  <1>9. (context \o r) \o (f \o e) = context \o (r \o (f \o e))
    <2> DEFINE x == f \o e
    <2>1. x \in Seq(Token) /\ context \in Seq(Token) /\ r \in Seq(Token)
      BY <1>1, <1>2, <1>5, ConcatProperties
    <2> HIDE DEF x
    <2>2. (context \o r) \o x = context \o (r \o x)
      BY <2>1, Associate
    <2> QED BY <2>2 DEF x
  <1> QED BY <1>2, <1>3, <1>4, <1>6, <1>7, <1>8, <1>9 DEF f, l, r, e

\* Only these steps lead to the loop over the trees or through it.
LEMMA OnlyLoops ==
    ASSUME [Next]_vars, pc' \in {"draft", "loop", "verify", "commit"}
    PROVE  InitialPass \/ Draft \/ TreePass \/ VerifyNode \/ VerifyDone \/ Commit \/ UNCHANGED vars
  <1>1. CASE ResetKVCache \/ LeaveLoop \/ FirstToken \/ PrefillChunk
    BY <1>1 DEF ResetKVCache, LeaveLoop, FirstToken, PrefillChunk
  <1>2. ASSUME NEW prompt \in Prompts, NEW max \in MaxTokens, Generate(prompt, max) PROVE FALSE
    BY <1>2 DEF Generate
  <1>3. CASE Restore \/ ExecuteFails \/ Unwind
    BY <1>3 DEF Restore, ExecuteFails, Unwind, Leave
  <1> QED BY <1>1, <1>2, <1>3 DEF Next

\* Only these steps lead to the end of the call.
LEMMA OnlyEnds ==
    ASSUME [Next]_vars, pc' = "restore"
    PROVE  FirstToken \/ LeaveLoop \/ Commit \/ UNCHANGED vars
  <1>1. CASE ResetKVCache \/ PrefillChunk \/ InitialPass \/ Draft
    BY <1>1 DEF ResetKVCache, PrefillChunk, InitialPass, Draft
  <1>2. ASSUME NEW prompt \in Prompts, NEW max \in MaxTokens, Generate(prompt, max) PROVE FALSE
    BY <1>2 DEF Generate
  <1>3. CASE TreePass \/ VerifyNode \/ VerifyDone
    BY <1>3 DEF TreePass, VerifyNode, VerifyDone
  <1>4. CASE Restore \/ ExecuteFails \/ Unwind
    BY <1>4 DEF Restore, ExecuteFails, Unwind, Leave
  <1> QED BY <1>1, <1>2, <1>3, <1>4 DEF Next

\* Nothing is emitted before the first token.
LEMMA OnlyFeeds ==
    ASSUME [Next]_vars, pc' = "prefill"
    PROVE  output' = <<>> \/ (pc = "prefill" /\ output' = output)
  <1>1. CASE ResetKVCache \/ PrefillChunk \/ InitialPass \/ Draft \/ LeaveLoop \/ UNCHANGED vars
    BY <1>1 DEF ResetKVCache, PrefillChunk, InitialPass, Draft, LeaveLoop, vars
  <1>2. ASSUME NEW prompt \in Prompts, NEW max \in MaxTokens, Generate(prompt, max) PROVE output' = <<>>
    BY <1>2 DEF Generate
  <1>3. CASE FirstToken \/ TreePass \/ VerifyNode \/ VerifyDone
    BY <1>3 DEF FirstToken, TreePass, VerifyNode, VerifyDone
  <1>4. CASE Commit
    BY <1>4 DEF Commit
  <1>5. CASE Restore \/ ExecuteFails \/ Unwind
    BY <1>5 DEF Restore, ExecuteFails, Unwind, Leave
  <1> QED BY <1>1, <1>2, <1>3, <1>4, <1>5 DEF Next

LEMMA EndsLastNext == TypeInv /\ EndsLast /\ [Next]_vars => EndsLast'
  <1> SUFFICES ASSUME TypeInv, EndsLast, [Next]_vars, Walking' PROVE EndsLast'
    BY DEF EndsLast, Walking
  <1>1. CASE TreePass
    <2>1. PICK t \in Token : accepted_tokens' = <<t>> /\ pc' = IF t \in Eos THEN "commit" ELSE "verify"
      BY <1>1 DEF TreePass
    <2> QED BY <2>1 DEF EndsLast
  <1>2. CASE VerifyNode
    <2>1. pc = "verify" /\ accepted_tokens \in Seq(Token)
          /\ \A k \in 1 .. Len(accepted_tokens) : accepted_tokens[k] \notin Eos
      BY <1>2 DEF VerifyNode, EndsLast, TypeInv, Verdict
    <2>2. CASE Extends(cur_idx)
      <3>1. PICK t \in Token : /\ accepted_tokens' = Append(accepted_tokens, t)
                               /\ pc' = IF t \in Eos THEN "commit" ELSE "verify"
        BY <1>2, <2>2 DEF VerifyNode
      <3>2. /\ Len(accepted_tokens') = Len(accepted_tokens) + 1 /\ Len(accepted_tokens) \in Nat
            /\ \A k \in 1 .. Len(accepted_tokens) : accepted_tokens'[k] = accepted_tokens[k]
            /\ accepted_tokens'[Len(accepted_tokens) + 1] = t
        BY <2>1, <3>1
      <3> QED BY <2>1, <3>1, <3>2 DEF EndsLast
    <2>3. CASE ~ Extends(cur_idx)
      <3>1. UNCHANGED <<accepted_tokens, pc>>
        BY <1>2, <2>3 DEF VerifyNode
      <3> QED BY <2>1, <3>1 DEF EndsLast
    <2> QED BY <2>2, <2>3
  <1>3. CASE VerifyDone
    BY <1>3 DEF VerifyDone, EndsLast, verdict, TypeInv, Verdict
  <1>4. CASE UNCHANGED vars
    BY <1>4 DEF vars, EndsLast
  <1> QED BY <1>1, <1>2, <1>3, <1>4, OnlyWalks

LEMMA EndsLastInvariant == Spec => []EndsLast
  <1>1. Init => EndsLast
    BY DEF Init, EndsLast
  <1> QED BY <1>1, TypeInvariant, EndsLastNext, PTL DEF Spec

\* A branch has no more nodes than the tree has levels, and its root.
LEMMA AcceptedLength ==
    ASSUME TypeInv, Path, Walking
    PROVE  Len(accepted_tokens) \in 1 .. Levels + 1
  <1> DEFINE n == Len(accepted_ids)
             m == accepted_ids[n]
  <1>1. /\ accepted_ids \in Seq(DraftNode) /\ n \in Nat /\ n # 0 /\ m \in DraftNode
        /\ n = Len(accepted_tokens)
    BY EmptySeq DEF TypeInv, Verdict
  <1>2. Branch[m] = SubSeq(accepted_ids, 1, n)
    BY <1>1 DEF Path
  <1>3. Len(SubSeq(accepted_ids, 1, n)) = n
    BY <1>1, WholeSlice
  <1>4. m \in TreeNode /\ (m = 0 \/ m \in 1 .. NumDraftNodes - 1)
    BY <1>1, TreeFacts DEF DraftNode, TreeNode
  <1>5. Levels \in Nat /\ Depth[m] = Len(Branch[m]) - 1
    BY <1>4, DepthFacts, GrownFacts
  <1>6. Depth[m] \in 0 .. Levels
    BY <1>4, <1>5, DepthFacts
  <1> HIDE DEF m, n
  <1> QED BY <1>1, <1>2, <1>3, <1>5, <1>6

\* Everything accepted but a last EOS may be emitted.
LEMMA EmittableAll ==
    ASSUME accepted_tokens \in Seq(Token), accepted_tokens # <<>>,
           \A k \in 1 .. Len(accepted_tokens) - 1 : accepted_tokens[k] \notin Eos
    PROVE  Len(Emittable) \in Len(accepted_tokens) - 1 .. Len(accepted_tokens)
  <1> DEFINE n == Len(accepted_tokens)
             ends == {k \in DOMAIN accepted_tokens : accepted_tokens[k] \in Eos}
             m == IF ends = {} THEN n ELSE Min(ends) - 1
  <1>1. n \in Nat /\ n # 0 /\ DOMAIN accepted_tokens = 1 .. n
    BY EmptySeq
  <1>2. ends \subseteq {n}
    BY <1>1
  <1>3. m \in n - 1 .. n
    <2> HIDE DEF ends
    <2>1. CASE ends = {}
      BY <1>1, <2>1
    <2>2. CASE ends # {}
      <3>1. ends = {n}
        BY <1>2, <2>2
      <3>2. Min(ends) = n
        BY <1>1, <3>1 DEF Min
      <3> QED BY <1>1, <2>2, <3>2
    <2> QED BY <2>1, <2>2
  <1>4. Emittable = SubSeq(accepted_tokens, 1, m)
    BY DEF Emittable
  <1> HIDE DEF m, n, ends
  <1>5. m \in 0 .. n
    BY <1>1, <1>3
  <1>6. Len(Emittable) = m
    BY <1>4, <1>5, Beginning DEF n
  <1> QED BY <1>3, <1>6 DEF n

\* What a commit emits is a beginning of what it accepts: all of it if there is a next
\* tree, else with less than a branch left over.
LEMMA CommitEmits ==
    ASSUME TypeInv, Path, EndsLast, Commit
    PROVE  \E j \in 0 .. Len(accepted_tokens) :
              /\ output' = output \o SubSeq(accepted_tokens, 1, j)
              /\ pc' = "draft" => j = Len(accepted_tokens)
              /\ Len(accepted_tokens) - j <= Levels
  <1> DEFINE n == Len(accepted_tokens)
             e == Len(Emittable)
  <1>1. /\ accepted_tokens \in Seq(Token) /\ accepted_tokens # <<>> /\ n \in 1 .. Levels + 1
        /\ Levels \in Nat \ {0}
    BY AcceptedLength, GrownFacts DEF Commit, TypeInv, Verdict, Walking
  <1>2. e \in n - 1 .. n /\ e \in 0 .. n
    BY <1>1, EmittableAll, EmittableFacts DEF Commit, EndsLast
  <1>3. Emittable = SubSeq(accepted_tokens, 1, e)
    BY <1>1, EmittableFacts
  <1>4. CASE /\ output' = output \o Emittable
             /\ IF Len(Emittable) < Len(accepted_tokens) \/ Enough(output')
                  THEN pc' = "restore" /\ UNCHANGED step
                  ELSE pc' = "draft" /\ step' = step + 1
    <2>1. pc' = "draft" => e = n
      BY <1>1, <1>2, <1>4
    <2>2. n - e <= Levels
      BY <1>1, <1>2
    <2>3. output' = output \o SubSeq(accepted_tokens, 1, e)
      BY <1>3, <1>4
    <2> QED BY <1>2, <2>1, <2>2, <2>3
  <1>5. ASSUME NEW k \in 1 .. Len(Emittable), NEW result \in CallbackResults \ {"go"},
               output' = output \o SubSeq(Emittable, 1, k),
               pc' = IF result = "stop" THEN "restore" ELSE "thrown"
        PROVE  \E j \in 0 .. n : /\ output' = output \o SubSeq(accepted_tokens, 1, j)
                                 /\ pc' = "draft" => j = n
                                 /\ n - j <= Levels
    <2>1. SubSeq(Emittable, 1, k) = SubSeq(accepted_tokens, 1, k)
      <3>1. e \in 0 .. n /\ k \in 0 .. e /\ accepted_tokens \in Seq(Token)
        BY <1>1, <1>2, <1>5
      <3> QED BY <1>3, <3>1, BeginningTwice
    <2>2. k \in 0 .. n /\ n - k <= Levels
      <3> HIDE DEF n, e
      <3>1. k \in 1 .. e
        BY <1>5 DEF e
      <3> QED BY <1>1, <1>2, <3>1
    <2>3. pc' # "draft"
      BY <1>5
    <2> QED BY <1>5, <2>1, <2>2, <2>3
  <1> QED BY <1>4, <1>5 DEF Commit

\* A text grows by what was accepted and the output by a beginning of it.
LEMMA GoesOn ==
    ASSUME NEW text, NEW emitted \in Seq(Token), NEW accepted \in Seq(Token),
           Goes(text, emitted, 0), NEW j \in 0 .. Len(accepted)
    PROVE  Goes(text \o accepted, emitted \o SubSeq(accepted, 1, j), Len(accepted) - j)
  <1> DEFINE n == Len(accepted)
             u == SubSeq(accepted, 1, j)
             v == SubSeq(accepted, j + 1, n)
  <1>1. n \in Nat /\ u \in Seq(Token) /\ v \in Seq(Token) /\ Len(v) = n - j /\ accepted = u \o v
    <2>1. n \in Nat /\ u \in Seq(Token)
      BY Beginning
    <2>2. v \in Seq(Token) /\ Len(v) = n - j
      BY Behind
    <2>3. accepted = u \o v
      BY Halves
    <2> QED BY <2>1, <2>2, <2>3
  <1>2. PICK pre, rest \in Seq(Token) : Len(rest) <= 0 /\ text = (pre \o emitted) \o rest
    BY DEF Goes
  <1>3. rest = <<>>
    BY <1>2, EmptySeq
  <1>4. pre \o emitted \in Seq(Token) /\ emitted \o u \in Seq(Token)
    BY <1>1, <1>2, ConcatProperties
  <1>5. text = pre \o emitted
    <2> DEFINE x == pre \o emitted
    <2>1. x \in Seq(Token) /\ text = x \o <<>>
      BY <1>2, <1>3, <1>4
    <2> HIDE DEF x
    <2> QED BY <2>1 DEF x
  <1> HIDE DEF u, v, n
  <1>6. (pre \o emitted) \o (u \o v) = ((pre \o emitted) \o u) \o v
    <2> DEFINE x == pre \o emitted
    <2>1. x \in Seq(Token)
      BY <1>4
    <2> HIDE DEF x
    <2>2. u \in Seq(Token) /\ v \in Seq(Token)
      BY <1>1
    <2>3. (x \o u) \o v = x \o (u \o v)
      BY Zenon, <2>1, <2>2, Texts
    <2> QED BY <2>3 DEF x
  <1>7. (pre \o emitted) \o u = pre \o (emitted \o u)
    <2>1. pre \in Seq(Token) /\ emitted \in Seq(Token) /\ u \in Seq(Token)
      BY <1>1, <1>2
    <2> QED BY Zenon, <2>1, Texts
  <1>8. text \o accepted = (pre \o (emitted \o u)) \o v
    BY <1>1, <1>5, <1>6, <1>7
  <1>9. Len(v) <= n - j
    BY <1>1
  <1> QED BY <1>1, <1>2, <1>8, <1>9 DEF Goes, u, n

\* A text that ends with what was emitted.
LEMMA GoesBehind ==
    ASSUME NEW pre \in Seq(Token), NEW emitted \in Seq(Token), NEW most \in Nat
    PROVE  Goes(pre \o emitted, emitted, most)
  <1> DEFINE x == pre \o emitted
             e == <<>>
  <1>1. x \in Seq(Token) /\ e \in Seq(Token) /\ Len(e) = 0
    BY ConcatProperties
  <1>2. Len(e) <= most
    BY <1>1
  <1>3. x = x \o e
    <2>1. x \in Seq(Token)
      BY <1>1
    <2> HIDE DEF x
    <2> QED BY <2>1
  <1> HIDE DEF e
  <1> QED BY <1>1, <1>2, <1>3 DEF Goes

LEMMA ContinuedNext == TypeInv /\ Path /\ Agreed /\ EndsLast /\ Continued /\ [Next]_vars => Continued'
  <1> SUFFICES ASSUME TypeInv, Path, Agreed, EndsLast, Continued, [Next]_vars PROVE Continued'
    OBVIOUS
  <1> DEFINE text == Append(context, root)
  <1>1. context \in Seq(Token) /\ root \in Token /\ output \in Seq(Token) /\ Levels \in Nat
        /\ text \in Seq(Token)
    BY GrownFacts DEF TypeInv, Members, Locals
  <1>2. pc' = "prefill" => output' = <<>>
    BY OnlyFeeds DEF Continued
  <1>3. ASSUME Commit
        PROVE  /\ pc' = "draft" => Goes(text', output', 0)
               /\ pc' = "restore" => Goes(text', output', Levels)
    <2>1. text' = text \o accepted_tokens
      BY <1>3, CommitContinues
    <2>2. PICK j \in 0 .. Len(accepted_tokens) :
              /\ output' = output \o SubSeq(accepted_tokens, 1, j)
              /\ pc' = "draft" => j = Len(accepted_tokens)
              /\ Len(accepted_tokens) - j <= Levels
      BY <1>3, CommitEmits
    <2>3. accepted_tokens \in Seq(Token) /\ Goes(text, output, 0)
      BY <1>3 DEF Commit, Continued, TypeInv, Verdict
    <2> HIDE DEF text
    <2>4. Goes(text', output', Len(accepted_tokens) - j)
      BY <1>1, <2>1, <2>2, <2>3, GoesOn
    <2>5. PICK pre, rest \in Seq(Token) :
              Len(rest) <= Len(accepted_tokens) - j /\ text' = (pre \o output') \o rest
      BY <2>4 DEF Goes
    <2>6. Len(rest) <= Levels /\ (j = Len(accepted_tokens) => Len(rest) <= 0)
      BY <1>1, <2>2, <2>3, <2>5
    <2> QED BY <2>2, <2>5, <2>6 DEF Goes
  <1>4. ASSUME pc' \in {"draft", "loop", "verify", "commit"}
        PROVE  Goes(text', output', 0)
    <2>1. CASE InitialPass
      <3>1. context' = text /\ root' = root /\ output' = <<root>> /\ text' = Append(text, root)
        BY <2>1 DEF InitialPass, TypeInv, Locals
      <3> HIDE DEF text
      <3>2. Append(text, root) = text \o <<root>> /\ <<root>> \in Seq(Token) /\ 0 \in Nat
        BY <1>1, AppendIsConcat
      <3>3. Goes(text \o <<root>>, <<root>>, 0)
        BY <1>1, <3>2, GoesBehind
      <3> QED BY <3>1, <3>2, <3>3
    <2>2. CASE Draft \/ TreePass \/ VerifyNode \/ VerifyDone \/ UNCHANGED vars
      <3>1. pc \in {"draft", "loop", "verify", "commit"} /\ UNCHANGED <<context, root, output>>
        BY <1>4, <2>2 DEF Draft, TreePass, VerifyNode, VerifyDone, vars, members, drafting
      <3> QED BY <3>1 DEF Continued
    <2>3. CASE Commit
      <3>1. pc' = "draft"
        BY <1>4, <2>3, CommitOutput
      <3> QED BY <1>3, <2>3, <3>1
    <2> QED BY <1>4, <2>1, <2>2, <2>3, OnlyLoops
  <1>5. ASSUME pc' = "restore" PROVE Goes(text', output', Levels)
    <2>1. CASE FirstToken
      <3>1. PICK t \in Token : root' = t /\ (output' = output \/ output' = <<t>>)
        BY <2>1 DEF FirstToken
      <3>2. output = <<>> /\ context' = context
        BY <2>1 DEF FirstToken, Continued
      <3>3. text' = Append(context, t)
        BY <3>1, <3>2
      <3>4. CASE output' = <<>>
        <4> DEFINE x == Append(context, t)
        <4>1. x \in Seq(Token)
          BY <1>1
        <4>2. x = x \o <<>> /\ <<>> \in Seq(Token)
          <5> HIDE DEF x
          <5> QED BY <4>1
        <4> HIDE DEF x
        <4>3. Goes(x \o <<>>, <<>>, Levels)
          BY <1>1, <4>1, <4>2, GoesBehind
        <4> QED BY <3>3, <3>4, <4>2, <4>3 DEF x
      <3>5. CASE output' = <<t>>
        <4>1. Append(context, t) = context \o <<t>> /\ <<t>> \in Seq(Token)
          BY <1>1, AppendIsConcat
        <4>2. Goes(context \o <<t>>, <<t>>, Levels)
          BY <1>1, <4>1, GoesBehind
        <4> QED BY <3>3, <3>5, <4>1, <4>2
      <3> QED BY <3>1, <3>2, <3>4, <3>5
    <2>2. CASE LeaveLoop
      <3>1. pc = "loop" /\ UNCHANGED <<context, root, output>>
        BY <2>2 DEF LeaveLoop, members, drafting
      <3>2. PICK pre, rest \in Seq(Token) : Len(rest) <= 0 /\ text = (pre \o output) \o rest
        BY <3>1 DEF Continued, Goes
      <3>3. Len(rest) <= Levels
        BY <1>1, <3>2
      <3> QED BY <3>1, <3>2, <3>3 DEF Goes
    <2>3. CASE Commit
      BY <1>3, <1>5, <2>3
    <2>4. CASE UNCHANGED vars
      BY <1>5, <2>4 DEF vars, Continued
    <2> QED BY <1>5, <2>1, <2>2, <2>3, <2>4, OnlyEnds
  <1> QED BY <1>2, <1>4, <1>5 DEF Continued

LEMMA ContinuedInvariant == Spec => []Continued
  <1>1. Init => Continued
    BY DEF Init, Continued
  <1> QED BY <1>1, TypeInvariant, PathInvariant, AgreedInvariant, EndsLastInvariant, ContinuedNext, PTL DEF Spec

\* generate(): whatever trees are drafted and however much of them is accepted, the cached
\* text and the root of the next tree end with the text that was emitted, in its order and
\* without a gap; and however the call ends, they go beyond it by less than a branch.
THEOREM TreesContinueTheOutput == Spec => []TreeContinuesOutput
  <1>1. TypeInv /\ Continued => TreeContinuesOutput
    <2> SUFFICES ASSUME TypeInv, Continued, pc \in {"draft", "loop", "verify", "restore"}
                 PROVE  \E k \in 0 .. (IF pc = "restore" THEN Levels ELSE 0) :
                          Ends(SubSeq(Append(context, root), 1, Len(Append(context, root)) - k), output)
      BY DEF TreeContinuesOutput
    <2> DEFINE text == Append(context, root)
               most == IF pc = "restore" THEN Levels ELSE 0
    <2>1. output \in Seq(Token) /\ most \in Nat
      BY GrownFacts DEF TypeInv, Locals
    <2>2. PICK pre, rest \in Seq(Token) : Len(rest) <= most /\ text = (pre \o output) \o rest
      BY DEF Continued, Goes
    <2> DEFINE x == pre \o output
               k == Len(rest)
    <2>3. x \in Seq(Token) /\ text = x \o rest
      BY <2>1, <2>2, ConcatProperties
    <2> HIDE DEF text, x, most
    <2>4. Len(text) - k = Len(x) /\ SubSeq(text, 1, Len(x)) = x /\ k \in 0 .. most
      BY <2>1, <2>2, <2>3, FirstHalf
    <2>5. Ends(x, output)
      BY <2>1, EndsWith DEF x
    <2> QED BY <2>4, <2>5 DEF text, most
  <1> QED BY <1>1, TypeInvariant, ContinuedInvariant, PTL
-----------------------------------------------------------------------------
(* selectiveKVUpdate: the order of the selected rows.                      *)

Ascending(ids) == \A j, k \in 1 .. Len(ids) : j < k => ids[j] < ids[k]

LEMMA SelectedFacts ==
    ASSUME accepted_ids \in Seq(DraftNode), Ascending(accepted_ids), NEW k \in 1 .. Len(accepted_ids)
    PROVE  Selected(k) = accepted_ids[k]
  <1> DEFINE ids == accepted_ids
             n == Len(ids)
             R == Range(ids)
             less(i) == {x \in R : x < i}
             first(m) == {ids[j] : j \in 1 .. m}
             S == {m \in Nat : m <= n => IsFiniteSet(first(m)) /\ Cardinality(first(m)) = m}
  <1>1. n \in Nat /\ \A j \in 1 .. n : ids[j] \in Nat
    BY SMTT(40), TreeFacts DEF DraftNode
  <1>2. R = {ids[j] : j \in 1 .. n}
    BY DEF Range
  <1>3. \A i, j \in 1 .. n : i < j => ids[i] < ids[j]
    BY DEF Ascending
  <1> HIDE DEF ids, R
  <1>4. 0 \in S
    <2>1. first(0) = {}
      OBVIOUS
    <2> QED BY <2>1, FS_EmptySet
  <1>5. ASSUME NEW m \in Nat, m \in S PROVE m + 1 \in S
    <2> SUFFICES ASSUME m + 1 <= n PROVE IsFiniteSet(first(m + 1)) /\ Cardinality(first(m + 1)) = m + 1
      OBVIOUS
    <2>1. IsFiniteSet(first(m)) /\ Cardinality(first(m)) = m
      BY <1>1, <1>5
    <2>2. first(m + 1) = first(m) \cup {ids[m + 1]}
      <3>1. 1 .. m + 1 = (1 .. m) \cup {m + 1}
        OBVIOUS
      <3> QED BY <3>1
    <2>3. ids[m + 1] \notin first(m)
      <3>1. ASSUME NEW j \in 1 .. m PROVE ids[j] # ids[m + 1]
        <4>1. j \in 1 .. n /\ m + 1 \in 1 .. n /\ j < m + 1
          BY <1>1
        <4>2. ids[j] < ids[m + 1] /\ ids[j] \in Nat
          BY <1>1, <1>3, <4>1
        <4> QED BY <4>2
      <3> QED BY <3>1
    <2> HIDE DEF first
    <2>4. /\ IsFiniteSet(first(m) \cup {ids[m + 1]})
          /\ Cardinality(first(m) \cup {ids[m + 1]}) = Cardinality(first(m)) + 1
      BY <2>1, <2>3, FS_AddElement
    <2> QED BY <2>1, <2>2, <2>4
  <1> HIDE DEF S
  <1>6. Nat \subseteq S
    BY <1>4, <1>5, Induction
  <1>7. ASSUME NEW m \in 1 .. n PROVE Cardinality(less(ids[m])) = m - 1
    <2>1. less(ids[m]) = first(m - 1)
      <3>1. ASSUME NEW j \in 1 .. n PROVE ids[j] < ids[m] <=> j \in 1 .. m - 1
        <4>1. CASE j < m
          BY <1>1, <1>3, <4>1
        <4>2. CASE j = m
          <5>1. ids[m] \in Nat
            BY <1>1
          <5> QED BY <1>1, <4>2, <5>1
        <4>3. CASE m < j
          <5>1. ids[m] < ids[j] /\ ids[m] \in Nat /\ ids[j] \in Nat
            BY <1>1, <1>3, <4>3
          <5> QED BY <1>1, <4>3, <5>1
        <4> QED BY <1>1, <4>1, <4>2, <4>3
      <3>2. \A j \in 1 .. m - 1 : j \in 1 .. n
        BY <1>1
      <3> QED BY <1>2, <3>1, <3>2
    <2>2. m - 1 \in Nat /\ m - 1 <= n
      BY <1>1
    <2> QED BY <1>6, <2>1, <2>2 DEF S
  <1>8. Selected(k) = CHOOSE i \in R : Cardinality(less(i)) = k - 1
    BY DEF Selected, R, ids
  <1>9. ids[k] \in R /\ Cardinality(less(ids[k])) = k - 1
    BY <1>2, <1>7 DEF ids
  <1> DEFINE x == Selected(k)
  <1> HIDE DEF less
  <1>10. x \in R /\ Cardinality(less(x)) = k - 1
    BY <1>8, <1>9
  <1> HIDE DEF x
  <1>11. PICK j \in 1 .. n : x = ids[j]
    BY <1>2, <1>10
  <1>12. j - 1 = k - 1
    BY <1>7, <1>10, <1>11
  <1>13. j = k
    BY <1>1, <1>12
  <1> QED BY <1>11, <1>13 DEF x, ids

\* The beginning of a sequence that goes beyond its first part.
LEMMA BeyondFirst ==
    ASSUME NEW T, NEW c \in Seq(T), NEW u \in Seq(T), NEW k \in 0 .. Len(u)
    PROVE  SubSeq(c \o u, 1, Len(c) + k) = c \o SubSeq(u, 1, k)
  <1> DEFINE m == Len(c)
             e == c \o u
             b == SubSeq(u, 1, k)
             a == SubSeq(e, 1, m + k)
             d == c \o b
  <1>1. /\ e \in Seq(T) /\ Len(e) = m + Len(u) /\ m \in Nat /\ Len(u) \in Nat /\ k \in Nat /\ k <= Len(u)
        /\ \A i \in 1 .. m + Len(u) : e[i] = IF i <= m THEN c[i] ELSE u[i - m]
    BY ConcatProperties
  <1>2. b \in Seq(T) /\ Len(b) = k /\ \A i \in 1 .. k : b[i] = u[i]
    BY Beginning
  <1> HIDE DEF e, b, m
  <1>3. a \in Seq(T) /\ Len(a) = m + k /\ \A i \in 1 .. m + k : a[i] = e[i]
    <2>1. m + k \in 0 .. Len(e)
      BY <1>1
    <2> QED BY <1>1, <2>1, Beginning
  <1>4. /\ d \in Seq(T) /\ Len(d) = m + k
        /\ \A i \in 1 .. m + k : d[i] = IF i <= m THEN c[i] ELSE b[i - m]
    BY <1>2, ConcatProperties DEF m
  <1> HIDE DEF a, d
  <1>5. ASSUME NEW i \in 1 .. m + k PROVE a[i] = d[i]
    <2>1. a[i] = e[i] /\ i \in 1 .. m + Len(u)
      BY <1>1, <1>3
    <2>2. CASE i <= m
      BY <1>1, <1>4, <2>1, <2>2
    <2>3. CASE ~ (i <= m)
      <3>1. i - m \in 1 .. k
        BY <1>1, <2>3
      <3> QED BY <1>1, <1>2, <1>4, <2>1, <2>3, <3>1
    <2> QED BY <2>2, <2>3
  <1>6. a = d
    BY <1>3, <1>4, <1>5
  <1> QED BY <1>6 DEF a, d, b, e, m

LEMMA DraftedBeginning ==
    ASSUME NEW tree \in [DraftNode -> Token], NEW ids \in Seq(DraftNode), NEW k \in 0 .. Len(ids)
    PROVE  Drafted(tree, SubSeq(ids, 1, k)) = SubSeq(Drafted(tree, ids), 1, k)
  <1> DEFINE b == SubSeq(ids, 1, k)
             d == Drafted(tree, ids)
             x == Drafted(tree, b)
             y == SubSeq(d, 1, k)
  <1>1. b \in Seq(DraftNode) /\ Len(b) = k /\ \A i \in 1 .. k : b[i] = ids[i]
    BY Beginning
  <1> HIDE DEF b
  <1>2. d \in Seq(Token) /\ Len(d) = Len(ids) /\ \A i \in 1 .. Len(ids) : d[i] = tree[ids[i]]
    BY DraftedType DEF Drafted
  <1>3. x \in Seq(Token) /\ Len(x) = k /\ \A i \in 1 .. k : x[i] = tree[b[i]]
    BY <1>1, DraftedType DEF Drafted
  <1> HIDE DEF d, x
  <1>4. y \in Seq(Token) /\ Len(y) = k /\ \A i \in 1 .. k : y[i] = d[i]
    BY <1>2, Beginning
  <1> HIDE DEF y
  <1>5. ASSUME NEW i \in 1 .. k PROVE x[i] = y[i]
    <2>1. i \in 1 .. Len(ids)
      OBVIOUS
    <2> QED BY SMTT(40), <1>1, <1>2, <1>3, <1>4, <2>1
  <1>6. x = y
    BY <1>3, <1>4, <1>5
  <1> QED BY <1>6 DEF x, y, d, b
-----------------------------------------------------------------------------
(* The cache.                                                              *)

\* What has been overrun or cut was a context beyond the prefill layout.
DamageFar == damage \subseteq {"stride"} \/ n_past > PrefillKV

\* The stride the buffer is laid out for.
Layout == IF pc \in {"idle", "prefill"} THEN PrefillKV ELSE DecodeKV

\* The undamaged cache holds the context, and n_past_ counts it.
CacheSound ==
    damage = {} => n_past = ForecastPrefix + Len(context) /\ CacheHolds(Layout)

LEMMA OverrunFar ==
    ASSUME NEW stride \in Strides, NEW n \in Nat, n_past \in Nat, Overruns(stride, n_past, n) # {}
    PROVE  n_past + n > PrefillKV
  <1>1. PrefillKV \in Nat /\ stride \in Nat /\ PrefillKV <= stride
    BY StrideFacts DEF Strides
  <1>2. ~ (n_past + n <= stride)
    BY DEF Overruns, FitsRow
  <1> QED BY <1>1, <1>2

LEMMA LossFar ==
    ASSUME NEW old \in Strides, NEW new \in Strides, n_past \in Nat, Loses(old, new) # {}
    PROVE  n_past > PrefillKV
  <1>1. PrefillKV \in Nat /\ old \in Nat /\ new \in Nat /\ PrefillKV <= old /\ PrefillKV <= new
    BY StrideFacts DEF Strides
  <1>2. CopyLen(old, new, n_past) < n_past
    BY DEF Loses
  <1> QED BY <1>1, <1>2 DEF CopyLen, Min2

LEMMA DamageNext == TypeInv /\ DamageFar /\ [Next]_vars => DamageFar'
  <1> SUFFICES ASSUME TypeInv, DamageFar, [Next]_vars PROVE DamageFar'
    OBVIOUS
  <1> DEFINE Far(more, m) == damage' = damage \cup more /\ n_past' = n_past + m /\ (more # {} => n_past + m > PrefillKV)
  <1>1. n_past \in Nat /\ PrefillKV \in Nat /\ PrefillKV \in Strides /\ DecodeKV \in Strides
    BY StrideFacts DEF TypeInv, Members, Strides
  <1>2. ASSUME NEW more, NEW m \in Nat, Far(more, m) PROVE DamageFar'
    BY <1>1, <1>2 DEF DamageFar
  <1> HIDE DEF Far
  <1>3. CASE ResetKVCache
    BY <1>3 DEF ResetKVCache, DamageFar
  <1>4. ASSUME NEW prompt \in Prompts, NEW max \in MaxTokens, Generate(prompt, max) PROVE DamageFar'
    BY <1>4 DEF Generate, members, DamageFar
  <1>5. CASE PrefillChunk
    <2> DEFINE n == Min2(Len(todo), SeqLenPrefill)
    <2>1. n \in Nat
      BY <1>5, ChunkFacts DEF PrefillChunk, TypeInv, Locals
    <2>2. damage' = damage \cup Overruns(PrefillKV, n_past, n) /\ n_past' = n_past + n
      BY <1>5 DEF PrefillChunk, PrefillColumn
    <2> HIDE DEF n
    <2>3. Far(Overruns(PrefillKV, n_past, n), n)
      BY <1>1, <2>1, <2>2, OverrunFar DEF Far
    <2> QED BY <1>2, <2>1, <2>3
  <1>6. CASE FirstToken
    <2>1. damage' = damage \cup Loses(PrefillKV, DecodeKV) /\ n_past' = n_past + 0
      BY <1>1, <1>6 DEF FirstToken
    <2>2. Far(Loses(PrefillKV, DecodeKV), 0)
      BY <1>1, <2>1, LossFar DEF Far
    <2> QED BY <1>2, <2>2
  <1>7. CASE InitialPass
    <2>1. damage' = damage \cup Overruns(DecodeKV, n_past, 1) /\ n_past' = n_past + 1
      BY <1>7 DEF InitialPass
    <2>2. Far(Overruns(DecodeKV, n_past, 1), 1)
      BY <1>1, <2>1, OverrunFar DEF Far
    <2> QED BY <1>2, <2>2
  <1>8. CASE Draft \/ LeaveLoop \/ TreePass \/ VerifyNode \/ VerifyDone \/ ExecuteFails \/ UNCHANGED vars
    BY <1>8 DEF Draft, LeaveLoop, TreePass, VerifyNode, VerifyDone, ExecuteFails, vars, members, DamageFar
  <1>9. CASE Commit
    <2> DEFINE n == Len(accepted_tokens)
    <2>1. damage' = damage \cup Overruns(DecodeKV, n_past, n) /\ n_past' = n_past + n
      BY <1>9 DEF Commit
    <2>2. n \in Nat
      BY DEF TypeInv, Verdict
    <2> HIDE DEF n
    <2>3. Far(Overruns(DecodeKV, n_past, n), n)
      BY <1>1, <2>1, <2>2, OverrunFar DEF Far
    <2> QED BY <1>2, <2>2, <2>3
  <1>10. CASE Restore
    <2>1. damage' = damage \cup Loses(DecodeKV, PrefillKV) /\ n_past' = n_past + 0
      BY <1>1, <1>10 DEF Restore
    <2>2. Far(Loses(DecodeKV, PrefillKV), 0)
      BY <1>1, <2>1, LossFar DEF Far
    <2> QED BY <1>2, <2>2
  <1>11. CASE Unwind
    BY <1>11 DEF Unwind, members, DamageFar
  <1> QED BY <1>3, <1>4, <1>5, <1>6, <1>7, <1>8, <1>9, <1>10, <1>11 DEF Next

LEMMA DamageInvariant == Spec => []DamageFar
  <1>1. Init => DamageFar
    BY DEF Init, DamageFar
  <1> QED BY <1>1, TypeInvariant, DamageNext, PTL DEF Spec

\* A step that leaves buffer, n_past_ and context alone.
LEMMA CacheKept ==
    ASSUME UNCHANGED members, NEW stride
    PROVE  /\ CacheHolds(stride)' <=> CacheHolds(stride)
           /\ PrefixLoaded(stride)' <=> PrefixLoaded(stride)
  BY DEF members, CacheHolds, PrefixLoaded

LEMMA CacheHoldsNext ==
    ASSUME NEW stride \in Strides, context' \in Seq(Token), n_past' <= stride, Held(kv', stride, context')
    PROVE  CacheHolds(stride)'
  <1>1. ASSUME NEW r \in Row, NEW i \in 1 .. Len(context')
        PROVE  r * stride + ForecastPrefix + i - 1 = r * stride + (ForecastPrefix + i - 1)
    <2> DEFINE a == r * stride
    <2>1. a \in Nat
      BY StrideFacts, ProductNat DEF Row
    <2> HIDE DEF a
    <2>2. a + ForecastPrefix + i - 1 = a + (ForecastPrefix + i - 1)
      BY <2>1, StrideFacts
    <2> QED BY <2>2 DEF a
  <1>2. \A r \in Row, i \in 1 .. Len(context') :
           kv'[r * stride + ForecastPrefix + i - 1] = Entry(r, SubSeq(context', 1, i))
    BY <1>1 DEF Held
  <1> QED BY <1>2 DEF CacheHolds

\* The n tokens u enter the cache at n_past_.
LEMMA CacheGrows ==
    ASSUME NEW stride \in Strides, DOMAIN kv = Addr, context \in Seq(Token),
           n_past = ForecastPrefix + Len(context), CacheHolds(stride),
           NEW u \in Seq(Token), NEW src, Sources(src, context \o u, Len(context), Len(u)),
           Overruns(stride, n_past, Len(u)) = {},
           kv' = CopyTokens(kv, Rows, stride, n_past, Len(u), src),
           n_past' = n_past + Len(u), context' = context \o u
    PROVE  /\ n_past' = ForecastPrefix + Len(context') /\ CacheHolds(stride)'
           /\ PrefixLoaded(stride)' => PrefixLoaded(stride)
  <1> DEFINE e == context \o u
             n == Len(u)
             b == CopyTokens(kv, Rows, stride, n_past, n, src)
  <1>1. e \in Seq(Token) /\ Len(e) = Len(context) + n /\ n \in Nat /\ Len(context) \in Nat
    BY ConcatProperties
  <1>2. Begins(e, context)
    BY Beginnings DEF Begins
  <1>3. Held(kv, stride, context)
    BY CacheHoldsIsHeld
  <1>4. Sources(src, e, Len(context), n) /\ Overruns(stride, n_past, n) = {}
    OBVIOUS
  <1> HIDE DEF e, n, b
  <1>5. /\ ForecastPrefix + Len(e) <= stride /\ Held(b, stride, e) /\ SamePrefix(kv, b, stride)
    BY <1>1, <1>2, <1>3, <1>4, CopyHeld DEF b
  <1>6. kv' = b /\ context' = e /\ n_past' = n_past + n
    BY DEF b, e, n
  <1>7. n_past' = ForecastPrefix + Len(e)
    BY <1>1, <1>6, StrideFacts
  <1>8. CacheHolds(stride)'
    BY <1>1, <1>5, <1>6, <1>7, CacheHoldsNext
  <1>9. PrefixLoaded(stride)' => PrefixLoaded(stride)
    BY <1>5, <1>6 DEF PrefixLoaded, SamePrefix
  <1> QED BY <1>6, <1>7, <1>8, <1>9

\* A change of layout that loses nothing.
LEMMA CacheMoves ==
    ASSUME NEW old \in Strides, NEW new \in Strides, DOMAIN kv = Addr, context \in Seq(Token),
           n_past = ForecastPrefix + Len(context), CacheHolds(old), Loses(old, new) = {},
           kv' = Restride(kv, Rows, old, new, n_past, Zero), UNCHANGED <<n_past, context>>
    PROVE  CacheHolds(new)'
  <1>1. Held(kv, old, context)
    BY CacheHoldsIsHeld
  <1>2. n_past <= new /\ Held(Restride(kv, Rows, old, new, n_past, Zero), new, context)
    BY <1>1, RestrideHeld
  <1> QED BY <1>2, CacheHoldsNext
-----------------------------------------------------------------------------
(* The passes.                                                             *)

\* A chunk of the prompt stands for the contexts it makes.
LEMMA ChunkCache ==
    ASSUME TypeInv, CacheSound, PrefillChunk, damage' = {}
    PROVE  CacheSound' /\ basis' = context'
  <1> DEFINE n == Min2(Len(todo), SeqLenPrefill)
             u == SubSeq(todo, 1, n)
             e == context \o u
             entry(k) == IF CacheHolds(PrefillKV) THEN SubSeq(e, 1, Len(context) + k) ELSE Junk
             src == [p \in Row \X (0 .. n - 1) |-> Entry(p[1], entry(p[2] + 1))]
  <1>1. /\ pc = "prefill" /\ pc' = "prefill" /\ todo \in Seq(Token) /\ todo # <<>>
        /\ context \in Seq(Token) /\ DOMAIN kv = Addr /\ PrefillKV \in Strides
        /\ damage = {} /\ Overruns(PrefillKV, n_past, n) = {}
        /\ n_past' = n_past + n /\ context' = e
    BY DEF TypeInv, Members, Locals, PrefillChunk, PrefillColumn, Strides
  <1>2. n \in Nat \ {0} /\ u \in Seq(Token) /\ Len(u) = n
    <2> HIDE DEF n
    <2>1. n \in 1 .. Len(todo) /\ SubSeq(todo, 1, n) \in Seq(Token) /\ Len(SubSeq(todo, 1, n)) = n
      BY <1>1, ChunkFacts DEF n
    <2> QED BY <1>1, <2>1
  <1>3. n_past = ForecastPrefix + Len(context) /\ CacheHolds(PrefillKV)
    BY <1>1 DEF CacheSound, Layout
  <1>4. kv' = CopyTokens(kv, Rows, PrefillKV, n_past, n, src)
    BY DEF PrefillChunk, PrefillColumn
  <1>5. basis' = SubSeq(e, 1, Len(context) + n)
    BY <1>3 DEF PrefillChunk
  <1>6. \A p \in Row \X (0 .. n - 1) : src[p] = Entry(p[1], SubSeq(e, 1, Len(context) + (p[2] + 1)))
    BY <1>3
  <1> HIDE DEF src
  <1> HIDE DEF n, u, e
  <1>7. Sources(src, e, Len(context), n)
    <2> SUFFICES ASSUME NEW r \in Row, NEW k \in 0 .. n - 1
                 PROVE  src[<<r, k>>] = Entry(r, SubSeq(e, 1, Len(context) + k + 1))
      BY DEF Sources
    <2>1. src[<<r, k>>] = Entry(r, SubSeq(e, 1, Len(context) + (k + 1)))
      BY <1>6
    <2>2. Len(context) + (k + 1) = Len(context) + k + 1
      BY <1>1
    <2> QED BY <2>1, <2>2
  <1>8. n_past' = ForecastPrefix + Len(context') /\ CacheHolds(PrefillKV)'
    <2>1. Sources(src, context \o u, Len(context), Len(u)) /\ context' = context \o u
      BY <1>1, <1>2, <1>7 DEF e
    <2>2. Overruns(PrefillKV, n_past, Len(u)) = {} /\ n_past' = n_past + Len(u)
          /\ kv' = CopyTokens(kv, Rows, PrefillKV, n_past, Len(u), src)
      BY <1>1, <1>2, <1>4
    <2> QED BY <1>1, <1>2, <1>3, <2>1, <2>2, CacheGrows
  <1>9. e \in Seq(Token) /\ Len(e) = Len(context) + n
    BY <1>1, <1>2, ConcatProperties DEF e
  <1>10. basis' = e
    BY <1>5, <1>9, WholeSlice
  <1> QED BY <1>1, <1>8, <1>10 DEF CacheSound, Layout

LEMMA TokensAreInts ==
    ASSUME NEW s \in Seq(Token)
    PROVE  s \in Seq(Int)
  <1>1. Token \subseteq Int
    <2>1. Token \subseteq Nat /\ Nat \subseteq Int
      BY VocabularyIsInt
    <2> QED BY <2>1, Zenon
  <1>2. \A i \in 1 .. Len(s) : s[i] \in Token
    OBVIOUS
  <1>3. \A i \in 1 .. Len(s) : s[i] \in Int
    BY <1>1, <1>2, Zenon
  <1> QED BY <1>3

LEMMA Pair ==
    ASSUME NEW a, NEW b
    PROVE  Append(<<a>>, b) = <<a, b>> /\ <<a>> \o <<b>> = <<a, b>>
  <1> DEFINE T == {a, b}
             s == <<a>>
             u == <<b>>
             p == <<a, b>>
  <1>1. /\ s \in Seq(T) /\ Len(s) = 1 /\ s[1] = a /\ u \in Seq(T) /\ Len(u) = 1 /\ u[1] = b
        /\ p \in Seq(T) /\ Len(p) = 2 /\ p[1] = a /\ p[2] = b /\ b \in T
    OBVIOUS
  <1> HIDE DEF T, s, u, p
  <1>2. /\ Append(s, b) \in Seq(T) /\ Len(Append(s, b)) = 2
        /\ Append(s, b)[1] = a /\ Append(s, b)[2] = b
    <2>1. /\ Append(s, b) \in Seq(T) /\ Len(Append(s, b)) = Len(s) + 1
          /\ \A i \in 1 .. Len(s) + 1 : Append(s, b)[i] = IF i <= Len(s) THEN s[i] ELSE b
      <3>1. s \in Seq(T) /\ b \in T
        BY <1>1
      <3> QED BY <3>1, AppendProperties
    <2> QED BY <1>1, <2>1
  <1>3. /\ s \o u \in Seq(T) /\ Len(s \o u) = 2 /\ (s \o u)[1] = a /\ (s \o u)[2] = b
    <2>1. /\ s \o u \in Seq(T) /\ Len(s \o u) = Len(s) + Len(u)
          /\ \A i \in 1 .. Len(s) + Len(u) : (s \o u)[i] = IF i <= Len(s) THEN s[i] ELSE u[i - Len(s)]
      BY <1>1, ConcatProperties
    <2> QED BY <1>1, <2>1
  <1>4. \A i \in 1 .. 2 : i = 1 \/ i = 2
    OBVIOUS
  <1>5. Append(s, b) = p
    <2> DEFINE q == Append(s, b)
    <2>1. q \in Seq(T) /\ Len(q) = 2 /\ q[1] = a /\ q[2] = b
      BY <1>2
    <2> HIDE DEF q
    <2>2. q = p
      BY <1>1, <1>4, <2>1
    <2> QED BY <2>2 DEF q
  <1>6. s \o u = p
    <2> DEFINE q == s \o u
    <2>1. q \in Seq(T) /\ Len(q) = 2 /\ q[1] = a /\ q[2] = b
      BY <1>3
    <2> HIDE DEF q
    <2>2. q = p
      BY <1>1, <1>4, <2>1
    <2> QED BY <2>2 DEF q
  <1> QED BY <1>5, <1>6 DEF s, u, p

\* The initial pass: its first row stands for the context and the first token, its second
\* for one forecast token more.
LEMMA InitialRows ==
    ASSUME TypeInv, CacheSound, InitialPass, damage = {}
    PROVE  /\ logits'[0] = Append(context, root)
           /\ PrefixLoaded(DecodeKV) => logits'[1] = Append(context, root) \o Forecasts(1)
  <1> DEFINE tokens == [i \in 0 .. Levels |-> IF i = 0 THEN root ELSE ForecastToken(i)]
  <1>1. /\ context \in Seq(Token) /\ root \in Token /\ pc = "initial" /\ Levels \in Nat \ {0}
        /\ n_past = ForecastPrefix + Len(context) /\ CacheHolds(DecodeKV)
    BY GrownFacts DEF TypeInv, Members, Locals, InitialPass, CacheSound, Layout
  <1>2. logits' = TreeRows(tokens, 1)
    BY DEF InitialPass
  <1>3. VocabSize \in Nat /\ root \in Nat /\ root < VocabSize
    BY <1>1, VocabularyIsInt
  <1>4. /\ DOMAIN tokens = 0 .. Levels /\ 0 \in DOMAIN tokens /\ 1 \in DOMAIN tokens
        /\ tokens[0] = root /\ tokens[1] = VocabSize
    BY <1>1, <1>3 DEF ForecastToken
  <1>5. 0 \in TreeNode /\ 1 \in TreeNode /\ 1 \in 1 .. TotalTokens - 1
    BY TreeFacts DEF TreeNode
  <1> HIDE DEF tokens
  <1>6. logits'[0] = Append(context, root)
    <2>1. IF 0 < 1 THEN ~ (tokens[0] >= VocabSize)
          ELSE tokens[0] >= VocabSize /\ PrefixLoaded(DecodeKV)
      BY <1>3, <1>4
    <2>2. TreeRows(tokens, 1)[0] = context \o [k \in 1 .. Len(Branch[0]) |-> tokens[Branch[0][k]]]
      <3>1. /\ 0 \in DOMAIN tokens /\ 0 \in TreeNode /\ CacheHolds(DecodeKV)
            /\ n_past = ForecastPrefix + Len(context) /\ context \in Seq(Token)
        BY <1>1, <1>4, <1>5
      <3> QED BY <2>1, <3>1, RowText, Zenon
    <2>3. [k \in 1 .. Len(Branch[0]) |-> tokens[Branch[0][k]]] = <<root>>
      <3>1. Branch[0] = <<0>>
        BY BranchFacts
      <3> QED BY <1>4, <3>1
    <2>4. Append(context, root) = context \o <<root>>
      BY <1>1, AppendIsConcat
    <2> QED BY <1>2, <2>2, <2>3, <2>4
  <1>7. ASSUME PrefixLoaded(DecodeKV) PROVE logits'[1] = Append(context, root) \o Forecasts(1)
    <2>1. IF 1 < 1 THEN ~ (tokens[1] >= VocabSize)
          ELSE tokens[1] >= VocabSize /\ PrefixLoaded(DecodeKV)
      BY <1>3, <1>4, <1>7
    <2>2. TreeRows(tokens, 1)[1] = context \o [k \in 1 .. Len(Branch[1]) |-> tokens[Branch[1][k]]]
      <3>1. /\ 1 \in DOMAIN tokens /\ 1 \in TreeNode /\ CacheHolds(DecodeKV)
            /\ n_past = ForecastPrefix + Len(context) /\ context \in Seq(Token)
        BY <1>1, <1>4, <1>5
      <3> QED BY <2>1, <3>1, RowText, Zenon
    <2>3. [k \in 1 .. Len(Branch[1]) |-> tokens[Branch[1][k]]] = <<root>> \o <<VocabSize>>
      <3>1. AttentionMap[1] = 0
        <4>1. AttentionMap[1] \in 0 .. 1 - 1
          BY <1>5, TreeFacts
        <4> QED BY <4>1
      <3>2. Branch[1] = Append(<<0>>, 1)
        BY <1>5, <3>1, BranchFacts
      <3>3. Append(<<0>>, 1) = <<0, 1>>
        BY Pair
      <3>4. [k \in 1 .. Len(<<0, 1>>) |-> tokens[<<0, 1>>[k]]] = <<tokens[0], tokens[1]>>
        OBVIOUS
      <3>5. <<root>> \o <<VocabSize>> = <<root, VocabSize>>
        BY Pair
      <3> QED BY <1>4, <3>2, <3>3, <3>4, <3>5
    <2>4. Forecasts(1) = <<VocabSize>>
      BY <1>3 DEF Forecasts, ForecastToken
    <2>5. Append(context, root) = context \o <<root>>
      BY <1>1, AppendIsConcat
    <2>6. (context \o <<root>>) \o <<VocabSize>> = context \o (<<root>> \o <<VocabSize>>)
      <3> DEFINE a == <<root>>
                 b == <<VocabSize>>
      <3>1. context \in Seq(Int) /\ a \in Seq(Int) /\ b \in Seq(Int)
        <4>1. context \in Seq(Int)
          BY <1>1, TokensAreInts
        <4> QED BY <1>3, <4>1
      <3> DEFINE c == context
      <3> HIDE DEF a, b
      <3>2. c \in Seq(Int)
        BY <3>1
      <3> HIDE DEF c
      <3>3. (c \o a) \o b = c \o (a \o b)
        BY SMTT(40), <3>1, <3>2, Associate
      <3> QED BY <3>3 DEF a, b, c
    <2> QED BY <1>2, <2>2, <2>3, <2>4, <2>5, <2>6
  <1> QED BY <1>6, <1>7

LEMMA InitialCache ==
    ASSUME TypeInv, CacheSound, InitialPass, damage' = {}
    PROVE  CacheSound' /\ (PrefixLoaded(DecodeKV)' => PrefixLoaded(DecodeKV)) /\ damage = {}
  <1> DEFINE u == <<root>>
             src == [p \in Row \X {0} |-> Entry(p[1], logits'[0])]
  <1>1. /\ pc = "initial" /\ pc' = "draft" /\ root \in Token
        /\ context \in Seq(Token) /\ DOMAIN kv = Addr /\ DecodeKV \in Strides
        /\ damage = {} /\ Overruns(DecodeKV, n_past, 1) = {}
        /\ n_past' = n_past + 1 /\ context' = Append(context, root)
    BY DEF TypeInv, Members, Locals, InitialPass, Strides
  <1>2. u \in Seq(Token) /\ Len(u) = 1 /\ Append(context, root) = context \o u
    BY <1>1, AppendIsConcat
  <1>3. n_past = ForecastPrefix + Len(context) /\ CacheHolds(DecodeKV)
    BY <1>1 DEF CacheSound, Layout
  <1>4. kv' = CopyTokens(kv, Rows, DecodeKV, n_past, 1, src)
    BY DEF InitialPass
  <1>5. \A r \in Row : src[<<r, 0>>] = Entry(r, Append(context, root))
    BY <1>1, InitialRows
  <1> HIDE DEF src
  <1>6. Sources(src, Append(context, root), Len(context), 1)
    <2> SUFFICES ASSUME NEW r \in Row, NEW k \in 0 .. 1 - 1
                 PROVE  src[<<r, k>>] = Entry(r, SubSeq(Append(context, root), 1, Len(context) + k + 1))
      BY DEF Sources
    <2> DEFINE e == Append(context, root)
    <2>1. e \in Seq(Token) /\ Len(e) = Len(context) + 1 /\ Len(context) \in Nat
      BY <1>1, AppendLast
    <2> HIDE DEF e
    <2>2. k = 0 /\ Len(context) + k + 1 = Len(e)
      BY <2>1
    <2>3. SubSeq(e, 1, Len(e)) = e
      BY <2>1, WholeSlice
    <2> QED BY <1>5, <2>2, <2>3 DEF e
  <1> HIDE DEF u
  <1>7. /\ n_past' = ForecastPrefix + Len(context') /\ CacheHolds(DecodeKV)'
        /\ PrefixLoaded(DecodeKV)' => PrefixLoaded(DecodeKV)
    <2>1. Sources(src, context \o u, Len(context), Len(u)) /\ context' = context \o u
      BY <1>1, <1>2, <1>6
    <2>2. Overruns(DecodeKV, n_past, Len(u)) = {} /\ n_past' = n_past + Len(u)
          /\ kv' = CopyTokens(kv, Rows, DecodeKV, n_past, Len(u), src)
      BY <1>1, <1>2, <1>4
    <2> QED BY <1>1, <1>2, <1>3, <2>1, <2>2, CacheGrows
  <1> QED BY <1>1, <1>7 DEF CacheSound, Layout

\* The pass over a tree: every draft node stands for the context and its branch, and with
\* the prefix loaded so does every forecast row.
LEMMA TreePassRows ==
    ASSUME TypeInv, CacheSound, TreePass, damage = {}, NEW i \in TreeNode,
           i < NumDraftNodes \/ PrefixLoaded(DecodeKV)
    PROVE  logits'[i] = context \o Text(draft_tree, i)
  <1> DEFINE tokens == Passed(draft_tree)
             N == NumDraftNodes
  <1>1. /\ context \in Seq(Token) /\ draft_tree \in [DraftNode -> Token] /\ pc = "loop"
        /\ n_past = ForecastPrefix + Len(context) /\ CacheHolds(DecodeKV)
    BY DEF TypeInv, Members, Rooted, TreePass, CacheSound, Layout
  <1>2. logits' = TreeRows(tokens, N)
    BY DEF TreePass, Passed
  <1>3. DOMAIN tokens = TreeNode
    BY <1>1, PassedFacts
  <1>4. IF i < N THEN ~ (tokens[i] >= VocabSize) ELSE tokens[i] >= VocabSize /\ PrefixLoaded(DecodeKV)
    <2>1. N \in Nat /\ Levels \in Nat \ {0} /\ TotalTokens \in Nat
      BY TreeFacts, GrownFacts
    <2>2. CASE i < N
      <3>1. i \in DraftNode
        BY <2>1, <2>2 DEF DraftNode, TreeNode
      <3>2. tokens[i] = draft_tree[i] /\ draft_tree[i] \in Token
        BY <1>1, <3>1, PassedFacts
      <3>3. draft_tree[i] \in Nat /\ draft_tree[i] < VocabSize /\ VocabSize \in Nat
        BY <3>2, VocabularyIsInt
      <3> HIDE DEF tokens
      <3>4. ~ (tokens[i] >= VocabSize)
        BY <3>2, <3>3
      <3> QED BY <2>2, <3>4
    <2>3. CASE ~ (i < N)
      <3> DEFINE k == (i - N) % Levels
      <3>1. tokens[i] = ForecastToken(k + 1)
        BY <2>3 DEF Passed, TreeNode
      <3>2. k \in Nat
        BY <2>1 DEF TreeNode
      <3> HIDE DEF k
      <3>3. ForecastToken(k + 1) = VocabSize + (k + 1) - 1 /\ VocabSize \in Nat
        BY VocabularyIsInt DEF ForecastToken
      <3> HIDE DEF tokens
      <3>4. tokens[i] >= VocabSize
        BY <3>1, <3>2, <3>3
      <3> QED BY <2>3, <3>4
    <2> QED BY <2>2, <2>3
  <1> HIDE DEF tokens
  <1>5. TreeRows(tokens, N)[i] = context \o [k \in 1 .. Len(Branch[i]) |-> tokens[Branch[i][k]]]
    <2>1. /\ i \in DOMAIN tokens /\ i \in TreeNode /\ CacheHolds(DecodeKV)
          /\ n_past = ForecastPrefix + Len(context) /\ context \in Seq(Token)
      BY <1>1, <1>3
    <2> QED BY <1>4, <2>1, RowText, Zenon
  <1> QED BY <1>2, <1>5 DEF Text, tokens

\* The rows of the accepted nodes stand for the beginnings of the text they make.
LEMMA AcceptedRows ==
    ASSUME TypeInv, Path, RowsSound, Walking, damage = {}, NEW k \in 1 .. Len(accepted_ids)
    PROVE  /\ logits[accepted_ids[k]] = context \o SubSeq(Drafted(draft_tree, accepted_ids), 1, k)
           /\ accepted_ids[k] \in DraftNode
           /\ Text(draft_tree, accepted_ids[k]) = SubSeq(Drafted(draft_tree, accepted_ids), 1, k)
  <1> DEFINE m == accepted_ids[k]
  <1>1. /\ draft_tree \in [DraftNode -> Token] /\ accepted_ids \in Seq(DraftNode) /\ m \in DraftNode
        /\ k \in 0 .. Len(accepted_ids)
    BY DEF TypeInv, Rooted, Verdict
  <1>2. Branch[m] = SubSeq(accepted_ids, 1, k)
    BY DEF Path
  <1> HIDE DEF m
  <1>3. m \in TreeNode /\ m < NumDraftNodes
    BY <1>1, TreeFacts DEF DraftNode, TreeNode
  <1>4. logits[m] = context \o Text(draft_tree, m)
    BY <1>3 DEF RowsSound
  <1>5. Text(draft_tree, m) = Drafted(draft_tree, SubSeq(accepted_ids, 1, k))
    BY <1>1, <1>2, DraftText
  <1>6. Drafted(draft_tree, SubSeq(accepted_ids, 1, k)) = SubSeq(Drafted(draft_tree, accepted_ids), 1, k)
    BY <1>1, DraftedBeginning
  <1> QED BY <1>1, <1>4, <1>5, <1>6 DEF m

\* The commit: the entries of the accepted branch join the cache, in its order.
LEMMA CommitCache ==
    ASSUME TypeInv, Path, CacheSound, RowsSound, Commit, damage' = {}
    PROVE  CacheSound' /\ (PrefixLoaded(DecodeKV)' => PrefixLoaded(DecodeKV)) /\ damage = {}
  <1> DEFINE n == Len(accepted_tokens)
             u == Drafted(draft_tree, accepted_ids)
             e == context \o u
             src == [p \in Row \X (0 .. n - 1) |-> Entry(p[1], logits[Selected(p[2] + 1)])]
  <1>1. /\ pc = "commit" /\ context \in Seq(Token) /\ DOMAIN kv = Addr /\ DecodeKV \in Strides
        /\ damage = {} /\ Overruns(DecodeKV, n_past, n) = {} /\ n_past' = n_past + n
        /\ draft_tree \in [DraftNode -> Token] /\ accepted_ids \in Seq(DraftNode)
        /\ Len(accepted_ids) = n /\ n \in Nat /\ Walking
    <2>1. /\ pc = "commit" /\ damage' = damage \cup Overruns(DecodeKV, n_past, n) /\ n_past' = n_past + n
      BY DEF Commit
    <2>2. /\ context \in Seq(Token) /\ DOMAIN kv = Addr /\ DecodeKV \in Strides
          /\ draft_tree \in [DraftNode -> Token] /\ accepted_ids \in Seq(DraftNode)
          /\ Len(accepted_ids) = n /\ n \in Nat
      BY DEF TypeInv, Members, Rooted, Verdict, Strides
    <2> HIDE DEF n
    <2>3. damage = {} /\ Overruns(DecodeKV, n_past, n) = {}
      BY <2>1
    <2> QED BY <2>1, <2>2, <2>3 DEF Walking
  <1>2. pc' \notin {"idle", "prefill"}
    BY CommitOutput
  <1>3. n_past = ForecastPrefix + Len(context) /\ CacheHolds(DecodeKV)
    BY <1>1 DEF CacheSound, Layout
  <1>4. kv' = CopyTokens(kv, Rows, DecodeKV, n_past, n, src)
    BY DEF Commit
  <1>5. u \in Seq(Token) /\ Len(u) = n /\ context' = e
    BY <1>1, DraftedType, CommitText
  <1>6. \A r \in Row, k \in 0 .. n - 1 : src[<<r, k>>] = Entry(r, logits[Selected(k + 1)])
    OBVIOUS
  <1> HIDE DEF src, n, u
  <1>7. Sources(src, e, Len(context), n)
    <2> SUFFICES ASSUME NEW r \in Row, NEW k \in 0 .. n - 1
                 PROVE  src[<<r, k>>] = Entry(r, SubSeq(e, 1, Len(context) + k + 1))
      BY DEF Sources
    <2>1. k + 1 \in 1 .. Len(accepted_ids) /\ k + 1 \in 0 .. Len(u)
      BY <1>1, <1>5
    <2>2. Selected(k + 1) = accepted_ids[k + 1]
      <3>1. Ascending(accepted_ids)
        BY <1>1 DEF Path, Ascending
      <3> QED BY <1>1, <2>1, <3>1, SelectedFacts
    <2>3. logits[accepted_ids[k + 1]] = context \o SubSeq(u, 1, k + 1)
      BY <1>1, <2>1, AcceptedRows DEF u
    <2>4. SubSeq(e, 1, Len(context) + (k + 1)) = context \o SubSeq(u, 1, k + 1)
      BY SMTT(40), <1>1, <1>5, <2>1, BeyondFirst
    <2>5. Len(context) + (k + 1) = Len(context) + k + 1
      BY <1>1
    <2> HIDE DEF e
    <2> QED BY <1>6, <2>2, <2>3, <2>4, <2>5
  <1>8. /\ n_past' = ForecastPrefix + Len(context') /\ CacheHolds(DecodeKV)'
        /\ PrefixLoaded(DecodeKV)' => PrefixLoaded(DecodeKV)
    <2>1. Sources(src, context \o u, Len(context), Len(u)) /\ context' = context \o u
      BY <1>5, <1>7
    <2>2. Overruns(DecodeKV, n_past, Len(u)) = {} /\ n_past' = n_past + Len(u)
          /\ kv' = CopyTokens(kv, Rows, DecodeKV, n_past, Len(u), src)
      BY <1>1, <1>4, <1>5
    <2> QED BY <1>1, <1>3, <1>5, <2>1, <2>2, CacheGrows
  <1> QED BY <1>1, <1>2, <1>8 DEF CacheSound, Layout

LEMMA CacheNext == TypeInv /\ Path /\ CacheSound /\ RowsSound /\ [Next]_vars => CacheSound'
  <1> SUFFICES ASSUME TypeInv, Path, CacheSound, RowsSound, [Next]_vars, damage' = {}
               PROVE  (n_past = ForecastPrefix + Len(context))' /\ CacheHolds(Layout)'
    BY DEF CacheSound
  <1>1. context \in Seq(Token) /\ DOMAIN kv = Addr /\ PrefillKV \in Strides /\ DecodeKV \in Strides
    BY DEF TypeInv, Members, Strides
  <1>2. CASE ResetKVCache
    <2>1. n_past' = ForecastPrefix /\ context' = <<>> /\ pc' = "idle"
      BY <1>2 DEF ResetKVCache
    <2>2. CacheHolds(PrefillKV)'
      BY <2>1, StrideFacts DEF CacheHolds
    <2> QED BY <2>1, <2>2, StrideFacts DEF Layout
  <1>3. CASE PrefillChunk
    BY <1>3, ChunkCache DEF CacheSound
  <1>4. CASE FirstToken
    <2>1. /\ pc = "prefill" /\ pc' \in {"initial", "restore", "thrown"} /\ damage = {}
          /\ Loses(PrefillKV, DecodeKV) = {} /\ UNCHANGED <<n_past, context>>
          /\ kv' = Restride(kv, Rows, PrefillKV, DecodeKV, n_past, Zero)
      BY <1>4 DEF FirstToken
    <2>2. n_past = ForecastPrefix + Len(context) /\ CacheHolds(PrefillKV)
      BY <2>1 DEF CacheSound, Layout
    <2>3. CacheHolds(DecodeKV)'
      BY <1>1, <2>1, <2>2, CacheMoves
    <2> QED BY <2>1, <2>2, <2>3 DEF Layout
  <1>5. CASE InitialPass
    BY <1>5, InitialCache DEF CacheSound
  <1>6. CASE Commit
    BY <1>6, CommitCache DEF CacheSound
  <1>7. CASE Restore
    <2>1. /\ pc = "restore" /\ pc' = "idle" /\ damage = {}
          /\ Loses(DecodeKV, PrefillKV) = {} /\ UNCHANGED <<n_past, context>>
          /\ kv' = Restride(kv, Rows, DecodeKV, PrefillKV, n_past, Zero)
      BY <1>7 DEF Restore, Leave
    <2>2. n_past = ForecastPrefix + Len(context) /\ CacheHolds(DecodeKV)
      BY <2>1 DEF CacheSound, Layout
    <2>3. CacheHolds(PrefillKV)'
      BY <1>1, <2>1, <2>2, CacheMoves
    <2> QED BY <2>1, <2>2, <2>3 DEF Layout
  <1>8. CASE Unwind
    BY <1>8 DEF Unwind
  <1>9. CASE UNCHANGED members /\ UNCHANGED damage /\ Layout' = Layout
    <2>1. damage = {} /\ n_past' = n_past /\ context' = context
      BY <1>9 DEF members
    <2>2. n_past = ForecastPrefix + Len(context) /\ CacheHolds(Layout)
      BY <2>1 DEF CacheSound
    <2>3. CASE Layout = PrefillKV
      BY <1>9, <2>1, <2>2, <2>3 DEF members, CacheHolds
    <2>4. CASE Layout = DecodeKV
      BY <1>9, <2>1, <2>2, <2>4 DEF members, CacheHolds
    <2> QED BY <2>3, <2>4 DEF Layout
  <1>10. ASSUME NEW prompt \in Prompts, NEW max \in MaxTokens, Generate(prompt, max)
         PROVE  UNCHANGED members /\ UNCHANGED damage /\ Layout' = Layout
    BY <1>10 DEF Generate, Layout
  <1>11. CASE Draft \/ LeaveLoop \/ TreePass \/ VerifyNode \/ VerifyDone
    <2>1. UNCHANGED members /\ UNCHANGED damage /\ pc \notin {"idle", "prefill"}
      BY <1>11 DEF Draft, LeaveLoop, TreePass, VerifyNode, VerifyDone
    <2>2. pc' \notin {"idle", "prefill"}
      BY <1>11 DEF Draft, LeaveLoop, TreePass, VerifyNode, VerifyDone
    <2> QED BY <1>9, <2>1, <2>2 DEF Layout
  <1>12. CASE ExecuteFails
    <2>1. UNCHANGED members /\ UNCHANGED damage
      BY <1>12 DEF ExecuteFails
    <2>2. (pc = "prefill" /\ pc' = "idle") \/ (pc \in {"initial", "loop"} /\ pc' = "thrown")
      BY <1>12 DEF ExecuteFails, Leave
    <2> QED BY <1>9, <2>1, <2>2 DEF Layout
  <1>13. CASE UNCHANGED vars
    <2>1. UNCHANGED members /\ UNCHANGED damage /\ UNCHANGED pc
      BY <1>13 DEF vars, members
    <2> QED BY <1>9, <2>1 DEF Layout
  <1> QED BY <1>2, <1>3, <1>4, <1>5, <1>6, <1>7, <1>8, <1>9, <1>10, <1>11, <1>12, <1>13 DEF Next

LEMMA RowsNext == TypeInv /\ CacheSound /\ RowsSound /\ [Next]_vars => RowsSound'
  <1> SUFFICES ASSUME TypeInv, CacheSound, RowsSound, [Next]_vars, Walking', damage' = {}, NEW i \in TreeNode,
                      (i < NumDraftNodes \/ PrefixLoaded(DecodeKV))'
               PROVE  (logits[i] = context \o Text(draft_tree, i))'
    BY DEF RowsSound
  <1>1. CASE TreePass
    <2>1. UNCHANGED members /\ UNCHANGED <<damage, draft_tree>>
      BY <1>1 DEF TreePass
    <2>2. i < NumDraftNodes \/ PrefixLoaded(DecodeKV)
      BY <2>1, CacheKept
    <2>3. logits'[i] = context \o Text(draft_tree, i)
      BY <1>1, <2>1, <2>2, TreePassRows
    <2> QED BY <2>1, <2>3 DEF members, Text
  <1>2. CASE VerifyNode \/ VerifyDone \/ UNCHANGED vars
    <2>1. UNCHANGED members /\ UNCHANGED <<damage, draft_tree, logits>> /\ Walking
      BY <1>2 DEF VerifyNode, VerifyDone, vars, members, drafting, Walking
    <2>2. i < NumDraftNodes \/ PrefixLoaded(DecodeKV)
      BY <2>1, CacheKept
    <2>3. logits[i] = context \o Text(draft_tree, i)
      BY <2>1, <2>2 DEF RowsSound
    <2> QED BY <2>1, <2>3 DEF members, Text
  <1> QED BY <1>1, <1>2, OnlyWalks

LEMMA BasisNext == TypeInv /\ CacheSound /\ BasisSound /\ [Next]_vars => BasisSound'
  <1> SUFFICES ASSUME TypeInv, CacheSound, BasisSound, [Next]_vars, damage' = {}
               PROVE  /\ pc' = "prefill" /\ todo' = <<>> => basis' = context'
                      /\ Walking' => (basis = logits[Last(accepted_ids)])'
    BY DEF BasisSound
  <1>1. ASSUME pc' = "prefill", todo' = <<>> PROVE basis' = context'
    <2>1. CASE PrefillChunk
      BY <2>1, ChunkCache
    <2>2. CASE UNCHANGED vars
      BY <1>1, <2>2 DEF vars, BasisSound
    <2>3. ASSUME NEW prompt \in Prompts, NEW max \in MaxTokens, Generate(prompt, max) PROVE FALSE
      <3>1. todo' = prompt /\ prompt # <<>>
        BY <2>3, SSDAssumption DEF Generate
      <3> QED BY <1>1, <3>1
    <2>4. CASE ResetKVCache \/ FirstToken \/ InitialPass \/ Draft \/ LeaveLoop \/ TreePass
      BY <1>1, <2>4 DEF ResetKVCache, FirstToken, InitialPass, Draft, LeaveLoop, TreePass
    <2>5. CASE VerifyNode \/ VerifyDone \/ Commit \/ Restore \/ ExecuteFails \/ Unwind
      BY <1>1, <2>5, CommitOutput DEF VerifyNode, VerifyDone, Restore, ExecuteFails, Unwind, Leave
    <2> QED BY <2>1, <2>2, <2>3, <2>4, <2>5 DEF Next
  <1>2. ASSUME Walking' PROVE (basis = logits[Last(accepted_ids)])'
    <2>1. CASE TreePass
      <3>1. basis' = logits'[0] /\ accepted_ids' = <<0>>
        BY <2>1 DEF TreePass
      <3>2. Last(<<0>>) = 0
        BY DEF Last
      <3> QED BY <3>1, <3>2
    <2>2. CASE VerifyNode
      <3>1. /\ pc = "verify" /\ UNCHANGED <<logits, damage>> /\ accepted_ids \in Seq(DraftNode)
            /\ cur_idx \in DraftNode
        BY <2>2, TreeFacts DEF VerifyNode, VerifyEnd, TypeInv, Verdict, Walking, DraftNode
      <3>2. CASE Extends(cur_idx)
        <4>1. accepted_ids' = Append(accepted_ids, cur_idx) /\ basis' = logits[cur_idx]
          BY <2>2, <3>2 DEF VerifyNode
        <4>2. Last(Append(accepted_ids, cur_idx)) = cur_idx
          BY <3>1, AppendLast
        <4> QED BY <3>1, <4>1, <4>2
      <3>3. CASE ~ Extends(cur_idx)
        <4>1. UNCHANGED <<accepted_ids, basis>>
          BY <2>2, <3>3 DEF VerifyNode
        <4> QED BY <3>1, <4>1 DEF BasisSound, Walking
      <3> QED BY <3>2, <3>3
    <2>3. CASE VerifyDone \/ UNCHANGED vars
      BY <1>2, <2>3 DEF VerifyDone, vars, verdict, BasisSound, Walking
    <2> QED BY <1>2, <2>1, <2>2, <2>3, OnlyWalks
  <1> QED BY <1>1, <1>2

\* After a commit the rows from the next offset on stand for the new context and one, two,
\* ... forecast tokens.
LEMMA CommitRows ==
    ASSUME TypeInv, Path, CacheSound, RowsSound, Commit, damage = {}, PrefixLoaded(DecodeKV),
           NEW d \in 1 .. Levels
    PROVE  logits[NextOffset + d - 1] = context' \o Forecasts(d)
  <1> DEFINE m == Last(accepted_ids)
             u == Drafted(draft_tree, accepted_ids)
             f == Forecasts(d)
             row == ForecastRow(m, d)
  <1>1. /\ context \in Seq(Token) /\ draft_tree \in [DraftNode -> Token] /\ accepted_ids \in Seq(DraftNode)
        /\ accepted_ids # <<>> /\ Walking
    BY DEF TypeInv, Members, Rooted, Verdict, Walking, Commit
  <1>2. Len(accepted_ids) \in 1 .. Len(accepted_ids) /\ m = accepted_ids[Len(accepted_ids)]
    <2>1. Len(accepted_ids) \in Nat \ {0}
      BY <1>1, EmptySeq
    <2> QED BY <2>1 DEF Last
  <1>3. m \in DraftNode /\ Text(draft_tree, m) = u /\ u \in Seq(Token)
    <2>1. m \in DraftNode /\ Text(draft_tree, m) = SubSeq(u, 1, Len(accepted_ids))
      BY <1>1, <1>2, AcceptedRows
    <2>2. u \in Seq(Token) /\ Len(u) = Len(accepted_ids)
      BY <1>1, DraftedType
    <2> HIDE DEF u, m
    <2>3. SubSeq(u, 1, Len(accepted_ids)) = u
      BY <2>2, WholeSlice
    <2> QED BY <2>1, <2>2, <2>3
  <1>4. row \in TreeNode
    BY <1>1, <1>3, PassedFacts
  <1>5. NextOffset + d - 1 = row
    BY DEF NextOffset, ForecastRow
  <1>6. logits[row] = context \o Text(draft_tree, row)
    BY <1>1, <1>4 DEF RowsSound
  <1>7. Text(draft_tree, row) = u \o f
    BY <1>1, <1>3, ForecastText
  <1>8. context' = context \o u
    BY CommitText
  <1>9. f \in Seq(Int)
    <2>1. VocabSize \in Nat /\ d \in Nat
      BY VocabularyIsInt, GrownFacts
    <2>2. \A k \in 1 .. d : ForecastToken(k) \in Int
      BY <2>1 DEF ForecastToken
    <2> QED BY <2>1, <2>2 DEF Forecasts
  <1> DEFINE c == context
  <1>10. c \in Seq(Int) /\ u \in Seq(Int)
    BY <1>1, <1>3, TokensAreInts
  <1> HIDE DEF m, u, f, row, c
  <1>11. (c \o u) \o f = c \o (u \o f)
    BY SMTT(40), <1>9, <1>10, Associate
  <1> QED BY <1>5, <1>6, <1>7, <1>8, <1>11 DEF c, f

LEMMA OffsetNext ==
    TypeInv /\ Path /\ CacheSound /\ RowsSound /\ OffsetSound /\ [Next]_vars => OffsetSound'
  <1> SUFFICES ASSUME TypeInv, Path, CacheSound, RowsSound, OffsetSound, [Next]_vars,
                      pc' = "draft", damage' = {}, PrefixLoaded(DecodeKV)', NEW d \in 1 .. Sound'
               PROVE  logits'[offset' + d - 1] = context' \o Forecasts(d)
    BY DEF OffsetSound
  <1>1. CASE InitialPass
    <2>1. /\ step' = step /\ step = 0 /\ offset' = 1 /\ context' = Append(context, root)
      BY <1>1 DEF InitialPass, TypeInv, Locals
    <2>2. d = 1
      BY <2>1 DEF Sound
    <2>3. PrefixLoaded(DecodeKV) /\ damage = {}
      BY <1>1, InitialCache
    <2>4. logits'[1] = Append(context, root) \o Forecasts(1)
      BY <1>1, <2>3, InitialRows
    <2> QED BY <2>1, <2>2, <2>4
  <1>2. CASE Commit
    <2>1. /\ step' = step + 1 /\ offset' = NextOffset /\ logits' = logits /\ step \in Nat
      BY <1>2, CommitEmits DEF Commit, TypeInv, Locals
    <2>2. d \in 1 .. Levels
      BY <2>1 DEF Sound
    <2>3. PrefixLoaded(DecodeKV) /\ damage = {}
      BY <1>2, CommitCache
    <2>4. logits[NextOffset + d - 1] = context' \o Forecasts(d)
      BY <1>2, <2>2, <2>3, CommitRows
    <2> QED BY <2>1, <2>4
  <1>3. CASE UNCHANGED vars
    <2>1. UNCHANGED members /\ UNCHANGED <<pc, damage, step, offset, logits, context>>
      BY <1>3 DEF vars, members
    <2>2. PrefixLoaded(DecodeKV) /\ d \in 1 .. Sound
      BY <2>1, CacheKept DEF Sound
    <2> QED BY <2>1, <2>2 DEF OffsetSound
  <1>4. CASE Draft \/ TreePass \/ VerifyNode \/ VerifyDone
    BY <1>4 DEF Draft, TreePass, VerifyNode, VerifyDone
  <1> QED BY <1>1, <1>2, <1>3, <1>4, OnlyLoops

\* Each level of a tree was drafted from the row of its forecast token.
DraftsSound ==
    pc = "loop" /\ damage = {} /\ PrefixLoaded(DecodeKV) =>
      \A d \in 1 .. Sound : drafts[d] = context \o Forecasts(d)

LEMMA DraftsNext == TypeInv /\ OffsetSound /\ DraftsSound /\ [Next]_vars => DraftsSound'
  <1> SUFFICES ASSUME TypeInv, OffsetSound, DraftsSound, [Next]_vars,
                      pc' = "loop", damage' = {}, PrefixLoaded(DecodeKV)', NEW d \in 1 .. Sound'
               PROVE  drafts'[d] = context' \o Forecasts(d)
    BY DEF DraftsSound
  <1>1. CASE Draft
    <2>1. /\ UNCHANGED members /\ UNCHANGED <<damage, step>> /\ pc = "draft"
          /\ drafts' = [e \in 1 .. Levels |-> logits[offset + e - 1]]
      BY <1>1 DEF Draft
    <2>2. PrefixLoaded(DecodeKV) /\ d \in 1 .. Sound
      BY <2>1, CacheKept DEF Sound
    <2>3. logits[offset + d - 1] = context \o Forecasts(d)
      BY <2>1, <2>2 DEF OffsetSound
    <2>4. d \in 1 .. Levels
      BY <2>2, GrownFacts DEF Sound
    <2> QED BY <2>1, <2>3, <2>4 DEF members
  <1>2. CASE UNCHANGED vars
    <2>1. UNCHANGED members /\ UNCHANGED <<pc, damage, step, drafts, context>>
      BY <1>2 DEF vars, members
    <2>2. PrefixLoaded(DecodeKV) /\ d \in 1 .. Sound
      BY <2>1, CacheKept DEF Sound
    <2> QED BY <2>1, <2>2 DEF DraftsSound
  <1>3. CASE InitialPass \/ TreePass \/ VerifyNode \/ VerifyDone \/ Commit
    BY <1>3, CommitOutput DEF InitialPass, TreePass, VerifyNode, VerifyDone
  <1> QED BY <1>1, <1>2, <1>3, OnlyLoops

LEMMA ContentInvariant == Spec => [](CacheSound /\ RowsSound /\ BasisSound /\ OffsetSound /\ DraftsSound)
  <1> DEFINE Content == CacheSound /\ RowsSound /\ BasisSound /\ OffsetSound /\ DraftsSound
  <1>1. Init => Content
    <2> SUFFICES ASSUME Init PROVE Content
      OBVIOUS
    <2>1. n_past = ForecastPrefix /\ context = <<>> /\ pc = "idle"
      BY DEF Init
    <2>2. CacheHolds(PrefillKV)
      BY <2>1, StrideFacts DEF CacheHolds
    <2> QED BY <2>1, <2>2, StrideFacts
            DEF CacheSound, RowsSound, BasisSound, OffsetSound, DraftsSound, Layout, Walking
  <1>2. TypeInv /\ Path /\ Content /\ [Next]_vars => Content'
    BY CacheNext, RowsNext, BasisNext, OffsetNext, DraftsNext
  <1> QED BY <1>1, <1>2, TypeInvariant, PathInvariant, PTL DEF Spec

\* generate(), updateKV, selectiveKVUpdate and reshapeKV: for any tree, prompts and
\* failures, the undamaged cache holds exactly the accepted text in the layout of the
\* phase, and only contexts beyond the prefill layout overrun or cut its rows.
THEOREM CacheHoldsTheAcceptedText == Spec => []CacheMirrorsContext
  <1>1. DamageFar /\ CacheSound => CacheMirrorsContext
    <2> SUFFICES ASSUME DamageFar, CacheSound PROVE CacheMirrorsContext
      OBVIOUS
    <2>1. CASE pc \in {"idle", "prefill"}
      BY <2>1 DEF DamageFar, CacheSound, CacheMirrorsContext, Layout
    <2>2. CASE pc \notin {"idle", "prefill"}
      BY <2>2 DEF DamageFar, CacheSound, CacheMirrorsContext, Layout
    <2> QED BY <2>1, <2>2
  <1> QED BY <1>1, DamageInvariant, ContentInvariant, PTL

\* generate() and verifyDraftTree: every accepted token is the network's choice after
\* exactly the cached text, the root and the tokens this walk accepted before it, whatever
\* the tree had drafted beside them and whether or not the forecast prefix was loaded.  The
\* cached text repeats the first token, so this is not serial decoding of the output.
THEOREM ChoicesFollowTheCachedText == Spec => []SampledFromContext
  <1>1. TypeInv /\ Path /\ Agreed /\ RowsSound /\ BasisSound => SampledFromContext
    <2> SUFFICES ASSUME TypeInv, Path, Agreed, RowsSound, BasisSound, damage = {}, Walking
                 PROVE  basis = Append(context, root) \o SubSeq(accepted_tokens, 1, Len(accepted_tokens) - 1)
      BY DEF SampledFromContext, BasisSound, Walking
    <2> DEFINE u == Drafted(draft_tree, accepted_ids)
               f == Front(accepted_tokens)
               r == <<root>>
               n == Len(accepted_ids)
    <2>1. /\ context \in Seq(Token) /\ root \in Token /\ draft_tree \in [DraftNode -> Token]
          /\ accepted_ids \in Seq(DraftNode) /\ accepted_ids # <<>>
          /\ accepted_tokens \in Seq(Token) /\ accepted_tokens # <<>>
      BY DEF TypeInv, Members, Locals, Rooted, Verdict
    <2>2. n \in 1 .. n
      BY <2>1, EmptySeq
    <2>3. basis = logits[accepted_ids[n]]
      BY DEF BasisSound, Last
    <2>4. logits[accepted_ids[n]] = context \o SubSeq(u, 1, n)
      BY <2>2, AcceptedRows
    <2>5. u \in Seq(Token) /\ Len(u) = n
      BY <2>1, DraftedType
    <2>6. u = r \o f
      BY DEF Agreed
    <2>7. f = SubSeq(accepted_tokens, 1, Len(accepted_tokens) - 1)
      BY DEF Front
    <2>8. f \in Seq(Token)
      <3>1. accepted_tokens \in Seq(Token) /\ accepted_tokens # <<>>
        BY <2>1
      <3> HIDE DEF u, n, r
      <3> QED BY <3>1, FrontLast
    <2>9. context \in Seq(Token) /\ root \in Token
      BY <2>1
    <2>10. r \in Seq(Token)
      BY <2>9
    <2>11. Append(context, root) = context \o r
      <3> HIDE DEF u, f, n
      <3> QED BY <2>9
    <2>12. context \in Seq(Token) /\ r \in Seq(Token) /\ f \in Seq(Token)
      BY <2>8, <2>9, <2>10
    <2> HIDE DEF u, f, r, n
    <2>13. SubSeq(u, 1, n) = u
      BY <2>5, WholeSlice
    <2>14. (context \o r) \o f = context \o (r \o f)
      BY <2>12, Associate
    <2> QED BY <2>3, <2>4, <2>6, <2>7, <2>11, <2>13, <2>14
  <1> QED BY <1>1, TypeInvariant, PathInvariant, AgreedInvariant, ContentInvariant, PTL

\* generate(): with the forecast prefix loaded, every level of every tree is drafted from
\* the logits of its forecast token behind the cached text, however the trees before it
\* were accepted; of the first tree only the first level is.
THEOREM DraftsComeFromForecasts == Spec => []DraftsFollowContext
  <1>1. DraftsSound => DraftsFollowContext
    BY DEF DraftsSound, DraftsFollowContext, Sound, Forecasts
  <1> QED BY <1>1, ContentInvariant, PTL
=============================================================================
