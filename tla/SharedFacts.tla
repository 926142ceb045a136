----------------------------- MODULE SharedFacts ----------------------------
(***************************************************************************)
(* Facts about numbers, sequences, strided buffers and the sliding window  *)
(* that the proofs of several components cite.  Induction and definition   *)
(* by recursion are stated over sets and functions, so that they can be    *)
(* used without naming an operator.                                        *)
(***************************************************************************)
EXTENDS KVBuffer, SlidingWindow, SequencesExt, SequenceTheorems, FiniteSetTheorems, WellFoundedInduction, TLAPS

\* A slice of a sequence.
LEMMA Slice ==
    ASSUME NEW S, NEW s \in Seq(S), NEW m \in Nat \ {0}, NEW n \in Nat, n <= Len(s)
    PROVE  /\ SubSeq(s, m, n) \in Seq(S)
           /\ Len(SubSeq(s, m, n)) = IF m <= n THEN n - m + 1 ELSE 0
           /\ \A i \in 1 .. n - m + 1 : SubSeq(s, m, n)[i] = s[m + i - 1]
  <1>1. \A i \in m .. n : s[i] \in S
    OBVIOUS
  <1> QED BY <1>1, SubSeqProperties

\* A sequence without its first elements.
LEMMA Behind ==
    ASSUME NEW S, NEW s \in Seq(S), NEW k \in 0 .. Len(s)
    PROVE  /\ SubSeq(s, k + 1, Len(s)) \in Seq(S)
           /\ Len(SubSeq(s, k + 1, Len(s))) = Len(s) - k
           /\ \A i \in 1 .. Len(s) - k : SubSeq(s, k + 1, Len(s))[i] = s[k + i]
  <1>1. k + 1 \in Nat \ {0} /\ Len(s) \in Nat /\ Len(s) <= Len(s)
    OBVIOUS
  <1>2. /\ SubSeq(s, k + 1, Len(s)) \in Seq(S)
        /\ Len(SubSeq(s, k + 1, Len(s))) = IF k + 1 <= Len(s) THEN Len(s) - (k + 1) + 1 ELSE 0
        /\ \A i \in 1 .. Len(s) - (k + 1) + 1 : SubSeq(s, k + 1, Len(s))[i] = s[(k + 1) + i - 1]
    BY <1>1, Slice
  <1> QED BY <1>2

\* A sequence that has been appended to.
LEMMA AppendLast ==
    ASSUME NEW S, NEW s \in Seq(S), NEW e \in S
    PROVE  /\ Append(s, e) \in Seq(S) /\ Append(s, e) # <<>> /\ Len(Append(s, e)) = Len(s) + 1
           /\ Last(Append(s, e)) = e
  BY DEF Last

\* computeSlideDiscard never discards more than what lies above the anchor.
LEMMA DiscardBounds ==
    ASSUME NEW past \in Nat, NEW n_fit \in Nat, NEW max \in Nat, NEW keep \in Nat,
           ComputeSlideDiscard(past, n_fit, max, keep) > 0
    PROVE  /\ keep < past
           /\ ComputeSlideDiscard(past, n_fit, max, keep) \in 1 .. past - keep
  <1>1. past \div 2 \in Nat
    OBVIOUS
  <1> QED BY <1>1 DEF ComputeSlideDiscard, Max2, Min2

-----------------------------------------------------------------------------
(* Induction and recursion.                                                *)

\* The order of the natural numbers.
Below == OpToRel(<, Nat)

\* A set that has 0, and the successor of every number it has, has every number.
LEMMA Induction ==
    ASSUME NEW S, 0 \in S, \A n \in Nat : n \in S => n + 1 \in S
    PROVE  Nat \subseteq S
  <1> DEFINE T == Nat \ S
  <1>1. SUFFICES ASSUME T # {} PROVE FALSE  OBVIOUS
  <1>2. PICK n \in T : \A m \in T : ~ (<<m, n>> \in Below)
    <2>1. IsWellFoundedOn(Below, Nat)
      BY NatLessThanWellFounded, Zenon DEF Below
    <2>2. T \subseteq Nat
      OBVIOUS
    <2> HIDE DEF T
    <2> QED BY <1>1, <2>1, <2>2, WFMin
  <1>3. ASSUME NEW m \in T, m < n PROVE FALSE
    <2>1. <<m, n>> \in {p \in Nat \X Nat : p[1] < p[2]}
      BY <1>3
    <2>2. <<m, n>> \in Below
      BY <2>1, Zenon DEF Below, OpToRel
    <2> QED BY <1>2, <2>2
  <1>4. n # 0 /\ n - 1 \in Nat
    OBVIOUS
  <1>5. n - 1 \in S
    BY <1>3, <1>4
  <1> QED BY <1>4, <1>5

\* The same from all smaller numbers.
LEMMA StrongInduction ==
    ASSUME NEW S, \A n \in Nat : (\A m \in 0 .. n - 1 : m \in S) => n \in S
    PROVE  Nat \subseteq S
  <1> DEFINE T == {n \in Nat : \A m \in 0 .. n : m \in S}
  <1>1. 0 \in T
    <2>1. \A m \in 0 .. 0 - 1 : m \in S
      OBVIOUS
    <2>2. 0 \in S
      BY <2>1
    <2> QED BY <2>2
  <1>2. ASSUME NEW n \in Nat, n \in T PROVE n + 1 \in T
    <2>1. \A m \in 0 .. (n + 1) - 1 : m \in S
      BY <1>2
    <2>2. n + 1 \in S
      BY <2>1
    <2> QED BY <1>2, <2>2
  <1> HIDE DEF T
  <1>3. Nat \subseteq T
    BY <1>1, <1>2, Induction
  <1> QED BY <1>3 DEF T

\* f begins with base, and each further value up to n follows from the last by step.
Iterates(f, S, base, step, n) ==
    f \in [0 .. n -> S] /\ f[0] = base /\ \A i \in 1 .. n : f[i] = step[i][f[i - 1]]

Steps(S) == [Nat -> [S -> S]]

\* There is such a function.
LEMMA Recursion ==
    ASSUME NEW S, NEW base \in S, NEW step \in Steps(S), NEW n \in Nat
    PROVE  \E f : Iterates(f, S, base, step, n)
  <1> DEFINE Good == {m \in Nat : \E f : Iterates(f, S, base, step, m)}
  <1>1. 0 \in Good
    <2> DEFINE f == [i \in 0 .. 0 |-> base]
    <2>1. Iterates(f, S, base, step, 0)
      BY DEF Iterates
    <2> QED BY <2>1
  <1>2. ASSUME NEW m \in Nat, m \in Good PROVE m + 1 \in Good
    <2>1. PICK f : Iterates(f, S, base, step, m)
      BY <1>2
    <2> DEFINE g == [i \in 0 .. m + 1 |-> IF i <= m THEN f[i] ELSE step[m + 1][f[m]]]
    <2>2. step[m + 1] \in [S -> S] /\ f[m] \in S /\ f \in [0 .. m -> S]
      BY <2>1 DEF Iterates, Steps
    <2>3. g \in [0 .. m + 1 -> S]
      BY <2>2
    <2>4. g[0] = base
      BY <2>1 DEF Iterates
    <2>5. ASSUME NEW i \in 1 .. m + 1 PROVE g[i] = step[i][g[i - 1]]
      <3>1. CASE i <= m
        <4>1. g[i] = f[i] /\ g[i - 1] = f[i - 1] /\ f[i] = step[i][f[i - 1]]
          BY <2>1, <3>1 DEF Iterates
        <4> QED BY <4>1
      <3>2. CASE i = m + 1
        <4>1. g[m + 1] = step[m + 1][f[m]] /\ g[m] = f[m] /\ (m + 1) - 1 = m
          OBVIOUS
        <4> QED BY <3>2, <4>1
      <3> QED BY <3>1, <3>2
    <2> HIDE DEF g
    <2>6. Iterates(g, S, base, step, m + 1)
      BY <2>3, <2>4, <2>5 DEF Iterates
    <2> QED BY <2>6
  <1> HIDE DEF Good
  <1>3. n \in Good
    BY <1>1, <1>2, Induction
  <1> QED BY <1>3 DEF Good
-----------------------------------------------------------------------------
(* Flattened sequences of sequences.                                       *)

\* The flattenings of the prefixes of s.
Flattenings(T, s, F) ==
    /\ F \in [0 .. Len(s) -> Seq(T)]
    /\ F[0] = <<>>
    /\ \A i \in 1 .. Len(s) : F[i] = F[i - 1] \o s[i]

\* There are such flattenings.
LEMMA FlatteningsExist ==
    ASSUME NEW T, NEW s \in Seq(Seq(T))
    PROVE  \E F : Flattenings(T, s, F)
  <1> DEFINE n == Len(s)
             step == [i \in Nat |-> [x \in Seq(T) |-> IF i \in 1 .. n THEN x \o s[i] ELSE x]]
  <1>1. \A i \in 1 .. n : s[i] \in Seq(T)
    OBVIOUS
  <1>2. ASSUME NEW i \in Nat, NEW x \in Seq(T)
        PROVE  (IF i \in 1 .. n THEN x \o s[i] ELSE x) \in Seq(T)
    BY <1>1, ConcatProperties
  <1>3. step \in Steps(Seq(T))
    BY <1>2 DEF Steps
  <1>4. <<>> \in Seq(T) /\ n \in Nat
    OBVIOUS
  <1>5. \A i \in 1 .. n, x \in Seq(T) : step[i][x] = x \o s[i]
    OBVIOUS
  <1> HIDE DEF step, n
  <1>6. PICK F : Iterates(F, Seq(T), <<>>, step, n)
    BY <1>3, <1>4, Recursion
  <1>7. ASSUME NEW i \in 1 .. n PROVE F[i] = F[i - 1] \o s[i]
    <2>1. i - 1 \in 0 .. n
      BY <1>4
    <2> QED BY <1>5, <1>6, <2>1 DEF Iterates
  <1> QED BY <1>6, <1>7 DEF Flattenings, Iterates, n

\* FlattenSeq is the last of them.
LEMMA FlattenIsLast ==
    ASSUME NEW T, NEW s \in Seq(Seq(T)), NEW F, Flattenings(T, s, F)
    PROVE  FlattenSeq(s) = F[Len(s)]
  <1> DEFINE n == Len(s)
             Is(f) == f = [i \in 1 .. n |-> IF i = 1 THEN s[i] ELSE f[i - 1] \o s[i]]
             flatten == CHOOSE f : Is(f)
             g == [i \in 1 .. n |-> F[i]]
  <1>1. n \in Nat /\ \A i \in 1 .. n : s[i] \in Seq(T)
    OBVIOUS
  <1>2. /\ F \in [0 .. n -> Seq(T)] /\ F[0] = <<>>
        /\ \A i \in 1 .. n : F[i] = F[i - 1] \o s[i]
    BY DEF Flattenings
  <1>3. CASE n = 0
    BY <1>2, <1>3 DEF FlattenSeq
  <1>4. CASE n > 0
    <2>1. F[1] = s[1]
      <3>1. s[1] \in Seq(T) /\ F[1] = <<>> \o s[1]
        <4> HIDE DEF n
        <4>1. 1 \in 1 .. n /\ 1 - 1 = 0
          BY <1>1, <1>4
        <4>2. F[1] = F[1 - 1] \o s[1]
          BY <1>2, <4>1
        <4> QED BY <1>1, <1>2, <4>1, <4>2
      <3> QED BY <3>1, ConcatEmptySeq
    <2>2. ASSUME NEW i \in 1 .. n PROVE g[i] = IF i = 1 THEN s[i] ELSE g[i - 1] \o s[i]
      <3> HIDE DEF n
      <3>1. CASE i = 1
        BY <2>1, <3>1
      <3>2. CASE i # 1
        <4>1. i - 1 \in 1 .. n
          BY <1>1, <3>2
        <4>2. g[i] = F[i] /\ g[i - 1] = F[i - 1]
          BY <4>1
        <4> QED BY <1>2, <3>2, <4>2
      <3> QED BY <3>1, <3>2
    <2>3. Is(g)
      BY <2>2
    <2>4. Is(flatten)
      <3> HIDE DEF Is, g
      <3> QED BY <2>3
    <2>5. \A i \in 1 .. n : flatten[i] = IF i = 1 THEN s[i] ELSE flatten[i - 1] \o s[i]
      <3> HIDE DEF flatten
      <3> QED BY <2>4
    <2>6. FlattenSeq(s) = flatten[n]
      BY <1>4 DEF FlattenSeq
    <2> HIDE DEF flatten, Is, g
    <2> DEFINE S == {m \in Nat : \A i \in 1 .. n : i <= m => flatten[i] = F[i]}
    <2>7. 0 \in S
      OBVIOUS
    <2>8. ASSUME NEW m \in Nat, m \in S PROVE m + 1 \in S
      <3>1. ASSUME NEW i \in 1 .. n, i = m + 1 PROVE flatten[i] = F[i]
        <4>1. CASE i = 1
          BY <2>1, <2>5, <4>1
        <4>2. CASE i # 1
          <5>1. i - 1 \in 1 .. n /\ i - 1 <= m
            BY <3>1, <4>2
          <5>2. flatten[i - 1] = F[i - 1]
            BY <2>8, <5>1
          <5> QED BY ZenonT(40), <1>2, <2>5, <4>2, <5>2
        <4> QED BY <4>1, <4>2
      <3> QED BY <2>8, <3>1
    <2> HIDE DEF S
    <2>9. n \in S
      BY <1>1, <2>7, <2>8, Induction
    <2>10. flatten[n] = F[n]
      BY <1>1, <1>4, <2>9 DEF S
    <2> QED BY <2>6, <2>10
  <1> QED BY <1>1, <1>3, <1>4

\* What FlattenSeq returns.
LEMMA FlattenType ==
    ASSUME NEW T, NEW s \in Seq(Seq(T))
    PROVE  FlattenSeq(s) \in Seq(T)
  <1>1. PICK F : Flattenings(T, s, F)
    BY FlatteningsExist
  <1>2. F[Len(s)] \in Seq(T)
    BY SMTT(40), <1>1 DEF Flattenings
  <1> QED BY <1>1, <1>2, FlattenIsLast

\* One more sequence goes to the end.
LEMMA FlattenAppend ==
    ASSUME NEW T, NEW s \in Seq(Seq(T)), NEW x \in Seq(T)
    PROVE  FlattenSeq(Append(s, x)) = FlattenSeq(s) \o x
  <1> DEFINE t == Append(s, x)
             n == Len(s)
  <1>1. /\ t \in Seq(Seq(T)) /\ Len(t) = n + 1 /\ n \in Nat
        /\ t[n + 1] = x /\ \A i \in 1 .. n : t[i] = s[i]
    BY AppendProperties
  <1> HIDE DEF t
  <1>2. PICK F : Flattenings(T, t, F)
    BY <1>1, FlatteningsExist
  <1> DEFINE G == [i \in 0 .. n |-> F[i]]
  <1>3. /\ F \in [0 .. n + 1 -> Seq(T)] /\ F[0] = <<>>
        /\ \A i \in 1 .. n + 1 : F[i] = F[i - 1] \o t[i]
    BY <1>1, <1>2 DEF Flattenings
  <1>4. G \in [0 .. n -> Seq(T)] /\ G[0] = <<>> /\ G[n] = F[n]
    BY <1>1, <1>3
  <1>5. ASSUME NEW i \in 1 .. n PROVE G[i] = G[i - 1] \o s[i]
    <2> HIDE DEF n
    <2>0. i \in 1 .. n + 1 /\ i - 1 \in 0 .. n /\ i \in 0 .. n
      BY <1>1
    <2>1. G[i] = F[i] /\ G[i - 1] = F[i - 1] /\ t[i] = s[i] /\ F[i] = F[i - 1] \o t[i]
      BY <1>1, <1>3, <2>0
    <2> QED BY <2>1
  <1>6. Flattenings(T, s, G)
    BY <1>4, <1>5 DEF Flattenings
  <1>7. FlattenSeq(s) = F[n]
    BY <1>4, <1>6, FlattenIsLast
  <1>8. FlattenSeq(t) = F[n + 1] /\ F[n + 1] = F[n] \o x
    <2>1. n + 1 \in 1 .. n + 1 /\ (n + 1) - 1 = n
      BY <1>1
    <2> QED BY <1>1, <1>2, <1>3, <2>1, FlattenIsLast
  <1> QED BY <1>7, <1>8 DEF t

\* Nothing flattens to nothing.
LEMMA FlattenEmpty == FlattenSeq(<<>>) = <<>>
  BY DEF FlattenSeq
-----------------------------------------------------------------------------
(* Counting the members of a set in the order of the numbers, and the      *)
(* sequence that a loop pushes one element to for each of them.            *)

Count(K, m) == Cardinality({k \in 1 .. m : k \in K})

LEMMA CountFacts ==
    ASSUME NEW K, NEW m \in Nat
    PROVE  /\ Count(K, m) \in 0 .. m
           /\ Count(K, 0) = 0
           /\ Count(K, m + 1) = Count(K, m) + (IF m + 1 \in K THEN 1 ELSE 0)
  <1> DEFINE C == {k \in 1 .. m : k \in K}
             D == {k \in 1 .. m + 1 : k \in K}
  <1>1. IsFiniteSet(1 .. m) /\ Cardinality(1 .. m) = m
    BY FS_Interval
  <1>2. C \in SUBSET (1 .. m)
    OBVIOUS
  <1>3. IsFiniteSet(C) /\ Cardinality(C) <= m
    <2> HIDE DEF C
    <2> QED BY ZenonT(40), <1>1, <1>2, FS_Subset
  <1>4. Cardinality(C) \in Nat
    <2> HIDE DEF C
    <2> QED BY <1>3, FS_CardinalityType
  <1>5. Count(K, 0) = 0
    <2>1. {k \in 1 .. 0 : k \in K} = {}
      OBVIOUS
    <2> QED BY <2>1, FS_EmptySet DEF Count
  <1>6. Cardinality(D) = Cardinality(C) + (IF m + 1 \in K THEN 1 ELSE 0)
    <2>1. CASE m + 1 \in K
      <3>1. D = C \cup {m + 1} /\ m + 1 \notin C
        BY <2>1
      <3> HIDE DEF C, D
      <3> QED BY <1>3, <2>1, <3>1, FS_AddElement
    <2>2. CASE m + 1 \notin K
      <3>1. D = C
        BY <2>2
      <3> HIDE DEF C, D
      <3> QED BY <1>4, <2>2, <3>1
    <2> QED BY <2>1, <2>2
  <1> QED BY <1>3, <1>4, <1>5, <1>6 DEF Count

LEMMA CountMonotone ==
    ASSUME NEW K, NEW m \in Nat, NEW n \in Nat, m <= n
    PROVE  Count(K, m) <= Count(K, n)
  <1> DEFINE C == {k \in 1 .. m : k \in K}
             D == {k \in 1 .. n : k \in K}
  <1>1. IsFiniteSet(1 .. n) /\ D \in SUBSET (1 .. n) /\ C \in SUBSET D
    BY FS_Interval
  <1>2. IsFiniteSet(D)
    <2> HIDE DEF D
    <2> QED BY <1>1, FS_Subset
  <1>3. Cardinality(C) <= Cardinality(D)
    <2> HIDE DEF C, D
    <2> QED BY <1>1, <1>2, FS_Subset
  <1> QED BY <1>3 DEF Count

\* A member is counted.
LEMMA CountMember ==
    ASSUME NEW K, NEW k \in Nat \ {0}, k \in K
    PROVE  Count(K, k) = Count(K, k - 1) + 1 /\ Count(K, k) \in Nat \ {0}
  <1>1. k - 1 \in Nat /\ (k - 1) + 1 = k
    OBVIOUS
  <1>2. Count(K, k - 1) \in 0 .. k - 1 /\ Count(K, (k - 1) + 1) = Count(K, k - 1) + (IF (k - 1) + 1 \in K THEN 1 ELSE 0)
    BY <1>1, CountFacts
  <1> QED BY <1>1, <1>2

\* What is pushed for the members of K, of the first n numbers.
PushOrNot(v, K, n) == [k \in 1 .. n |-> IF k \in K THEN <<v[k]>> ELSE <<>>]
Pushed(v, K, n) == FlattenSeq(PushOrNot(v, K, n))

PushedInOrder(T, v, K, n) ==
    /\ Pushed(v, K, n) \in Seq(T) /\ Len(Pushed(v, K, n)) = Count(K, n)
    /\ \A k \in 1 .. n : k \in K => /\ Count(K, k) \in 1 .. Count(K, n)
                                    /\ Pushed(v, K, n)[Count(K, k)] = v[k]
    /\ \A q \in 1 .. Count(K, n) : \E k \in 1 .. n : k \in K /\ Count(K, k) = q

LEMMA PushedFacts ==
    ASSUME NEW T, NEW N \in Nat, NEW v, NEW K, \A k \in 1 .. N : k \in K => v[k] \in T
    PROVE  PushedInOrder(T, v, K, N)
  <1> DEFINE Good == {n \in Nat : n <= N => PushedInOrder(T, v, K, n)}
  <1>1. 0 \in Good
    <2>1. PushOrNot(v, K, 0) = <<>>
      BY DEF PushOrNot
    <2>2. Pushed(v, K, 0) = <<>> /\ Count(K, 0) = 0
      BY <2>1, FlattenEmpty, CountFacts DEF Pushed
    <2>3. PushedInOrder(T, v, K, 0)
      <3> DEFINE p == Pushed(v, K, 0)
                 c == Count(K, 0)
      <3>1. p = <<>> /\ c = 0
        BY <2>2
      <3> HIDE DEF p, c
      <3>2. p \in Seq(T) /\ Len(p) = c /\ 1 .. c = {}
        BY <3>1
      <3> QED BY <3>2 DEF PushedInOrder, p, c
    <2> QED BY <2>3
  <1>2. ASSUME NEW n \in Nat, n \in Good PROVE n + 1 \in Good
    <2> SUFFICES ASSUME n + 1 <= N PROVE PushedInOrder(T, v, K, n + 1)
      OBVIOUS
    <2> DEFINE last == IF n + 1 \in K THEN <<v[n + 1]>> ELSE <<>>
               c == Count(K, n)
               p == Pushed(v, K, n)
               q == Pushed(v, K, n + 1)
    <2>1. PushedInOrder(T, v, K, n)
      BY <1>2
    <2>2. last \in Seq(T)
      OBVIOUS
    <2>3. PushOrNot(v, K, n) \in Seq(Seq(T))
      <3>1. \A k \in 1 .. n : (IF k \in K THEN <<v[k]>> ELSE <<>>) \in Seq(T)
        OBVIOUS
      <3> QED BY <3>1 DEF PushOrNot
    <2>4. PushOrNot(v, K, n + 1) = Append(PushOrNot(v, K, n), last)
      <3> DEFINE a == PushOrNot(v, K, n)
             b == PushOrNot(v, K, n + 1)
             d == Append(a, last)
      <3>1. a \in Seq(Seq(T)) /\ Len(a) = n
        BY <2>3 DEF PushOrNot
      <3>2. /\ b = [k \in 1 .. n + 1 |-> b[k]] /\ b[n + 1] = last
            /\ \A k \in 1 .. n : b[k] = a[k]
        BY DEF PushOrNot
      <3> HIDE DEF a, b, last
      <3>3. d \in Seq(Seq(T)) /\ Len(d) = n + 1 /\ d[n + 1] = last /\ \A k \in 1 .. n : d[k] = a[k]
        BY <3>1, <2>2, AppendProperties
      <3> HIDE DEF d
      <3>4. d = [k \in 1 .. n + 1 |-> d[k]]
        BY <3>3
      <3>5. ASSUME NEW k \in 1 .. n + 1 PROVE d[k] = b[k]
        <4>1. CASE k = n + 1
          BY <3>2, <3>3, <4>1
        <4>2. CASE k # n + 1
          <5>1. k \in 1 .. n
            BY <4>2
          <5> QED BY <3>2, <3>3, <5>1
        <4> QED BY <4>1, <4>2
      <3>6. [k \in 1 .. n + 1 |-> d[k]] = [k \in 1 .. n + 1 |-> b[k]]
        BY <3>5
      <3>7. b = d
        BY <3>2, <3>4, <3>6
      <3> QED BY <3>7 DEF a, b, d
    <2>5. q = p \o last
      <3> HIDE DEF last
      <3> QED BY <2>2, <2>3, <2>4, FlattenAppend DEF Pushed
    <2>6. /\ c \in Nat /\ Count(K, n + 1) = c + (IF n + 1 \in K THEN 1 ELSE 0)
          /\ p \in Seq(T) /\ Len(p) = c
      BY <2>1, CountFacts DEF PushedInOrder
    <2>7. CASE n + 1 \in K
      <3>1. v[n + 1] \in T /\ q = p \o <<v[n + 1]>> /\ Count(K, n + 1) = c + 1
        BY <2>5, <2>6, <2>7
      <3> HIDE DEF q, p, c
      <3>2. q \in Seq(T) /\ Len(q) = c + 1 /\ q[c + 1] = v[n + 1] /\ \A i \in 1 .. c : q[i] = p[i]
        BY <2>6, <3>1
      <3>3. ASSUME NEW k \in 1 .. n + 1, k \in K
            PROVE  Count(K, k) \in 1 .. c + 1 /\ q[Count(K, k)] = v[k]
        <4>1. CASE k = n + 1
          BY <2>6, <3>1, <3>2, <4>1
        <4>2. CASE k # n + 1
          <5>1. k \in 1 .. n
            BY <4>2
          <5>2. Count(K, k) \in 1 .. c /\ p[Count(K, k)] = v[k]
            BY <2>1, <3>3, <5>1 DEF PushedInOrder, p, c
          <5> QED BY <2>6, <3>2, <5>2
        <4> QED BY <4>1, <4>2
      <3>4. ASSUME NEW i \in 1 .. c + 1 PROVE \E k \in 1 .. n + 1 : k \in K /\ Count(K, k) = i
        <4>1. CASE i = c + 1
          BY <2>7, <3>1, <4>1
        <4>2. CASE i # c + 1
          <5>1. i \in 1 .. c
            BY <2>6, <4>2
          <5>2. PICK k \in 1 .. n : k \in K /\ Count(K, k) = i
            BY <2>1, <5>1 DEF PushedInOrder, c
          <5> QED BY <5>2
        <4> QED BY <4>1, <4>2
      <3> QED BY <3>1, <3>2, <3>3, <3>4 DEF PushedInOrder, q
    <2>8. CASE n + 1 \notin K
      <3>1. Count(K, n + 1) = c
        BY <2>6, <2>8
      <3>2. q = p
        <4>1. q = p \o <<>>
          BY <2>5, <2>8
        <4> HIDE DEF q, p
        <4> QED BY <2>6, <4>1, ConcatEmptySeq
      <3> HIDE DEF q, p, c
      <3>3. ASSUME NEW k \in 1 .. n + 1, k \in K
            PROVE  Count(K, k) \in 1 .. c /\ q[Count(K, k)] = v[k]
        <4>1. k \in 1 .. n
          BY <2>8, <3>3
        <4> QED BY <2>1, <3>2, <3>3, <4>1 DEF PushedInOrder, p, c
      <3>4. ASSUME NEW i \in 1 .. c PROVE \E k \in 1 .. n + 1 : k \in K /\ Count(K, k) = i
        <4>1. PICK k \in 1 .. n : k \in K /\ Count(K, k) = i
          BY <2>1 DEF PushedInOrder, c
        <4> QED BY <4>1
      <3> QED BY <2>6, <3>1, <3>2, <3>3, <3>4 DEF PushedInOrder, q
    <2> QED BY <2>7, <2>8
  <1> HIDE DEF Good
  <1>3. N \in Good
    BY <1>1, <1>2, Induction
  <1> QED BY <1>3 DEF Good
-----------------------------------------------------------------------------
(* The last element of a sequence, and what is before it.                  *)

LEMMA FrontLast ==
    ASSUME NEW T, NEW s \in Seq(T), s # <<>>
    PROVE  /\ Front(s) \in Seq(T) /\ Last(s) \in T /\ Len(Front(s)) = Len(s) - 1
           /\ Append(Front(s), Last(s)) = s /\ Front(s) \o <<Last(s)>> = s
  <1>1. Len(s) \in Nat \ {0}
    BY EmptySeq
  <1>2. /\ Front(s) \in Seq(T) /\ Len(Front(s)) = Len(s) - 1
        /\ \A i \in 1 .. Len(s) - 1 : Front(s)[i] = s[i]
    <2> DEFINE n == Len(s) - 1
    <2>1. n \in Nat /\ n <= Len(s) /\ n - 1 + 1 = n
      BY <1>1
    <2> HIDE DEF n
    <2>2. /\ SubSeq(s, 1, n) \in Seq(T)
          /\ Len(SubSeq(s, 1, n)) = IF 1 <= n THEN n - 1 + 1 ELSE 0
          /\ \A i \in 1 .. n - 1 + 1 : SubSeq(s, 1, n)[i] = s[1 + i - 1]
      BY <2>1, Slice
    <2>3. Len(SubSeq(s, 1, n)) = n
      BY <2>1, <2>2
    <2>4. \A i \in 1 .. n : SubSeq(s, 1, n)[i] = s[i]
      BY <2>1, <2>2
    <2> QED BY <2>2, <2>3, <2>4 DEF Front, n
  <1>3. Last(s) \in T
    BY <1>1 DEF Last
  <1>4. Append(Front(s), Last(s)) = s
    <2> DEFINE a == Append(Front(s), Last(s))
    <2>1. /\ a \in Seq(T) /\ Len(a) = Len(s) - 1 + 1
          /\ \A i \in 1 .. Len(s) - 1 : a[i] = Front(s)[i]
          /\ a[Len(s) - 1 + 1] = Last(s)
      BY <1>2, <1>3, AppendProperties
    <2> HIDE DEF a
    <2>2. \A i \in 1 .. Len(s) : a[i] = s[i]
      <3>1. ASSUME NEW i \in 1 .. Len(s) PROVE a[i] = s[i]
        <4>1. i \in 1 .. Len(s) - 1 \/ (i = Len(s) /\ Len(s) - 1 + 1 = Len(s))
          BY <1>1
        <4> QED BY <1>2, <2>1, <4>1 DEF Last
      <3> QED BY <3>1
    <2>3. Len(a) = Len(s)
      BY <1>1, <2>1
    <2> QED BY <2>1, <2>2, <2>3, SeqEqual DEF a
  <1>5. Append(Front(s), Last(s)) = Front(s) \o <<Last(s)>>
    BY <1>2, <1>3, AppendIsConcat
  <1> QED BY <1>2, <1>3, <1>4, <1>5

LEMMA FrontAppend ==
    ASSUME NEW T, NEW s \in Seq(T), NEW x \in T
    PROVE  Front(Append(s, x)) = s /\ Last(Append(s, x)) = x
  <1>1. Append(s, x) \in Seq(T) /\ Append(s, x) # <<>>
    BY AppendProperties
  <1>2. /\ Front(Append(s, x)) \in Seq(T) /\ Last(Append(s, x)) \in T
        /\ Append(Front(Append(s, x)), Last(Append(s, x))) = Append(s, x)
    BY <1>1, FrontLast
  <1> QED BY <1>2, AppendInjective
-----------------------------------------------------------------------------
(* Ends of a sequence.                                                     *)

\* From behind a place on, what is appended comes at the end.
LEMMA EndOfConcat ==
    ASSUME NEW T, NEW s \in Seq(T), NEW u \in Seq(T), NEW m \in 0 .. Len(s)
    PROVE  SubSeq(s \o u, m + 1, Len(s \o u)) = SubSeq(s, m + 1, Len(s)) \o u
  <1> DEFINE n == Len(s)
             w == s \o u
             a == SubSeq(w, m + 1, n + Len(u))
             b == SubSeq(s, m + 1, n)
  <1>1. n \in Nat /\ m \in Nat /\ m <= n /\ Len(u) \in Nat /\ m + 1 \in Nat \ {0}
    OBVIOUS
  <1>2. /\ w \in Seq(T) /\ Len(w) = n + Len(u)
        /\ \A i \in 1 .. n + Len(u) : w[i] = IF i <= n THEN s[i] ELSE u[i - n]
    BY ConcatProperties
  <1> HIDE DEF w
  <1>3. /\ a \in Seq(T) /\ Len(a) = n + Len(u) - m
        /\ \A i \in 1 .. n + Len(u) - m : a[i] = w[m + i]
    <2>1. /\ a \in Seq(T)
          /\ Len(a) = IF m + 1 <= n + Len(u) THEN n + Len(u) - (m + 1) + 1 ELSE 0
          /\ \A i \in 1 .. n + Len(u) - (m + 1) + 1 : a[i] = w[m + 1 + i - 1]
      BY <1>1, <1>2, Slice
    <2> HIDE DEF a
    <2> QED BY <1>1, <2>1
  <1>4. /\ b \in Seq(T) /\ Len(b) = n - m
        /\ \A i \in 1 .. n - m : b[i] = s[m + i]
    <2>1. /\ b \in Seq(T)
          /\ Len(b) = IF m + 1 <= n THEN n - (m + 1) + 1 ELSE 0
          /\ \A i \in 1 .. n - (m + 1) + 1 : b[i] = s[m + 1 + i - 1]
      BY <1>1, Slice
    <2> HIDE DEF b
    <2> QED BY <1>1, <2>1
  <1> HIDE DEF a, b
  <1>5. /\ b \o u \in Seq(T) /\ Len(b \o u) = n - m + Len(u)
        /\ \A i \in 1 .. n - m + Len(u) : (b \o u)[i] = IF i <= n - m THEN b[i] ELSE u[i - (n - m)]
    <2>1. /\ b \o u \in Seq(T) /\ Len(b \o u) = Len(b) + Len(u)
          /\ \A i \in 1 .. Len(b) + Len(u) : (b \o u)[i] = IF i <= Len(b) THEN b[i] ELSE u[i - Len(b)]
      BY <1>4, ConcatProperties
    <2>2. Len(b) = n - m
      BY <1>4
    <2> HIDE DEF n
    <2> QED BY <2>1, <2>2
  <1>6. ASSUME NEW i \in 1 .. Len(a) PROVE a[i] = (b \o u)[i]
    <2>0. i \in 1 .. n + Len(u) - m /\ m + i \in 1 .. n + Len(u) /\ i \in 1 .. n - m + Len(u)
      BY <1>1, <1>3
    <2>1. a[i] = IF m + i <= n THEN s[m + i] ELSE u[m + i - n]
      BY <1>2, <1>3, <2>0
    <2>2. CASE i <= n - m
      <3>1. m + i <= n /\ i \in 1 .. n - m
        BY <1>1, <2>0, <2>2
      <3> QED BY <1>4, <1>5, <2>0, <2>1, <2>2, <3>1
    <2>3. CASE ~ (i <= n - m)
      <3>1. ~ (m + i <= n) /\ m + i - n = i - (n - m)
        BY <1>1, <2>0, <2>3
      <3> QED BY <1>5, <2>0, <2>1, <2>3, <3>1
    <2> QED BY <2>2, <2>3
  <1>7. Len(a) = Len(b \o u)
    BY <1>1, <1>3, <1>5
  <1>8. a = b \o u
    BY <1>3, <1>5, <1>6, <1>7, SeqEqual
  <1> QED BY <1>2, <1>8 DEF a, b, w, n

\* The end of what is kept is what is kept of the end.
LEMMA EndOfCut ==
    ASSUME NEW T, NEW s \in Seq(T), NEW k \in 0 .. Len(s), NEW m \in 0 .. k
    PROVE  SubSeq(SubSeq(s, 1, k), m + 1, k) = SubSeq(SubSeq(s, m + 1, Len(s)), 1, k - m)
  <1> DEFINE n == Len(s)
             c == SubSeq(s, 1, k)
             e == SubSeq(s, m + 1, n)
             a == SubSeq(c, m + 1, k)
             b == SubSeq(e, 1, k - m)
  <1>1. n \in Nat /\ k \in Nat /\ m \in Nat /\ m <= k /\ k <= n /\ m + 1 \in Nat \ {0} /\ k - m \in Nat
    OBVIOUS
  <1>2. c \in Seq(T) /\ Len(c) = k /\ \A i \in 1 .. k : c[i] = s[i]
    <2>1. /\ c \in Seq(T) /\ Len(c) = IF 1 <= k THEN k - 1 + 1 ELSE 0
          /\ \A i \in 1 .. k - 1 + 1 : c[i] = s[1 + i - 1]
      BY <1>1, Slice
    <2> HIDE DEF c
    <2> QED BY <1>1, <2>1
  <1>3. e \in Seq(T) /\ Len(e) = n - m /\ \A i \in 1 .. n - m : e[i] = s[m + i]
    <2>1. /\ e \in Seq(T) /\ Len(e) = IF m + 1 <= n THEN n - (m + 1) + 1 ELSE 0
          /\ \A i \in 1 .. n - (m + 1) + 1 : e[i] = s[m + 1 + i - 1]
      BY <1>1, Slice
    <2> HIDE DEF e
    <2> QED BY <1>1, <2>1
  <1> HIDE DEF c, e
  <1>4. a \in Seq(T) /\ Len(a) = k - m /\ \A i \in 1 .. k - m : a[i] = c[m + i]
    <2>1. /\ a \in Seq(T) /\ Len(a) = IF m + 1 <= k THEN k - (m + 1) + 1 ELSE 0
          /\ \A i \in 1 .. k - (m + 1) + 1 : a[i] = c[m + 1 + i - 1]
      BY <1>1, <1>2, Slice
    <2> HIDE DEF a
    <2> QED BY <1>1, <2>1
  <1>5. b \in Seq(T) /\ Len(b) = k - m /\ \A i \in 1 .. k - m : b[i] = e[i]
    <2> DEFINE d == k - m
    <2>1. d \in Nat /\ d <= Len(e)
      BY <1>1, <1>3
    <2> HIDE DEF d
    <2>2. /\ SubSeq(e, 1, d) \in Seq(T) /\ Len(SubSeq(e, 1, d)) = IF 1 <= d THEN d - 1 + 1 ELSE 0
          /\ \A i \in 1 .. d - 1 + 1 : SubSeq(e, 1, d)[i] = e[1 + i - 1]
      BY <1>3, <2>1, Slice
    <2>3. Len(SubSeq(e, 1, d)) = d /\ \A i \in 1 .. d : SubSeq(e, 1, d)[i] = e[i]
      BY <2>1, <2>2
    <2> QED BY <2>2, <2>3 DEF d
  <1> HIDE DEF a, b
  <1>6. ASSUME NEW i \in 1 .. Len(a) PROVE a[i] = b[i]
    <2>1. i \in 1 .. k - m /\ m + i \in 1 .. k /\ i \in 1 .. n - m
      BY <1>1, <1>4
    <2> QED BY <1>2, <1>3, <1>4, <1>5, <2>1
  <1>7. a = b
    BY <1>4, <1>5, <1>6, SeqEqual
  <1> QED BY <1>7 DEF a, b, c, e, n

\* What is at the end of a sequence is a suffix of it.
LEMMA SuffixOfConcat ==
    ASSUME NEW T, NEW h \in Seq(T), NEW s \in Seq(T)
    PROVE  IsSuffix(s, h \o s)
  <1> DEFINE n == Len(s)
             t == h \o s
  <1>1. /\ t \in Seq(T) /\ Len(t) = Len(h) + n /\ n \in Nat /\ Len(h) \in Nat
        /\ \A i \in 1 .. Len(h) + n : t[i] = IF i <= Len(h) THEN h[i] ELSE s[i - Len(h)]
    BY ConcatProperties
  <1> HIDE DEF t
  <1>2. ASSUME NEW x \in Seq(T)
        PROVE  /\ Reverse(x) \in Seq(T) /\ Len(Reverse(x)) = Len(x)
               /\ \A i \in 1 .. Len(x) : Reverse(x)[i] = x[Len(x) - i + 1]
    <2>1. \A i \in 1 .. Len(x) : x[Len(x) - i + 1] \in T
      <3>1. \A i \in 1 .. Len(x) : Len(x) - i + 1 \in 1 .. Len(x)
        OBVIOUS
      <3> QED BY <3>1
    <2>2. Reverse(x) \in Seq(T)
      BY <2>1 DEF Reverse
    <2>3. Len(Reverse(x)) = Len(x)
      BY DEF Reverse
    <2> QED BY <2>2, <2>3 DEF Reverse
  <1> DEFINE a == Reverse(s)
             b == Reverse(t)
  <1>3. /\ a \in Seq(T) /\ Len(a) = n /\ \A i \in 1 .. n : a[i] = s[n - i + 1]
        /\ b \in Seq(T) /\ Len(b) = Len(h) + n
        /\ \A i \in 1 .. Len(h) + n : b[i] = t[Len(h) + n - i + 1]
    BY SMTT(40), <1>1, <1>2
  <1> HIDE DEF a, b
  <1>4. ASSUME NEW i \in 1 .. n PROVE a[i] = b[i]
    <2>1. /\ i \in 1 .. Len(h) + n /\ Len(h) + n - i + 1 \in 1 .. Len(h) + n
          /\ ~ (Len(h) + n - i + 1 <= Len(h)) /\ Len(h) + n - i + 1 - Len(h) = n - i + 1
      BY <1>1
    <2> DEFINE j == Len(h) + n - i + 1
    <2>2. b[i] = t[j] /\ a[i] = s[j - Len(h)]
      BY <1>3, <2>1
    <2>3. j \in 1 .. Len(h) + n /\ ~ (j <= Len(h))
      BY <2>1
    <2> HIDE DEF j
    <2>4. t[j] = s[j - Len(h)]
      BY <1>1, <2>3
    <2> QED BY <2>2, <2>4
  <1> HIDE DEF n
  <1>5. n \in Nat /\ n <= Len(b) /\ n - 1 + 1 = n
    BY <1>1, <1>3
  <1>6. SubSeq(a, 1, n) = SubSeq(b, 1, n)
    <2> DEFINE u == SubSeq(a, 1, n)
               v == SubSeq(b, 1, n)
    <2>1. u \in Seq(T) /\ Len(u) = (IF 1 <= n THEN n - 1 + 1 ELSE 0) /\ \A i \in 1 .. n - 1 + 1 : u[i] = a[1 + i - 1]
      BY <1>3, <1>5, Slice
    <2>2. v \in Seq(T) /\ Len(v) = (IF 1 <= n THEN n - 1 + 1 ELSE 0) /\ \A i \in 1 .. n - 1 + 1 : v[i] = b[1 + i - 1]
      BY <1>3, <1>5, Slice
    <2> HIDE DEF u, v
    <2>3. Len(u) = n /\ Len(v) = n
      BY <1>5, <2>1, <2>2
    <2>4. \A i \in 1 .. Len(u) : u[i] = v[i]
      BY SMTT(40), <1>4, <1>5, <2>1, <2>2, <2>3
    <2>5. u = v
      BY <2>1, <2>2, <2>3, <2>4, SeqEqual
    <2> QED BY <2>5 DEF u, v
  <1>7. IsPrefix(a, b)
    BY <1>3, <1>5, <1>6 DEF IsPrefix
  <1> QED BY <1>7 DEF IsSuffix, a, b, t
-----------------------------------------------------------------------------
(* Least numbers.                                                          *)

LEMMA Least ==
    ASSUME NEW T \in SUBSET Nat, T # {}
    PROVE  \E n \in T : \A m \in T : n <= m
  <1> DEFINE S == {n \in Nat : \A m \in 0 .. n : m \notin T}
  <1> SUFFICES ASSUME \A n \in T : \E m \in T : m < n PROVE FALSE
    OBVIOUS
  <1>1. 0 \in S
    OBVIOUS
  <1>2. ASSUME NEW n \in Nat, n \in S PROVE n + 1 \in S
    <2>1. \A m \in 0 .. n : m \notin T
      BY <1>2
    <2>2. n + 1 \notin T
      BY <2>1
    <2> QED BY <2>1, <2>2
  <1> HIDE DEF S
  <1>3. Nat \subseteq S
    BY <1>1, <1>2, Induction
  <1>4. PICK n \in T : n \in Nat
    OBVIOUS
  <1>5. n \in S /\ n \in 0 .. n
    BY <1>3, <1>4
  <1> QED BY <1>4, <1>5 DEF S
-----------------------------------------------------------------------------
(* Addresses in a buffer of rows.                                          *)

LEMMA ProductNat == ASSUME NEW a \in Nat, NEW b \in Nat PROVE a * b \in Nat
  OBVIOUS

LEMMA ProductMonotone ==
    ASSUME NEW a \in Nat, NEW b \in Nat, NEW c \in Nat, a <= b
    PROVE  a * c <= b * c
  <1>1. PICK d \in Nat : b = a + d
    <2>1. b - a \in Nat /\ b = a + (b - a)
      OBVIOUS
    <2> QED BY <2>1
  <1>2. (a + d) * c = a * c + d * c
    BY SMT
  <1>3. d * c \in Nat /\ a * c \in Nat
    BY ProductNat
  <1> QED BY <1>1, <1>2, <1>3

LEMMA NextRow ==
    ASSUME NEW r \in Nat, NEW s \in Nat
    PROVE  (r + 1) * s = r * s + s
  BY SMT

\* Every address has a row and a place in it.
LEMMA QuotientRemainder ==
    ASSUME NEW a \in Nat, NEW s \in Nat \ {0}
    PROVE  /\ a \div s \in Nat /\ a % s \in 0 .. s - 1
           /\ a = (a \div s) * s + (a % s)
  <1>1. a \div s \in Nat /\ a % s \in 0 .. s - 1
    BY SMT
  <1>2. a = s * (a \div s) + (a % s)
    BY SMT
  <1>3. s * (a \div s) = (a \div s) * s
    BY <1>1, SMT
  <1> QED BY <1>1, <1>2, <1>3

\* They are what the address was made of.
LEMMA RowAndPlace ==
    ASSUME NEW r \in Nat, NEW s \in Nat \ {0}, NEW i \in 0 .. s - 1
    PROVE  r * s + i \in Nat /\ (r * s + i) \div s = r /\ (r * s + i) % s = i
  <1> DEFINE a == r * s + i
             q == a \div s
             t == a % s
             rs == r * s
             qs == q * s
  <1>1. rs \in Nat /\ a \in Nat /\ i \in Nat /\ i < s
    BY ProductNat
  <1>2. q \in Nat /\ t \in 0 .. s - 1 /\ a = qs + t
    <2> HIDE DEF a
    <2> QED BY <1>1, QuotientRemainder
  <1>3. a = rs + i
    OBVIOUS
  <1> HIDE DEF a, t
  <1>4. qs \in Nat
    <2> HIDE DEF q
    <2> QED BY <1>2, ProductNat
  <1>5. ~ (q < r)
    <2> SUFFICES ASSUME q < r PROVE FALSE  OBVIOUS
    <2> HIDE DEF q
    <2>1. (q + 1) * s <= r * s
      BY <1>2, ProductMonotone
    <2>2. (q + 1) * s = qs + s
      BY <1>2, NextRow
    <2> HIDE DEF rs, qs
    <2>3. qs + s <= rs
      BY <2>1, <2>2 DEF rs
    <2> QED BY <1>1, <1>2, <1>3, <1>4, <2>3
  <1>6. ~ (r < q)
    <2> SUFFICES ASSUME r < q PROVE FALSE  OBVIOUS
    <2> HIDE DEF q
    <2>1. (r + 1) * s <= q * s
      BY <1>2, ProductMonotone
    <2>2. (r + 1) * s = rs + s
      BY NextRow
    <2> HIDE DEF rs, qs
    <2>3. rs + s <= qs
      BY <2>1, <2>2 DEF qs
    <2> QED BY <1>1, <1>2, <1>3, <1>4, <2>3
  <1>7. q = r
    <2> HIDE DEF q
    <2> QED BY <1>2, <1>5, <1>6
  <1>8. qs = rs
    BY <1>7
  <1> HIDE DEF q, rs, qs
  <1>9. t = i
    BY <1>1, <1>2, <1>3, <1>4, <1>8
  <1> QED BY <1>1, <1>7, <1>9 DEF a, q, t

\* A row of a tensor that has rows of length max has no longer rows at a smaller stride.
LEMMA CellInTensor ==
    ASSUME NEW rows \in Nat, NEW max \in Nat, NEW s \in 0 .. max, NEW r \in 0 .. rows - 1, NEW i \in 0 .. s - 1
    PROVE  r * s + i \in 0 .. rows * max - 1
  <1>1. r \in Nat /\ s \in Nat /\ i \in Nat /\ r + 1 \in Nat /\ r + 1 <= rows /\ s <= max /\ i < s
    OBVIOUS
  <1>2. (r + 1) * s = r * s + s
    BY <1>1, NextRow
  <1>3. (r + 1) * s <= rows * s
    BY <1>1, ProductMonotone
  <1>4. s * rows <= max * rows
    BY <1>1, ProductMonotone
  <1>5. s * rows = rows * s /\ max * rows = rows * max
    BY <1>1
  <1>6. r * s \in Nat /\ rows * s \in Nat /\ rows * max \in Nat
    BY <1>1, ProductNat
  <1> DEFINE rs == r * s
             full == rows * s
             all == rows * max
  <1>7. rs \in Nat /\ full \in Nat /\ all \in Nat /\ rs + s <= full /\ full <= all
    BY <1>2, <1>3, <1>4, <1>5, <1>6
  <1> HIDE DEF rs, full, all
  <1>8. rs + i \in 0 .. all - 1
    BY <1>1, <1>7
  <1> QED BY <1>8 DEF rs, all
-----------------------------------------------------------------------------
(* reshapeKV and copyKV.                                                   *)

\* The first len cells of every row of old_buf, at stride old, are those of new_buf, at
\* stride new.
Moved(old_buf, new_buf, rows, old, new, len) ==
    \A r \in 0 .. rows - 1, i \in 0 .. len - 1 :
        r * new + i \in DOMAIN old_buf => new_buf[r * new + i] = old_buf[r * old + i]

\* In every row of new_buf the n cells from off on are those of src, the others those of
\* old_buf.
Copied(old_buf, new_buf, rows, stride, off, n, src) ==
    \A r \in 0 .. rows - 1, i \in 0 .. stride - 1 :
        r * stride + i \in DOMAIN old_buf =>
            new_buf[r * stride + i] =
              IF off <= i /\ i < off + n THEN src[r, i - off] ELSE old_buf[r * stride + i]

\* A restride moves the valid tokens of every row.
LEMMA RestrideCells ==
    ASSUME NEW buf, NEW rows \in Nat, NEW old \in Nat \ {0}, NEW new \in Nat \ {0}, NEW n_valid \in Nat,
           NEW zero
    PROVE  Moved(buf, Restride(buf, rows, old, new, n_valid, zero), rows, old, new,
                 CopyLen(old, new, n_valid))
  <1> SUFFICES ASSUME NEW r \in 0 .. rows - 1, NEW i \in 0 .. CopyLen(old, new, n_valid) - 1,
                      r * new + i \in DOMAIN buf
               PROVE  Restride(buf, rows, old, new, n_valid, zero)[r * new + i] = buf[r * old + i]
    BY DEF Moved
  <1> DEFINE len == CopyLen(old, new, n_valid)
             a == r * new + i
             b == r * old + i
  <1>1. len \in Nat /\ len <= new /\ i \in 0 .. new - 1 /\ i < len
    BY DEF CopyLen, Min2
  <1>2. r \in Nat /\ r < rows
    OBVIOUS
  <1>3. a \div new = r /\ a % new = i
    BY <1>1, <1>2, RowAndPlace
  <1>4. a \in DOMAIN buf /\ b = ((a \div new) * old) + (a % new)
    BY <1>3
  <1>5. CASE old = new
    BY <1>5 DEF Restride
  <1>6. CASE old # new
    <2> DEFINE row(x) == x \div new
               tok(x) == x % new
    <2>1. Restride(buf, rows, old, new, n_valid, zero) =
            [x \in DOMAIN buf |->
                IF row(x) >= rows THEN buf[x]
                ELSE IF tok(x) < len THEN buf[row(x) * old + tok(x)]
                ELSE IF new > old THEN zero
                ELSE buf[x]]
      BY <1>6 DEF Restride
    <2> HIDE DEF len, a, b
    <2>2. Restride(buf, rows, old, new, n_valid, zero)[a] =
            IF row(a) >= rows THEN buf[a]
            ELSE IF tok(a) < len THEN buf[row(a) * old + tok(a)]
            ELSE IF new > old THEN zero
            ELSE buf[a]
      BY <1>4, <2>1
    <2>3. ~ (row(a) >= rows) /\ tok(a) < len
      BY <1>1, <1>2, <1>3
    <2>4. Restride(buf, rows, old, new, n_valid, zero)[a] = buf[row(a) * old + tok(a)]
      BY <2>2, <2>3
    <2> QED BY <1>4, <2>4 DEF a, b
  <1> QED BY <1>5, <1>6

\* It keeps the cells cells.
LEMMA RestrideType ==
    ASSUME NEW C, NEW rows \in Nat, NEW max \in Nat, NEW buf \in [0 .. rows * max - 1 -> C],
           NEW old \in 1 .. max, NEW new \in 1 .. max, NEW n_valid \in Nat, NEW zero \in C
    PROVE  Restride(buf, rows, old, new, n_valid, zero) \in [0 .. rows * max - 1 -> C]
  <1> DEFINE len == CopyLen(old, new, n_valid)
             A == 0 .. rows * max - 1
  <1>1. len \in Nat /\ len <= old
    BY DEF CopyLen, Min2
  <1>2. CASE old = new
    BY <1>2 DEF Restride
  <1>3. CASE old # new
    <2> DEFINE cell(a) == IF a \div new >= rows THEN buf[a]
                          ELSE IF a % new < len THEN buf[(a \div new) * old + (a % new)]
                          ELSE IF new > old THEN zero
                          ELSE buf[a]
    <2>1. Restride(buf, rows, old, new, n_valid, zero) = [a \in A |-> cell(a)]
      BY <1>3 DEF Restride
    <2>2. ASSUME NEW a \in A PROVE cell(a) \in C
      <3> DEFINE r == a \div new
                 t == a % new
      <3>1. rows * max \in Nat
        BY ProductNat
      <3>2. a \in Nat /\ new \in Nat \ {0}
        BY <3>1
      <3>3. r \in Nat /\ t \in Nat
        BY <3>2, QuotientRemainder
      <3> HIDE DEF r, t
      <3>4. ASSUME ~ (r >= rows), t < len PROVE r * old + t \in A
        <4>1. r \in 0 .. rows - 1 /\ t \in 0 .. old - 1 /\ old \in 0 .. max
          BY <1>1, <3>3, <3>4
        <4> QED BY <4>1, CellInTensor
      <3>5. (IF r >= rows THEN buf[a]
             ELSE IF t < len THEN buf[r * old + t]
             ELSE IF new > old THEN zero
             ELSE buf[a]) \in C
        BY <3>4
      <3> QED BY <3>5 DEF r, t
    <2> HIDE DEF cell, A
    <2>3. [a \in A |-> cell(a)] \in [A -> C]
      BY <2>2
    <2> QED BY <2>1, <2>3 DEF A
  <1> QED BY <1>2, <1>3

\* What copyKV puts where: the tokens it writes, and around them what was there.
LEMMA CopyCells ==
    ASSUME NEW buf, NEW rows \in Nat, NEW stride \in Nat \ {0}, NEW off \in Nat, NEW n \in Nat,
           FitsRow(stride, off, n), NEW src
    PROVE  Copied(buf, CopyTokens(buf, rows, stride, off, n, src), rows, stride, off, n, src)
  <1> SUFFICES ASSUME NEW r \in 0 .. rows - 1, NEW i \in 0 .. stride - 1, r * stride + i \in DOMAIN buf
               PROVE  CopyTokens(buf, rows, stride, off, n, src)[r * stride + i] =
                        IF off <= i /\ i < off + n THEN src[r, i - off] ELSE buf[r * stride + i]
    BY DEF Copied
  <1> DEFINE a == r * stride + i
             rs == r * stride
             row == Min2((a - off) \div stride, rows - 1)
             tok == a - off - row * stride
  <1>0. off + n <= stride /\ r \in Nat /\ i \in Nat /\ i < stride /\ r < rows
    BY DEF FitsRow
  <1>1. rs \in Nat /\ a = rs + i /\ a \in Nat
    BY <1>0, ProductNat
  <1>2. CopyTokens(buf, rows, stride, off, n, src)[a] =
          IF a >= off /\ tok < n THEN src[row, tok] ELSE buf[a]
    <2> HIDE DEF row, tok, a
    <2>1. a \in DOMAIN buf
      BY DEF a
    <2>2. \A x \in DOMAIN buf : CopyTokens(buf, rows, stride, off, n, src)[x] =
            IF x >= off /\ x - off - Min2((x - off) \div stride, rows - 1) * stride < n
            THEN src[Min2((x - off) \div stride, rows - 1), x - off - Min2((x - off) \div stride, rows - 1) * stride]
            ELSE buf[x]
      BY DEF CopyTokens
    <2> QED BY <2>1, <2>2 DEF row, tok
  <1>3. CASE off <= i
    <2>1. i - off \in 0 .. stride - 1 /\ a - off = rs + (i - off)
      BY <1>0, <1>1, <1>3
    <2>2. (rs + (i - off)) \div stride = r
      BY <1>0, <2>1, RowAndPlace
    <2>3. (a - off) \div stride = r
      BY <2>1, <2>2
    <2>4. row = r
      BY <1>0, <2>3 DEF Min2
    <2>5. tok = a - off - rs
      BY <2>4
    <2> HIDE DEF a, rs, row
    <2>6. tok = i - off
      BY <1>0, <1>1, <2>5
    <2> HIDE DEF tok
    <2>7. a >= off /\ (tok < n <=> i < off + n)
      BY <1>0, <1>1, <1>3, <2>6
    <2>8. CopyTokens(buf, rows, stride, off, n, src)[a] =
            IF off <= i /\ i < off + n THEN src[r, i - off] ELSE buf[a]
      BY <1>2, <1>3, <2>4, <2>6, <2>7
    <2> QED BY <2>8 DEF a, rs
  <1>4. CASE ~ (off <= i)
    <2>1. CASE r = 0
      <3>1. rs = 0
        BY <2>1
      <3>2. ~ (a >= off)
        BY <1>0, <1>1, <1>4, <3>1
      <3> HIDE DEF a, tok, row
      <3>3. CopyTokens(buf, rows, stride, off, n, src)[a] = buf[a]
        BY <1>2, <3>2
      <3> QED BY <1>4, <3>3 DEF a
    <2>2. CASE r # 0
      <3> DEFINE p == r - 1
                 ps == p * stride
                 j == i - off + stride
      <3>1. p \in Nat /\ p + 1 = r /\ j \in 0 .. stride - 1 /\ j >= n
        BY <1>0, <1>4, <2>2
      <3>2. rs = ps + stride /\ ps \in Nat
        <4> HIDE DEF p
        <4>1. (p + 1) * stride = p * stride + stride /\ p * stride \in Nat
          BY <3>1, NextRow, ProductNat
        <4> QED BY <3>1, <4>1
      <3>3. a - off = ps + j
        <4> HIDE DEF a, rs, ps
        <4> QED BY <1>0, <1>1, <3>1, <3>2
      <3>4. (ps + j) \div stride = p
        <4> HIDE DEF p, j
        <4> QED BY <3>1, RowAndPlace
      <3>5. row = p
        <4>1. (a - off) \div stride = p
          BY <3>3, <3>4
        <4> QED BY <1>0, <3>1, <4>1 DEF Min2
      <3>6. tok = a - off - ps
        BY <3>5
      <3> HIDE DEF a, rs, ps, row
      <3>7. tok = j
        BY <1>0, <1>1, <3>1, <3>2, <3>3, <3>6
      <3> HIDE DEF tok
      <3>8. ~ (tok < n)
        BY <1>0, <3>1, <3>7
      <3>9. CopyTokens(buf, rows, stride, off, n, src)[a] = buf[a]
        BY <1>2, <3>8
      <3> QED BY <1>4, <3>9 DEF a, rs
    <2> QED BY <2>1, <2>2
  <1> QED BY <1>3, <1>4

LEMMA CopyType ==
    ASSUME NEW A \in SUBSET Nat, NEW C, NEW buf \in [A -> C], NEW rows \in Nat \ {0}, NEW stride \in Nat \ {0},
           NEW off \in Nat, NEW n \in Nat, NEW src \in [(0 .. rows - 1) \X (0 .. n - 1) -> C]
    PROVE  CopyTokens(buf, rows, stride, off, n, src) \in [A -> C]
  <1> DEFINE row(a) == Min2((a - off) \div stride, rows - 1)
             tok(a) == a - off - row(a) * stride
             cell(a) == IF a >= off /\ tok(a) < n THEN src[row(a), tok(a)] ELSE buf[a]
  <1>1. CopyTokens(buf, rows, stride, off, n, src) = [a \in A |-> cell(a)]
    BY DEF CopyTokens
  <1>2. ASSUME NEW a \in A PROVE cell(a) \in C
    <2> SUFFICES ASSUME a >= off, tok(a) < n PROVE src[row(a), tok(a)] \in C
      OBVIOUS
    <2> DEFINE b == a - off
               q == b \div stride
               r == row(a)
    <2>1. b \in Nat
      OBVIOUS
    <2> HIDE DEF b
    <2>2. q \in Nat /\ b % stride \in 0 .. stride - 1 /\ b = q * stride + (b % stride)
      BY <2>1, QuotientRemainder
    <2>3. r = Min2(q, rows - 1)
      BY DEF b
    <2> DEFINE qs == q * stride
               rs == r * stride
               m == b % stride
    <2>4. tok(a) = b - rs
      BY DEF b
    <2> HIDE DEF q, r
    <2>5. r \in 0 .. rows - 1 /\ r <= q /\ r \in Nat
      BY <2>2, <2>3 DEF Min2
    <2>6. rs <= qs /\ rs \in Nat /\ qs \in Nat
      BY <2>2, <2>5, ProductMonotone, ProductNat
    <2>7. m \in Nat /\ b = qs + m
      BY <2>2
    <2> HIDE DEF rs, qs, m
    <2>8. b - rs \in Nat
      BY <2>1, <2>6, <2>7
    <2> DEFINE t == tok(a)
    <2>9. t \in 0 .. n - 1
      BY <2>4, <2>8
    <2>10. r = row(a)
      BY DEF r
    <2> HIDE DEF t, tok, row
    <2>11. src[r, t] \in C
      BY <2>5, <2>9
    <2> QED BY <2>10, <2>11 DEF t
  <1> HIDE DEF cell
  <1>3. [a \in A |-> cell(a)] \in [A -> C]
    BY <1>2
  <1> QED BY <1>1, <1>3
=============================================================================
