---------------------------- MODULE VLMModelProofs --------------------------
(***************************************************************************)
(* Proofs about VLMModel.  First the tables of the vision encoders, which  *)
(* are constant: for every frame, window and merge size the features come  *)
(* back in the places of their groups.  Then the inputs the providers      *)
(* stage, and the invariants of generate().  Last the positions: what      *)
(* computeMRoPEPositions gives a prompt, and how it goes on from a context.*)
(***************************************************************************)
EXTENDS VLMModel, SharedFacts, FiniteSetTheorems

-----------------------------------------------------------------------------
(* Windows over a frame.                                                   *)

\* Numbers of two digits are in the order of their digits.
LEMMA DigitOrder ==
    ASSUME NEW s \in Nat \ {0}, NEW a \in Nat, NEW b \in Nat, NEW i \in 0 .. s - 1, NEW j \in 0 .. s - 1
    PROVE  a * s + i < b * s + j <=> a < b \/ (a = b /\ i < j)
  <1> DEFINE x == a * s
             y == b * s
  <1>1. x \in Nat /\ y \in Nat
    BY ProductNat
  <1>2. ASSUME a < b PROVE x + s <= y
    <2>1. (a + 1) * s <= b * s /\ (a + 1) * s = a * s + s
      BY <1>2, ProductMonotone, NextRow
    <2> HIDE DEF x, y
    <2> QED BY <2>1 DEF x, y
  <1>3. ASSUME b < a PROVE y + s <= x
    <2>1. (b + 1) * s <= a * s /\ (b + 1) * s = b * s + s
      BY <1>3, ProductMonotone, NextRow
    <2> HIDE DEF x, y
    <2> QED BY <2>1 DEF x, y
  <1>4. a = b => x = y
    OBVIOUS
  <1> HIDE DEF x, y
  <1>5. x + i < y + j <=> a < b \/ (a = b /\ i < j)
    BY <1>1, <1>2, <1>3, <1>4
  <1> QED BY <1>5 DEF x, y

\* Two digits are below what their bounds make.
LEMMA DigitBound ==
    ASSUME NEW m \in Nat, NEW s \in Nat, NEW a \in 0 .. m - 1, NEW i \in 0 .. s - 1
    PROVE  a * s + i \in 0 .. m * s - 1
  <1> DEFINE x == a * s
             y == m * s
  <1>1. (a + 1) * s <= m * s /\ (a + 1) * s = a * s + s
    BY ProductMonotone, NextRow
  <1>2. x \in Nat /\ y \in Nat
    BY ProductNat
  <1>3. x + s <= y
    BY <1>1
  <1> HIDE DEF x, y
  <1>4. x + i \in 0 .. y - 1
    BY <1>2, <1>3
  <1> QED BY <1>4 DEF x, y

\* And back.
LEMMA DigitsOf ==
    ASSUME NEW m \in Nat, NEW s \in Nat \ {0}, NEW n \in 0 .. m * s - 1
    PROVE  n \div s \in 0 .. m - 1 /\ n % s \in 0 .. s - 1 /\ (n \div s) * s + (n % s) = n
  <1>0. m * s \in Nat /\ n \in Nat
    <2>1. m * s \in Nat
      BY ProductNat
    <2> DEFINE y == m * s
    <2> HIDE DEF y
    <2>2. n \in 0 .. y - 1 /\ y \in Nat
      BY <2>1 DEF y
    <2> QED BY <2>1, <2>2
  <1>1. n \div s \in Nat /\ n % s \in 0 .. s - 1 /\ n = (n \div s) * s + (n % s)
    BY <1>0, QuotientRemainder
  <1> DEFINE q == n \div s
             i == n % s
             x == q * s
             y == m * s
  <1>2. ASSUME m <= q PROVE y <= x
    <2> HIDE DEF q
    <2> QED BY <1>1, <1>2, ProductMonotone DEF q
  <1>3. x \in Nat /\ y \in Nat /\ q \in Nat /\ i \in 0 .. s - 1 /\ n = x + i /\ n < y
    <2>1. x \in Nat
      <3> HIDE DEF q
      <3> QED BY <1>1, ProductNat DEF q
    <2>2. n < y
      <3> HIDE DEF y
      <3>1. n \in 0 .. y - 1 /\ y \in Nat
        BY <1>0 DEF y
      <3> QED BY <3>1
    <2> QED BY <1>0, <1>1, <2>1, <2>2
  <1> HIDE DEF q, i, x, y
  <1>4. q < m
    BY <1>2, <1>3
  <1>5. q \in 0 .. m - 1
    BY <1>3, <1>4
  <1> QED BY <1>1, <1>5 DEF q

\* The windows cover the frame and none lies outside it.
LEMMA WindowsCover ==
    ASSUME NEW n \in Nat \ {0}, NEW ws \in Nat \ {0}
    PROVE  /\ NumWindows(n, ws) \in Nat \ {0}
           /\ \A i \in 0 .. n - 1 : i \div ws \in 0 .. NumWindows(n, ws) - 1
           /\ \A w \in 0 .. NumWindows(n, ws) - 1 : w * ws \in 0 .. n - 1
  <1> DEFINE q == n \div ws
             t == n % ws
             x == q * ws
             w == NumWindows(n, ws)
  <1>1. q \in Nat /\ t \in 0 .. ws - 1 /\ n = x + t
    BY QuotientRemainder
  <1>2. x \in Nat
    <2> HIDE DEF q
    <2> QED BY <1>1, ProductNat
  <1>3. (q + 1) * ws = x + ws
    <2> HIDE DEF q
    <2> QED BY <1>1, NextRow
  <1>4. w = IF t = 0 THEN q ELSE q + 1
    <2>1. CASE t = 0
      <3>1. PadTo(n, ws) = ws % ws
        BY <2>1 DEF PadTo
      <3>2. ws % ws = 0
        <4>1. (1 * ws + 0) % ws = 0 /\ 1 * ws + 0 = ws
          <5>1. 0 \in 0 .. ws - 1 /\ 1 \in Nat
            OBVIOUS
          <5> QED BY <5>1, RowAndPlace
        <4> QED BY <4>1
      <3> QED BY <2>1, <3>1, <3>2 DEF NumWindows
    <2>2. CASE t # 0
      <3>1. PadTo(n, ws) = ws - t
        <4>1. ws - t \in 0 .. ws - 1
          BY <1>1, <2>2
        <4>2. (ws - t) % ws = ws - t
          <5>1. (0 * ws + (ws - t)) % ws = ws - t /\ 0 * ws + (ws - t) = ws - t
            <6> HIDE DEF t
            <6>1. 0 \in Nat
              OBVIOUS
            <6> QED BY <4>1, <6>1, RowAndPlace
          <5> QED BY <5>1
        <4> QED BY <4>2 DEF PadTo
      <3>2. n + (ws - t) = (q + 1) * ws + 0
        <4> HIDE DEF q, t, x
        <4> QED BY <1>1, <1>2, <1>3
      <3>3. ((q + 1) * ws + 0) \div ws = q + 1
        <4> HIDE DEF q
        <4>1. q + 1 \in Nat /\ 0 \in 0 .. ws - 1
          BY <1>1
        <4> QED BY <4>1, RowAndPlace
      <3> QED BY <2>2, <3>1, <3>2, <3>3 DEF NumWindows
    <2> QED BY <2>1, <2>2
  <1>5. w \in Nat \ {0}
    <2>1. t = 0 => q # 0
      <3>1. q = 0 => x = 0
        OBVIOUS
      <3> HIDE DEF q, x, t
      <3> QED BY <1>1, <3>1
    <2> HIDE DEF q, t, w
    <2> QED BY <1>1, <1>4, <2>1
  <1>6. n <= w * ws
    <2>1. CASE t = 0
      BY <1>1, <1>4, <2>1
    <2>2. CASE t # 0
      <3>1. w * ws = x + ws
        BY <1>3, <1>4, <2>2
      <3> HIDE DEF q, t, w, x
      <3> QED BY <1>1, <1>2, <3>1
    <2> QED BY <2>1, <2>2
  <1>7. ASSUME NEW i \in 0 .. n - 1 PROVE i \div ws \in 0 .. w - 1
    <2> DEFINE y == w * ws
    <2>1. y \in Nat
      <3> HIDE DEF w
      <3> QED BY <1>5, ProductNat
    <2>2. i \in 0 .. y - 1
      <3> HIDE DEF y
      <3> QED BY <1>6, <2>1 DEF y
    <2> HIDE DEF w
    <2> QED BY <1>5, <2>2, DigitsOf
  <1>8. ASSUME NEW v \in 0 .. w - 1 PROVE v * ws \in 0 .. n - 1
    <2>1. v * ws \in Nat /\ v \in Nat
      BY <1>5, ProductNat
    <2>2. v <= q
      <3> HIDE DEF q, t, w
      <3> QED BY <1>1, <1>4
    <2>3. v * ws <= x
      <3> HIDE DEF q
      <3> QED BY <1>1, <2>1, <2>2, ProductMonotone
    <2>4. CASE t # 0
      <3> DEFINE z == v * ws
      <3>1. z \in Nat /\ z <= x
        BY <2>1, <2>3
      <3> HIDE DEF z, x, t
      <3>2. z \in 0 .. n - 1
        BY <1>1, <1>2, <2>4, <3>1
      <3> QED BY <3>2 DEF z
    <2>5. CASE t = 0
      <3>1. v + 1 <= q
        <4> HIDE DEF q, t, w
        <4> QED BY <1>1, <1>4, <2>5
      <3>2. (v + 1) * ws <= x /\ (v + 1) * ws = v * ws + ws
        <4> HIDE DEF q
        <4>1. v + 1 \in Nat
          BY <2>1
        <4> QED BY <1>1, <2>1, <3>1, <4>1, ProductMonotone, NextRow
      <3> DEFINE z == v * ws
      <3>3. z \in Nat /\ z + ws <= x
        BY <2>1, <3>2
      <3> HIDE DEF z, x, t
      <3>4. z \in 0 .. n - 1
        BY <1>1, <1>2, <2>5, <3>3
      <3> QED BY <3>4 DEF z
    <2> QED BY <2>4, <2>5
  <1> QED BY <1>5, <1>7, <1>8
-----------------------------------------------------------------------------
(* The padded frame: where the walk over its windows meets a cell.         *)

CellsIn(lh, lw, ws) == NumWindows(lh, ws) * NumWindows(lw, ws) * ws * ws

\* Row r and column c, in the order of the windows.
Window(r, c, lw, ws) == (r \div ws) * NumWindows(lw, ws) + (c \div ws)
Within(r, c, ws) == (r % ws) * ws + (c % ws)
Place(r, c, lw, ws) == Window(r, c, lw, ws) * (ws * ws) + Within(r, c, ws)

\* The cell at a place.
CellAt(p, lw, ws) ==
    <<((p \div (ws * ws)) \div NumWindows(lw, ws)) * ws + ((p % (ws * ws)) \div ws),
      ((p \div (ws * ws)) % NumWindows(lw, ws)) * ws + ((p % (ws * ws)) % ws)>>

LEMMA PaddedCellsAt ==
    ASSUME NEW lh, NEW lw, NEW ws
    PROVE  PaddedCells(lh, lw, ws) = [k \in 1 .. CellsIn(lh, lw, ws) |-> CellAt(k - 1, lw, ws)]
  BY DEF PaddedCells, CellsIn, CellAt

\* The parts of a place.
LEMMA PlaceParts ==
    ASSUME NEW lw \in Nat \ {0}, NEW ws \in Nat \ {0}, NEW r \in Nat, NEW c \in 0 .. lw - 1
    PROVE  /\ ws * ws \in Nat \ {0} /\ Window(r, c, lw, ws) \in Nat
           /\ Within(r, c, ws) \in 0 .. ws * ws - 1
           /\ Place(r, c, lw, ws) \in Nat
           /\ Place(r, c, lw, ws) \div (ws * ws) = Window(r, c, lw, ws)
           /\ Place(r, c, lw, ws) % (ws * ws) = Within(r, c, ws)
  <1> DEFINE u == ws * ws
             w == Window(r, c, lw, ws)
             i == Within(r, c, ws)
  <1>1. u \in Nat \ {0}
    <2>1. u \in Nat
      BY ProductNat
    <2>2. 1 * ws <= ws * ws
      <3>1. 1 <= ws /\ 1 \in Nat
        OBVIOUS
      <3> QED BY <3>1, ProductMonotone
    <2>3. 1 * ws = ws
      OBVIOUS
    <2> HIDE DEF u
    <2>4. ws <= u
      BY <2>2, <2>3 DEF u
    <2> QED BY <2>1, <2>4
  <1>2. r \div ws \in Nat /\ r % ws \in 0 .. ws - 1
    BY QuotientRemainder
  <1>3. c % ws \in 0 .. ws - 1
    <2>1. c \in Nat
      OBVIOUS
    <2> QED BY <2>1, QuotientRemainder
  <1>4. NumWindows(lw, ws) \in Nat \ {0} /\ c \div ws \in 0 .. NumWindows(lw, ws) - 1
    BY WindowsCover
  <1>5. w \in Nat
    <2> DEFINE q == r \div ws
               m == NumWindows(lw, ws)
               x == q * m
               y == c \div ws
    <2>1. x \in Nat
      <3> HIDE DEF q, m
      <3> QED BY <1>2, <1>4, ProductNat DEF q, m
    <2>2. w = x + y
      BY DEF Window
    <2>3. y \in Nat
      BY <1>4
    <2> HIDE DEF x, w, y
    <2> QED BY <2>1, <2>2, <2>3
  <1>6. i \in 0 .. u - 1
    <2> DEFINE a == r % ws
               b == c % ws
    <2>1. a \in 0 .. ws - 1 /\ b \in 0 .. ws - 1 /\ ws \in Nat
      BY <1>2, <1>3
    <2> HIDE DEF a, b
    <2>2. a * ws + b \in 0 .. ws * ws - 1
      BY <2>1, DigitBound
    <2> QED BY <2>2 DEF a, b, Within
  <1>7. w * u + i \in Nat /\ (w * u + i) \div u = w /\ (w * u + i) % u = i
    <2> HIDE DEF w, u, i
    <2> QED BY <1>1, <1>5, <1>6, RowAndPlace
  <1> QED BY <1>1, <1>5, <1>6, <1>7 DEF Place

\* The cell at the place of a cell is that cell.
LEMMA CellAtPlace ==
    ASSUME NEW lw \in Nat \ {0}, NEW ws \in Nat \ {0}, NEW r \in Nat, NEW c \in 0 .. lw - 1
    PROVE  CellAt(Place(r, c, lw, ws), lw, ws) = <<r, c>>
  <1>0. /\ Place(r, c, lw, ws) \div (ws * ws) = Window(r, c, lw, ws)
        /\ Place(r, c, lw, ws) % (ws * ws) = Within(r, c, ws)
    BY PlaceParts, ZenonT(40)
  <1> DEFINE p == Place(r, c, lw, ws)
             m == NumWindows(lw, ws)
             q == r \div ws
             a == r % ws
             y == c \div ws
             b == c % ws
  <1>1. p \div (ws * ws) = q * m + y /\ p % (ws * ws) = a * ws + b
    BY <1>0, Zenon DEF Window, Within
  <1>2. /\ q \in Nat /\ m \in Nat \ {0} /\ y \in 0 .. m - 1 /\ a \in 0 .. ws - 1 /\ b \in 0 .. ws - 1
        /\ r = q * ws + a /\ c = y * ws + b
    <2>1. q \in Nat /\ a \in 0 .. ws - 1 /\ r = q * ws + a
      BY QuotientRemainder
    <2>2. c \in Nat
      OBVIOUS
    <2>3. b \in 0 .. ws - 1 /\ c = y * ws + b
      BY <2>2, QuotientRemainder
    <2>4. m \in Nat \ {0} /\ y \in 0 .. m - 1
      BY WindowsCover
    <2> QED BY <2>1, <2>3, <2>4
  <1> HIDE DEF p, m, q, a, y, b
  <1>3. (q * m + y) \div m = q /\ (q * m + y) % m = y
    BY <1>2, RowAndPlace
  <1>4. (a * ws + b) \div ws = a /\ (a * ws + b) % ws = b
    BY <1>2, RowAndPlace
  <1>5. CellAt(p, lw, ws) = <<((p \div (ws * ws)) \div m) * ws + ((p % (ws * ws)) \div ws),
                              ((p \div (ws * ws)) % m) * ws + ((p % (ws * ws)) % ws)>>
    BY DEF CellAt, m
  <1>6. CellAt(p, lw, ws) = <<q * ws + a, y * ws + b>>
    BY <1>1, <1>3, <1>4, <1>5
  <1> QED BY <1>2, <1>6 DEF p

\* A cell of the frame is met.
LEMMA PlaceInFrame ==
    ASSUME NEW lh \in Nat \ {0}, NEW lw \in Nat \ {0}, NEW ws \in Nat \ {0},
           NEW r \in 0 .. lh - 1, NEW c \in 0 .. lw - 1
    PROVE  /\ Place(r, c, lw, ws) \in 0 .. CellsIn(lh, lw, ws) - 1
           /\ Window(r, c, lw, ws) \in 0 .. NumWindows(lh, ws) * NumWindows(lw, ws) - 1
  <1> DEFINE n == NumWindows(lh, ws)
             m == NumWindows(lw, ws)
             u == ws * ws
             w == Window(r, c, lw, ws)
             i == Within(r, c, ws)
  <1>1. /\ n \in Nat \ {0} /\ m \in Nat \ {0} /\ u \in Nat /\ r \div ws \in 0 .. n - 1
        /\ c \div ws \in 0 .. m - 1 /\ i \in 0 .. u - 1
    <2>1. n \in Nat \ {0} /\ r \div ws \in 0 .. n - 1
      BY WindowsCover, Zenon
    <2>2. r \in Nat
      OBVIOUS
    <2>3. u \in Nat \ {0} /\ i \in 0 .. u - 1
      BY <2>2, PlaceParts, Zenon
    <2>4. c \div ws \in 0 .. m - 1 /\ m \in Nat \ {0}
      BY WindowsCover, Zenon
    <2> HIDE DEF n, m, u, i
    <2> QED BY <2>1, <2>3, <2>4
  <1>2. w \in 0 .. n * m - 1
    <2> DEFINE q == r \div ws
               y == c \div ws
    <2>1. q \in 0 .. n - 1 /\ y \in 0 .. m - 1 /\ w = q * m + y
      BY <1>1 DEF Window
    <2> HIDE DEF q, y, w, n, m
    <2> QED BY <1>1, <2>1, DigitBound
  <1>3. n * m \in Nat
    <2> HIDE DEF n, m
    <2> QED BY <1>1, ProductNat
  <1>4. w * u + i \in 0 .. (n * m) * u - 1
    <2> DEFINE k == n * m
    <2>1. k \in Nat /\ w \in 0 .. k - 1
      BY <1>2, <1>3
    <2> HIDE DEF w, u, i, k
    <2>2. w * u + i \in 0 .. k * u - 1
      BY <1>1, <2>1, DigitBound
    <2> QED BY <2>2 DEF k
  <1>5. (n * m) * u = CellsIn(lh, lw, ws)
    <2> DEFINE k == n * m
    <2>1. k \in Nat /\ CellsIn(lh, lw, ws) = (k * ws) * ws
      BY <1>3 DEF CellsIn
    <2> HIDE DEF k
    <2>2. k * (ws * ws) = (k * ws) * ws
      BY <2>1, SMT
    <2> QED BY <2>1, <2>2 DEF k
  <1> QED BY <1>2, <1>4, <1>5 DEF Place

\* Every place is that of its cell, which lies in the padded frame.
LEMMA PlaceOfCell ==
    ASSUME NEW lh \in Nat \ {0}, NEW lw \in Nat \ {0}, NEW ws \in Nat \ {0},
           NEW p \in 0 .. CellsIn(lh, lw, ws) - 1
    PROVE  \E r \in Nat, c \in Nat :
             /\ CellAt(p, lw, ws) = <<r, c>>
             /\ c < lw => Place(r, c, lw, ws) = p
  <1> DEFINE n == NumWindows(lh, ws)
             m == NumWindows(lw, ws)
             u == ws * ws
             w == p \div u
             i == p % u
             q == w \div m
             y == w % m
             a == i \div ws
             b == i % ws
             r == q * ws + a
             c == y * ws + b
  <1>1. n \in Nat \ {0} /\ m \in Nat \ {0} /\ n * m \in Nat
    <2>1. n \in Nat \ {0} /\ m \in Nat \ {0}
      BY WindowsCover
    <2> HIDE DEF n, m
    <2> QED BY <2>1, ProductNat
  <1>2. u \in Nat \ {0}
    <2>1. 0 \in Nat /\ 0 \in 0 .. lw - 1
      OBVIOUS
    <2> QED BY <2>1, PlaceParts
  <1>3. p \in 0 .. (n * m) * u - 1
    <2> DEFINE k == n * m
    <2>1. k \in Nat /\ CellsIn(lh, lw, ws) = (k * ws) * ws
      BY <1>1 DEF CellsIn
    <2> HIDE DEF k
    <2>2. k * (ws * ws) = (k * ws) * ws
      BY <2>1, SMT
    <2> QED BY <2>1, <2>2 DEF k
  <1>4. w \in 0 .. n * m - 1 /\ i \in 0 .. u - 1 /\ w * u + i = p
    <2> DEFINE k == n * m
    <2>1. k \in Nat /\ p \in 0 .. k * u - 1
      BY <1>1, <1>3
    <2> HIDE DEF k, u
    <2>2. p \div u \in 0 .. k - 1 /\ p % u \in 0 .. u - 1 /\ (p \div u) * u + (p % u) = p
      BY ZenonT(40), <1>2, <2>1, DigitsOf
    <2> QED BY <2>2 DEF k
  <1>5. q \in 0 .. n - 1 /\ y \in 0 .. m - 1 /\ q * m + y = w
    <2> HIDE DEF w, n, m
    <2> QED BY ZenonT(40), <1>1, <1>4, DigitsOf
  <1>6. a \in 0 .. ws - 1 /\ b \in 0 .. ws - 1 /\ a * ws + b = i
    <2> HIDE DEF i
    <2> QED BY <1>4, DigitsOf
  <1>7. /\ r \in Nat /\ r \div ws = q /\ r % ws = a
        /\ c \in Nat /\ c \div ws = y /\ c % ws = b
    <2>1. q \in Nat /\ y \in Nat
      <3> HIDE DEF q, y, n, m
      <3> QED BY <1>1, <1>5
    <2> HIDE DEF q, y, a, b
    <2> QED BY ZenonT(40), <1>6, <2>1, RowAndPlace
  <1>8. CellAt(p, lw, ws) = <<r, c>>
    BY DEF CellAt
  <1>9. Place(r, c, lw, ws) = p
    <2>1. Window(r, c, lw, ws) = w
      <3> HIDE DEF r, c, q, y, m, w
      <3> QED BY <1>5, <1>7 DEF Window, m
    <2>2. Within(r, c, ws) = i
      <3> HIDE DEF r, c, a, b, i
      <3> QED BY <1>6, <1>7 DEF Within
    <2> HIDE DEF r, c, w, i
    <2> QED BY <1>4, <2>1, <2>2 DEF Place
  <1> QED BY <1>7, <1>8, <1>9
-----------------------------------------------------------------------------
(* The groups of a frame among the padded cells.                           *)

GroupPlace(g, lw, ws) == Place(g \div lw, g % lw, lw, ws) + 1
Reals(lh, lw, ws) == {GroupPlace(g, lw, ws) : g \in Groups(lh, lw)}

LEMMA GroupCell ==
    ASSUME NEW lh \in Nat \ {0}, NEW lw \in Nat \ {0}, NEW g \in Groups(lh, lw)
    PROVE  /\ g \in Nat /\ g \div lw \in 0 .. lh - 1 /\ g % lw \in 0 .. lw - 1
           /\ (g \div lw) * lw + (g % lw) = g
  <1>1. g \in 0 .. lh * lw - 1
    BY DEF Groups
  <1>2. g \div lw \in 0 .. lh - 1 /\ g % lw \in 0 .. lw - 1 /\ (g \div lw) * lw + (g % lw) = g
    BY <1>1, DigitsOf
  <1>3. g \in Nat
    <2> DEFINE n == lh * lw
    <2>1. n \in Nat /\ g \in 0 .. n - 1
      BY <1>1, ProductNat
    <2> HIDE DEF n
    <2> QED BY <2>1
  <1> QED BY <1>2, <1>3

\* Group g is in row r and column c.
Cell(g, lw, r, c) == g \div lw = r /\ g % lw = c

LEMMA GroupMade ==
    ASSUME NEW lh \in Nat \ {0}, NEW lw \in Nat \ {0}, NEW r \in 0 .. lh - 1, NEW c \in 0 .. lw - 1
    PROVE  \E g \in Groups(lh, lw) : Cell(g, lw, r, c)
  <1>1. r * lw + c \in 0 .. lh * lw - 1
    <2>1. lh \in Nat /\ lw \in Nat
      OBVIOUS
    <2> QED BY <2>1, DigitBound
  <1>2. (r * lw + c) \div lw = r /\ (r * lw + c) % lw = c
    <2>1. r \in Nat
      OBVIOUS
    <2> QED BY <2>1, RowAndPlace
  <1> QED BY <1>1, <1>2, Zenon DEF Groups, Cell

LEMMA CellsInNat ==
    ASSUME NEW lh \in Nat \ {0}, NEW lw \in Nat \ {0}, NEW ws \in Nat \ {0}
    PROVE  CellsIn(lh, lw, ws) \in Nat
  <1> DEFINE n == NumWindows(lh, ws)
             m == NumWindows(lw, ws)
  <1>1. n \in Nat /\ m \in Nat
    BY WindowsCover
  <1> HIDE DEF n, m
  <1>2. n * m \in Nat
    BY <1>1, ProductNat
  <1>3. (n * m) * ws \in Nat
    BY <1>2, ProductNat
  <1>4. ((n * m) * ws) * ws \in Nat
    BY <1>3, ProductNat
  <1> QED BY <1>4 DEF CellsIn, n, m

LEMMA GroupPlaceFacts ==
    ASSUME NEW lh \in Nat \ {0}, NEW lw \in Nat \ {0}, NEW ws \in Nat \ {0}, NEW g \in Groups(lh, lw)
    PROVE  /\ GroupPlace(g, lw, ws) \in 1 .. CellsIn(lh, lw, ws)
           /\ CellAt(GroupPlace(g, lw, ws) - 1, lw, ws) = <<g \div lw, g % lw>>
  <1> DEFINE r == g \div lw
             c == g % lw
             p == Place(r, c, lw, ws)
  <1>1. r \in 0 .. lh - 1 /\ c \in 0 .. lw - 1
    BY GroupCell, Zenon
  <1>2. r \in Nat
    BY <1>1
  <1> HIDE DEF r, c
  <1>3. p \in 0 .. CellsIn(lh, lw, ws) - 1
    BY <1>1, PlaceInFrame
  <1>4. CellAt(p, lw, ws) = <<r, c>>
    BY <1>1, <1>2, CellAtPlace
  <1>5. CellsIn(lh, lw, ws) \in Nat
    BY CellsInNat
  <1>6. GroupPlace(g, lw, ws) = p + 1
    BY DEF GroupPlace, r, c
  <1> HIDE DEF p
  <1>7. p + 1 \in 1 .. CellsIn(lh, lw, ws) /\ (p + 1) - 1 = p
    BY <1>3, <1>5
  <1>8. <<r, c>> = <<g \div lw, g % lw>>
    BY DEF r, c
  <1> QED BY <1>4, <1>6, <1>7, <1>8

LEMMA GroupPlaceInjective ==
    ASSUME NEW lh \in Nat \ {0}, NEW lw \in Nat \ {0}, NEW ws \in Nat \ {0},
           NEW g \in Groups(lh, lw), NEW h \in Groups(lh, lw), GroupPlace(g, lw, ws) = GroupPlace(h, lw, ws)
    PROVE  g = h
  <1>1. <<g \div lw, g % lw>> = <<h \div lw, h % lw>>
    <2>1. CellAt(GroupPlace(g, lw, ws) - 1, lw, ws) = <<g \div lw, g % lw>>
      BY GroupPlaceFacts, ZenonT(40)
    <2>2. CellAt(GroupPlace(h, lw, ws) - 1, lw, ws) = <<h \div lw, h % lw>>
      BY GroupPlaceFacts, ZenonT(40)
    <2> QED BY <2>1, <2>2, Zenon
  <1>2. g \div lw = h \div lw /\ g % lw = h % lw
    BY <1>1
  <1>3. (g \div lw) * lw + (g % lw) = g
    BY GroupCell, ZenonT(40)
  <1>4. (h \div lw) * lw + (h % lw) = h
    BY GroupCell, ZenonT(40)
  <1> QED BY <1>2, <1>3, <1>4, Zenon

\* The places of the groups are those of the cells that are not padding.
LEMMA RealPlaces ==
    ASSUME NEW lh \in Nat \ {0}, NEW lw \in Nat \ {0}, NEW ws \in Nat \ {0},
           NEW k \in 1 .. CellsIn(lh, lw, ws)
    PROVE  IsGroup(CellAt(k - 1, lw, ws), lh, lw) <=> k \in Reals(lh, lw, ws)
  <1>1. ASSUME k \in Reals(lh, lw, ws) PROVE IsGroup(CellAt(k - 1, lw, ws), lh, lw)
    <2>1. PICK g \in Groups(lh, lw) : k = GroupPlace(g, lw, ws)
      BY <1>1 DEF Reals
    <2>2. CellAt(k - 1, lw, ws) = <<g \div lw, g % lw>>
      BY <2>1, GroupPlaceFacts, ZenonT(40)
    <2>3. g \div lw \in 0 .. lh - 1 /\ g % lw \in 0 .. lw - 1
      BY GroupCell, Zenon
    <2> DEFINE r == g \div lw
               c == g % lw
    <2> HIDE DEF r, c
    <2>4. r < lh /\ c < lw
      BY <2>3 DEF r, c
    <2>5. CellAt(k - 1, lw, ws) = <<r, c>>
      BY <2>2 DEF r, c
    <2> QED BY <2>4, <2>5 DEF IsGroup
  <1>2. ASSUME IsGroup(CellAt(k - 1, lw, ws), lh, lw) PROVE k \in Reals(lh, lw, ws)
    <2>1. k - 1 \in 0 .. CellsIn(lh, lw, ws) - 1 /\ k \in Int
      BY CellsInNat
    <2> DEFINE p == k - 1
    <2> HIDE DEF p
    <2>2. PICK r \in Nat, c \in Nat :
             /\ CellAt(p, lw, ws) = <<r, c>>
             /\ c < lw => Place(r, c, lw, ws) = p
      BY <2>1, PlaceOfCell DEF p
    <2>3. r < lh /\ c < lw
      BY <1>2, <2>2 DEF IsGroup, p
    <2>4. r \in 0 .. lh - 1 /\ c \in 0 .. lw - 1
      BY <2>3
    <2>5. PICK g \in Groups(lh, lw) : Cell(g, lw, r, c)
      BY <2>4, GroupMade
    <2>6. GroupPlace(g, lw, ws) = p + 1
      BY <2>2, <2>3, <2>5 DEF GroupPlace, Cell
    <2>7. p + 1 = k
      BY <2>1 DEF p
    <2> QED BY <2>5, <2>6, <2>7 DEF Reals
  <1> QED BY <1>1, <1>2

\* The compiled graph puts the groups in the order of their places.
LEMMA BeforeIsPlace ==
    ASSUME NEW lh \in Nat \ {0}, NEW lw \in Nat \ {0}, NEW ws \in Nat \ {0},
           NEW g \in Groups(lh, lw), NEW h \in Groups(lh, lw)
    PROVE  /\ Before(g, h, lw, ws) <=> GroupPlace(g, lw, ws) < GroupPlace(h, lw, ws)
           /\ WindowOf(g, lw, ws) = WindowOf(h, lw, ws)
                <=> Window(g \div lw, g % lw, lw, ws) = Window(h \div lw, h % lw, lw, ws)
  <1> DEFINE m == NumWindows(lw, ws)
             u == ws * ws
             r1 == g \div lw
             c1 == g % lw
             r2 == h \div lw
             c2 == h % lw
             A1 == r1 \div ws
             a1 == r1 % ws
             B1 == c1 \div ws
             b1 == c1 % ws
             A2 == r2 \div ws
             a2 == r2 % ws
             B2 == c2 \div ws
             b2 == c2 % ws
             W1 == Window(r1, c1, lw, ws)
             W2 == Window(r2, c2, lw, ws)
             I1 == Within(r1, c1, ws)
             I2 == Within(r2, c2, ws)
  <1>1. /\ r1 \in Nat /\ c1 \in 0 .. lw - 1 /\ c1 \in Nat /\ r1 * lw + c1 = g
        /\ r2 \in Nat /\ c2 \in 0 .. lw - 1 /\ c2 \in Nat /\ r2 * lw + c2 = h
    <2>1. r1 \in 0 .. lh - 1 /\ c1 \in 0 .. lw - 1 /\ r1 * lw + c1 = g
      BY GroupCell, ZenonT(40)
    <2>2. r2 \in 0 .. lh - 1 /\ c2 \in 0 .. lw - 1 /\ r2 * lw + c2 = h
      BY GroupCell, ZenonT(40)
    <2> HIDE DEF r1, c1, r2, c2
    <2> QED BY <2>1, <2>2
  <1>2. /\ GroupPlace(g, lw, ws) = (W1 * u + I1) + 1 /\ WindowOf(g, lw, ws) = <<A1, B1>>
        /\ GroupPlace(h, lw, ws) = (W2 * u + I2) + 1 /\ WindowOf(h, lw, ws) = <<A2, B2>>
    BY DEF GroupPlace, Place, WindowOf
  <1>3. W1 = A1 * m + B1 /\ I1 = a1 * ws + b1 /\ W2 = A2 * m + B2 /\ I2 = a2 * ws + b2
    BY DEF Window, Within
  <1> HIDE DEF r1, c1, r2, c2
  <1>4. /\ A1 \in Nat /\ a1 \in 0 .. ws - 1 /\ r1 = A1 * ws + a1
        /\ A2 \in Nat /\ a2 \in 0 .. ws - 1 /\ r2 = A2 * ws + a2
        /\ b1 \in 0 .. ws - 1 /\ c1 = B1 * ws + b1
        /\ b2 \in 0 .. ws - 1 /\ c2 = B2 * ws + b2
    BY <1>1, QuotientRemainder
  <1>5. m \in Nat \ {0} /\ B1 \in 0 .. m - 1 /\ B2 \in 0 .. m - 1
    BY <1>1, WindowsCover
  <1>6. /\ u \in Nat \ {0} /\ W1 \in Nat /\ W2 \in Nat /\ I1 \in 0 .. u - 1 /\ I2 \in 0 .. u - 1
    <2>1. u \in Nat \ {0} /\ W1 \in Nat /\ I1 \in 0 .. u - 1
      BY <1>1, PlaceParts, Zenon
    <2>2. W2 \in Nat /\ I2 \in 0 .. u - 1
      BY <1>1, PlaceParts, Zenon
    <2> QED BY <2>1, <2>2
  <1> HIDE DEF m, u, A1, A2, a1, a2, B1, B2, b1, b2, W1, W2, I1, I2
  <1>7. /\ W1 < W2 <=> A1 < A2 \/ (A1 = A2 /\ B1 < B2)
        /\ W2 < W1 <=> A2 < A1 \/ (A2 = A1 /\ B2 < B1)
    BY <1>3, <1>4, <1>5, DigitOrder
  <1>8. I1 < I2 <=> a1 < a2 \/ (a1 = a2 /\ b1 < b2)
    <2>1. a1 \in Nat /\ a2 \in Nat
      BY <1>4
    <2> QED BY <1>3, <1>4, <2>1, DigitOrder
  <1>9. g < h <=> r1 < r2 \/ (r1 = r2 /\ c1 < c2)
    BY <1>1, DigitOrder
  <1>10. /\ r1 < r2 <=> A1 < A2 \/ (A1 = A2 /\ a1 < a2)
         /\ r2 < r1 <=> A2 < A1 \/ (A2 = A1 /\ a2 < a1)
    BY <1>4, DigitOrder
  <1>11. c1 < c2 <=> B1 < B2 \/ (B1 = B2 /\ b1 < b2)
    <2>1. B1 \in Nat /\ B2 \in Nat
      BY <1>5
    <2> QED BY <1>4, <2>1, DigitOrder
  <1>12. W1 * u + I1 < W2 * u + I2 <=> W1 < W2 \/ (W1 = W2 /\ I1 < I2)
    BY <1>6, DigitOrder
  <1>13. W1 = W2 <=> A1 = A2 /\ B1 = B2
    BY <1>4, <1>5, <1>6, <1>7
  <1>14. Before(g, h, lw, ws) <=>
           IF A1 = A2 /\ B1 = B2 THEN g < h ELSE A1 < A2 \/ (A1 = A2 /\ B1 < B2)
    <2>1. <<A1, B1>> = <<A2, B2>> <=> A1 = A2 /\ B1 = B2
      OBVIOUS
    <2> QED BY <1>2, <2>1 DEF Before
  <1>15. GroupPlace(g, lw, ws) < GroupPlace(h, lw, ws) <=> W1 * u + I1 < W2 * u + I2
    <2> DEFINE x == W1 * u
               y == W2 * u
    <2>1. x \in Nat /\ y \in Nat
      BY <1>6, ProductNat
    <2> HIDE DEF x, y
    <2>2. (x + I1) + 1 < (y + I2) + 1 <=> x + I1 < y + I2
      BY <1>6, <2>1
    <2> QED BY <1>2, <2>2 DEF x, y
  <1>16. Before(g, h, lw, ws) <=> GroupPlace(g, lw, ws) < GroupPlace(h, lw, ws)
    <2>1. CASE A1 = A2 /\ B1 = B2
      <3>1. W1 * u + I1 < W2 * u + I2 <=> I1 < I2
        BY <1>6, <1>7, <1>12, <1>13, <2>1
      <3>2. I1 < I2 <=> r1 < r2 \/ (r1 = r2 /\ c1 < c2)
        BY <1>1, <1>4, <1>8, <1>10, <1>11, <1>5, <2>1
      <3> QED BY <1>9, <1>14, <1>15, <2>1, <3>1, <3>2
    <2>2. CASE ~ (A1 = A2 /\ B1 = B2)
      <3>1. W1 * u + I1 < W2 * u + I2 <=> W1 < W2
        BY <1>12, <1>13, <2>2
      <3> QED BY <1>7, <1>14, <1>15, <2>2, <3>1
    <2> QED BY <2>1, <2>2
  <1>17. WindowOf(g, lw, ws) = WindowOf(h, lw, ws) <=> W1 = W2
    BY <1>2, <1>13
  <1> QED BY <1>16, <1>17 DEF W1, W2, r1, r2, c1, c2
-----------------------------------------------------------------------------
(* The order of the windows.                                               *)

\* Groups are met at the places of the cells that are not padding.
LEMMA PlacesMet ==
    ASSUME NEW lh \in Nat \ {0}, NEW lw \in Nat \ {0}, NEW ws \in Nat \ {0}, NEW k \in Nat
    PROVE  Cardinality({h \in Groups(lh, lw) : GroupPlace(h, lw, ws) <= k}) = Count(Reals(lh, lw, ws), k)
  <1> DEFINE S == {h \in Groups(lh, lw) : GroupPlace(h, lw, ws) <= k}
             D == {j \in 1 .. k : j \in Reals(lh, lw, ws)}
             f == [h \in S |-> GroupPlace(h, lw, ws)]
  <1>1. \A h \in Groups(lh, lw) : GroupPlace(h, lw, ws) \in Nat \ {0} /\ GroupPlace(h, lw, ws) \in Reals(lh, lw, ws)
    <2> SUFFICES ASSUME NEW h \in Groups(lh, lw)
                 PROVE  GroupPlace(h, lw, ws) \in Nat \ {0} /\ GroupPlace(h, lw, ws) \in Reals(lh, lw, ws)
      OBVIOUS
    <2>1. GroupPlace(h, lw, ws) \in 1 .. CellsIn(lh, lw, ws)
      BY GroupPlaceFacts
    <2> QED BY <2>1, CellsInNat DEF Reals
  <1>2. f \in [S -> D]
    BY <1>1
  <1>3. ASSUME NEW g \in S, NEW h \in S, f[g] = f[h] PROVE g = h
    BY <1>3, GroupPlaceInjective
  <1>4. ASSUME NEW j \in D PROVE \E h \in S : f[h] = j
    <2>1. PICK h \in Groups(lh, lw) : j = GroupPlace(h, lw, ws)
      BY DEF Reals
    <2>2. h \in S
      BY <2>1
    <2> QED BY <2>1, <2>2
  <1>5. IsFiniteSet(S)
    <2>1. IsFiniteSet(Groups(lh, lw))
      <3>1. 0 \in Int /\ lh * lw - 1 \in Int
        BY ProductNat
      <3> QED BY <3>1, FS_Interval DEF Groups
    <2>2. S \in SUBSET Groups(lh, lw)
      OBVIOUS
    <2> HIDE DEF S
    <2> QED BY <2>1, <2>2, FS_Subset
  <1> HIDE DEF S, D, f
  <1>6. f \in Bijection(S, D)
    BY <1>2, <1>3, <1>4 DEF Bijection, Injection, Surjection, IsInjective
  <1>7. ExistsBijection(S, D)
    BY <1>6 DEF ExistsBijection
  <1>8. Cardinality(D) = Cardinality(S)
    BY <1>5, <1>7, FS_Bijection
  <1> QED BY <1>8 DEF S, D, Count

\* How many groups are met before g.
Rank(g, lh, lw, ws) == Count(Reals(lh, lw, ws), GroupPlace(g, lw, ws) - 1)

LEMMA RankCounts ==
    ASSUME NEW lh \in Nat \ {0}, NEW lw \in Nat \ {0}, NEW ws \in Nat \ {0}, NEW g \in Groups(lh, lw)
    PROVE  Cardinality({h \in Groups(lh, lw) : Before(h, g, lw, ws)}) = Rank(g, lh, lw, ws)
  <1> DEFINE k == GroupPlace(g, lw, ws) - 1
  <1>1. GroupPlace(g, lw, ws) \in Nat \ {0} /\ k \in Nat
    <2>1. GroupPlace(g, lw, ws) \in 1 .. CellsIn(lh, lw, ws)
      BY GroupPlaceFacts
    <2> QED BY <2>1, CellsInNat
  <1>2. ASSUME NEW h \in Groups(lh, lw) PROVE Before(h, g, lw, ws) <=> GroupPlace(h, lw, ws) <= k
    <2>1. Before(h, g, lw, ws) <=> GroupPlace(h, lw, ws) < GroupPlace(g, lw, ws)
      BY BeforeIsPlace, Zenon
    <2>2. GroupPlace(h, lw, ws) \in 1 .. CellsIn(lh, lw, ws)
      BY GroupPlaceFacts
    <2> QED BY <1>1, <2>1, <2>2, CellsInNat
  <1>3. {h \in Groups(lh, lw) : Before(h, g, lw, ws)} = {h \in Groups(lh, lw) : GroupPlace(h, lw, ws) <= k}
    BY <1>2
  <1> HIDE DEF k
  <1>4. Cardinality({h \in Groups(lh, lw) : GroupPlace(h, lw, ws) <= k}) = Count(Reals(lh, lw, ws), k)
    BY <1>1, PlacesMet
  <1> QED BY <1>3, <1>4 DEF Rank, k

\* The walk meets them all.
LEMMA AllMet ==
    ASSUME NEW lh \in Nat \ {0}, NEW lw \in Nat \ {0}, NEW ws \in Nat \ {0}
    PROVE  Count(Reals(lh, lw, ws), CellsIn(lh, lw, ws)) = lh * lw
  <1> DEFINE k == CellsIn(lh, lw, ws)
  <1>1. k \in Nat
    BY CellsInNat
  <1>2. ASSUME NEW h \in Groups(lh, lw) PROVE GroupPlace(h, lw, ws) <= k
    <2>1. GroupPlace(h, lw, ws) \in 1 .. CellsIn(lh, lw, ws)
      BY GroupPlaceFacts
    <2> QED BY <1>1, <2>1
  <1>3. {h \in Groups(lh, lw) : GroupPlace(h, lw, ws) <= k} = Groups(lh, lw)
    BY <1>2
  <1> HIDE DEF k
  <1>4. Cardinality({h \in Groups(lh, lw) : GroupPlace(h, lw, ws) <= k}) = Count(Reals(lh, lw, ws), k)
    BY <1>1, PlacesMet
  <1>5. Cardinality(Groups(lh, lw)) = lh * lw
    <2> DEFINE n == lh * lw
    <2>1. n \in Nat
      BY ProductNat
    <2> HIDE DEF n
    <2>2. 0 \in Int /\ n - 1 \in Int
      BY <2>1
    <2>3. Cardinality(0 .. n - 1) = IF 0 > n - 1 THEN 0 ELSE (n - 1) - 0 + 1
      BY <2>2, FS_Interval
    <2>4. Cardinality(0 .. n - 1) = n
      BY <2>1, <2>3
    <2> QED BY <2>4 DEF Groups, n
  <1> QED BY <1>3, <1>4, <1>5 DEF k

\* The index that computeWindowIndex makes: a permutation whose inverse is the rank.
Permutes(wi, lh, lw, ws) ==
    /\ wi \in [Groups(lh, lw) -> Groups(lh, lw)]
    /\ \A g \in Groups(lh, lw) : Rank(g, lh, lw, ws) \in Groups(lh, lw) /\ wi[Rank(g, lh, lw, ws)] = g
    /\ \A k \in Groups(lh, lw) : Rank(wi[k], lh, lw, ws) = k

LEMMA WindowIndexPermutes ==
    ASSUME NEW lh \in Nat \ {0}, NEW lw \in Nat \ {0}, NEW ws \in Nat \ {0}
    PROVE  Permutes(ComputeWindowIndex(lh, lw, ws), lh, lw, ws)
  <1> DEFINE G == Groups(lh, lw)
             N == CellsIn(lh, lw, ws)
             K == Reals(lh, lw, ws)
             v == [k \in 1 .. N |-> CellAt(k - 1, lw, ws)[1] * lw + CellAt(k - 1, lw, ws)[2]]
             p == Pushed(v, K, N)
             wi == ComputeWindowIndex(lh, lw, ws)
             P(g) == GroupPlace(g, lw, ws)
             n == lh * lw
  <1>1. N \in Nat /\ n \in Nat /\ Count(K, N) = n /\ G = 0 .. n - 1
    BY CellsInNat, AllMet, ProductNat DEF Groups
  <1>2. wi = AsTable(p)
    <2> DEFINE cells == PaddedCells(lh, lw, ws)
               made == [k \in DOMAIN cells |-> IF IsGroup(cells[k], lh, lw) THEN <<cells[k][1] * lw + cells[k][2]>> ELSE <<>>]
    <2>1. cells = [k \in 1 .. N |-> CellAt(k - 1, lw, ws)]
      BY PaddedCellsAt
    <2>2. DOMAIN cells = 1 .. N /\ \A k \in 1 .. N : cells[k] = CellAt(k - 1, lw, ws)
      BY <2>1
    <2>3. ASSUME NEW k \in 1 .. N
          PROVE  (IF IsGroup(cells[k], lh, lw) THEN <<cells[k][1] * lw + cells[k][2]>> ELSE <<>>)
                    = (IF k \in K THEN <<v[k]>> ELSE <<>>)
      <3>1. IsGroup(CellAt(k - 1, lw, ws), lh, lw) <=> k \in K
        BY RealPlaces
      <3> HIDE DEF cells, K
      <3> QED BY <2>2, <3>1
    <2>4. made = PushOrNot(v, K, N)
      <3> HIDE DEF cells, K, v
      <3> QED BY <2>2, <2>3 DEF PushOrNot
    <2> QED BY <2>4 DEF ComputeWindowIndex, Pushed
  <1>3. ASSUME NEW g \in G PROVE P(g) \in 1 .. N /\ P(g) \in K /\ v[P(g)] = g
    <2>1. P(g) \in 1 .. N /\ CellAt(P(g) - 1, lw, ws) = <<g \div lw, g % lw>>
      BY GroupPlaceFacts, ZenonT(40)
    <2>2. (g \div lw) * lw + (g % lw) = g
      BY GroupCell, ZenonT(40)
    <2>3. CellAt(P(g) - 1, lw, ws)[1] * lw + CellAt(P(g) - 1, lw, ws)[2] = g
      <3>1. <<g \div lw, g % lw>>[1] = g \div lw /\ <<g \div lw, g % lw>>[2] = g % lw
        OBVIOUS
      <3> QED BY <2>1, <2>2, <3>1, Zenon
    <2>4. P(g) \in K
      BY DEF Reals
    <2> QED BY <2>1, <2>3, <2>4
  <1>4. ASSUME NEW k \in 1 .. N, k \in K PROVE \E g \in G : k = P(g)
    BY <1>4 DEF Reals
  <1>5. \A k \in 1 .. N : k \in K => v[k] \in G
    <2> HIDE DEF v, G, K, N
    <2> SUFFICES ASSUME NEW k \in 1 .. N, k \in K PROVE v[k] \in G
      OBVIOUS
    <2>1. PICK g \in G : k = P(g)
      BY <1>4
    <2> QED BY <1>3, <2>1
  <1>6. PushedInOrder(G, v, K, N)
    <2> HIDE DEF v, G, K, N
    <2> QED BY <1>1, <1>5, PushedFacts
  <1>7. ASSUME NEW g \in G
        PROVE  /\ Rank(g, lh, lw, ws) \in G /\ wi[Rank(g, lh, lw, ws)] = g
               /\ Count(K, P(g)) = Rank(g, lh, lw, ws) + 1
    <2>1. P(g) \in Nat \ {0} /\ P(g) \in K /\ P(g) \in 1 .. N /\ v[P(g)] = g
      <3>1. P(g) \in 1 .. N /\ P(g) \in K /\ v[P(g)] = g
        BY <1>3, Zenon
      <3> HIDE DEF v, K, N, P
      <3>2. P(g) \in Nat \ {0}
        BY <1>1, <3>1
      <3> QED BY <3>1, <3>2
    <2>2. Count(K, P(g)) = Count(K, P(g) - 1) + 1 /\ Rank(g, lh, lw, ws) = Count(K, P(g) - 1)
      <3> HIDE DEF K
      <3> QED BY <2>1, CountMember DEF Rank, K
    <2>3. Count(K, P(g)) \in 1 .. n /\ p[Count(K, P(g))] = g /\ Len(p) = n
      <3> HIDE DEF K, v, N, p, n
      <3> QED BY <1>1, <1>6, <2>1 DEF PushedInOrder, p
    <2>4. Count(K, P(g) - 1) \in Nat
      <3> HIDE DEF K
      <3>1. P(g) - 1 \in Nat
        BY <2>1
      <3> QED BY <3>1, CountFacts
    <2> HIDE DEF K, v, N, p, wi, n
    <2>5. Rank(g, lh, lw, ws) \in 0 .. n - 1 /\ Count(K, P(g)) = Rank(g, lh, lw, ws) + 1
      BY <1>1, <2>2, <2>3, <2>4
    <2>6. wi[Rank(g, lh, lw, ws)] = p[Rank(g, lh, lw, ws) + 1]
      BY <1>2, <2>3, <2>5 DEF AsTable
    <2> QED BY <1>1, <2>3, <2>5, <2>6
  <1>8. wi \in [G -> G]
    <2> HIDE DEF K, v, N, p, wi, n, G
    <2>1. p \in Seq(G) /\ Len(p) = n
      BY <1>1, <1>6 DEF PushedInOrder, p
    <2>2. wi = [i \in 0 .. n - 1 |-> p[i + 1]]
      BY <1>2, <2>1 DEF AsTable
    <2>3. \A i \in 0 .. n - 1 : p[i + 1] \in G
      BY <1>1, <2>1
    <2> QED BY <1>1, <2>2, <2>3
  <1>9. ASSUME NEW k \in G PROVE Rank(wi[k], lh, lw, ws) = k
    <2> HIDE DEF K, v, N, p, wi, n, G
    <2>1. k + 1 \in 1 .. n /\ k \in Nat
      BY <1>1
    <2>2. PICK j \in 1 .. N : j \in K /\ Count(K, j) = k + 1
      BY <1>1, <1>6, <2>1 DEF PushedInOrder
    <2>3. PICK g \in G : j = P(g)
      BY <1>4, <2>2
    <2>4. Rank(g, lh, lw, ws) + 1 = k + 1 /\ wi[Rank(g, lh, lw, ws)] = g /\ Rank(g, lh, lw, ws) \in G
      BY <1>7, <2>2, <2>3
    <2>5. Rank(g, lh, lw, ws) = k
      BY <1>1, <2>1, <2>4
    <2> QED BY <2>4, <2>5
  <1> QED BY <1>7, <1>8, <1>9 DEF Permutes

\* The host's index is the order of the compiled graph.
LEMMA GraphOrderIsWindowIndex ==
    ASSUME NEW lh \in Nat \ {0}, NEW lw \in Nat \ {0}, NEW ws \in Nat \ {0}
    PROVE  GraphOrder(lh, lw, ws) = ComputeWindowIndex(lh, lw, ws)
  <1> DEFINE G == Groups(lh, lw)
             wi == ComputeWindowIndex(lh, lw, ws)
             rank(g) == Cardinality({h \in G : Before(h, g, lw, ws)})
             R(g) == Rank(g, lh, lw, ws)
  <1>1. Permutes(wi, lh, lw, ws)
    BY WindowIndexPermutes
  <1>2. \A g \in G : rank(g) = R(g)
    BY RankCounts
  <1>3. wi \in [G -> G] /\ (\A g \in G : wi[R(g)] = g) /\ (\A k \in G : R(wi[k]) = k)
    BY <1>1 DEF Permutes
  <1>4. ASSUME NEW k \in G PROVE (CHOOSE g \in G : rank(g) = k) = wi[k]
    <2> HIDE DEF G, wi, rank, R
    <2>1. wi[k] \in G /\ rank(wi[k]) = k
      BY <1>2, <1>3
    <2>2. ASSUME NEW g \in G, rank(g) = k PROVE g = wi[k]
      BY <1>2, <1>3, <2>2
    <2> QED BY <2>1, <2>2
  <1>5. GraphOrder(lh, lw, ws) = [k \in G |-> CHOOSE g \in G : rank(g) = k]
    BY DEF GraphOrder
  <1> HIDE DEF G, wi, rank, R
  <1>6. [k \in G |-> CHOOSE g \in G : rank(g) = k] = wi
    BY <1>3, <1>4
  <1> QED BY <1>5, <1>6 DEF wi

\* And its reverse is the rank.
LEMMA ReverseIsRank ==
    ASSUME NEW lh, NEW lw, NEW ws, NEW wi, Permutes(wi, lh, lw, ws), NEW g \in Groups(lh, lw)
    PROVE  ReverseWindowIndex(wi)[g] = Rank(g, lh, lw, ws)
  <1> DEFINE G == Groups(lh, lw)
             R(h) == Rank(h, lh, lw, ws)
  <1>1. wi \in [G -> G] /\ (\A h \in G : R(h) \in G /\ wi[R(h)] = h) /\ (\A k \in G : R(wi[k]) = k)
    BY DEF Permutes
  <1>2. DOMAIN wi = G
    BY <1>1
  <1>3. g \in G
    OBVIOUS
  <1>4. R(g) = Rank(g, lh, lw, ws)
    OBVIOUS
  <1> HIDE DEF G, R
  <1>5. ReverseWindowIndex(wi)[g] = CHOOSE i \in G : wi[i] = g
    BY <1>2, <1>3 DEF ReverseWindowIndex
  <1>6. R(g) \in G /\ wi[R(g)] = g
    BY <1>1, <1>3
  <1>7. ASSUME NEW i \in G, wi[i] = g PROVE i = R(g)
    BY <1>1, <1>7
  <1> QED BY <1>4, <1>5, <1>6, <1>7
-----------------------------------------------------------------------------
(* The rotation: patch j of the k-th group.                                *)

\* Patch j of group g stands at its place in the frame.
PatchAt(g, j, lw, sm) == <<(g \div lw) * sm + (j \div sm), (g % lw) * sm + (j % sm)>>

LEMMA PatchOfGroup ==
    ASSUME NEW n \in Nat, NEW sm \in Nat \ {0}, NEW k \in 0 .. n - 1, NEW j \in 0 .. sm * sm - 1
    PROVE  /\ k * (sm * sm) + j \in 0 .. n * sm * sm - 1
           /\ (k * (sm * sm) + j) \div (sm * sm) = k
           /\ (k * (sm * sm) + j) % (sm * sm) = j
  <1> DEFINE u == sm * sm
  <1>1. u \in Nat
    BY ProductNat
  <1>2. u # 0
    BY SMT
  <1>3. n * sm * sm = n * u
    BY SMT
  <1>4. j \in 0 .. u - 1
    OBVIOUS
  <1> HIDE DEF u
  <1>5. k * u + j \in 0 .. n * u - 1
    BY <1>1, <1>4, DigitBound
  <1>6. k \in Nat /\ u \in Nat \ {0}
    BY <1>1, <1>2
  <1>7. (k * u + j) \div u = k /\ (k * u + j) % u = j
    BY <1>4, <1>6, RowAndPlace
  <1> QED BY <1>3, <1>5, <1>7 DEF u

LEMMA RotatedInPlace ==
    ASSUME NEW lh \in Nat \ {0}, NEW lw \in Nat \ {0}, NEW sm \in Nat \ {0},
           NEW g \in Groups(lh, lw), NEW j \in 0 .. sm * sm - 1
    PROVE  PatchRoPE(lh, lw, sm)[g * (sm * sm) + j] = PatchAt(g, j, lw, sm)
  <1> DEFINE u == sm * sm
             n == lh * lw
             p == g * (sm * sm) + j
  <1>1. n \in Nat /\ g \in 0 .. n - 1
    BY ProductNat DEF Groups
  <1>2. p \in 0 .. n * sm * sm - 1 /\ p \div u = g /\ p % u = j
    <2> HIDE DEF n
    <2> QED BY <1>1, PatchOfGroup
  <1> HIDE DEF p
  <1>3. PatchRoPE(lh, lw, sm)[p] = PatchAt(p \div u, p % u, lw, sm)
    BY <1>2 DEF PatchRoPE, PatchAt
  <1> QED BY <1>2, <1>3 DEF p

LEMMA ReorderedInPlace ==
    ASSUME NEW lh \in Nat \ {0}, NEW lw \in Nat \ {0}, NEW sm \in Nat \ {0},
           NEW wi \in [Groups(lh, lw) -> Groups(lh, lw)],
           NEW k \in Groups(lh, lw), NEW j \in 0 .. sm * sm - 1
    PROVE  WindowReorder(PatchRoPE(lh, lw, sm), sm * sm, wi)[k * (sm * sm) + j] = PatchAt(wi[k], j, lw, sm)
  <1> DEFINE u == sm * sm
             n == lh * lw
             p == k * (sm * sm) + j
             rope == PatchRoPE(lh, lw, sm)
  <1>1. n \in Nat /\ k \in 0 .. n - 1
    BY ProductNat DEF Groups
  <1>2. p \in 0 .. n * sm * sm - 1 /\ p \div u = k /\ p % u = j
    <2> HIDE DEF n
    <2> QED BY <1>1, PatchOfGroup
  <1>3. DOMAIN rope = 0 .. n * sm * sm - 1
    BY DEF PatchRoPE
  <1>4. rope[wi[k] * u + j] = PatchAt(wi[k], j, lw, sm)
    <2>1. wi[k] \in Groups(lh, lw)
      OBVIOUS
    <2> QED BY <2>1, RotatedInPlace
  <1> HIDE DEF p, rope, n, u
  <1>5. WindowReorder(rope, u, wi)[p] = rope[wi[p \div u] * u + (p % u)]
    BY <1>2, <1>3 DEF WindowReorder
  <1>6. WindowReorder(rope, u, wi)[p] = PatchAt(wi[k], j, lw, sm)
    BY <1>2, <1>4, <1>5
  <1> QED BY <1>6 DEF p, rope, u
-----------------------------------------------------------------------------
(* The windows' boundaries.                                                *)

LEMMA CountBetween ==
    ASSUME NEW K, NEW m \in Nat, NEW n \in Nat, m <= n
    PROVE  Cardinality({k \in m + 1 .. n : k \in K}) = Count(K, n) - Count(K, m)
  <1> DEFINE C == {k \in 1 .. m : k \in K}
             D == {k \in 1 .. n : k \in K}
             E == {k \in m + 1 .. n : k \in K}
  <1>1. IsFiniteSet(1 .. n) /\ D \in SUBSET (1 .. n) /\ D \cap C = C /\ E = D \ C
    BY FS_Interval
  <1> HIDE DEF C, D, E
  <1>2. IsFiniteSet(D)
    BY <1>1, FS_Subset
  <1>3. Cardinality(E) = Cardinality(D) - Cardinality(D \cap C)
    BY <1>1, <1>2, FS_Difference
  <1> QED BY <1>1, <1>3 DEF Count, C, D, E

\* How many groups lie in the windows before w, and how many windows there are.
GroupsBefore(w, lh, lw, ws) == Count(Reals(lh, lw, ws), w * (ws * ws))
Windows(lh, lw, ws) == NumWindows(lh, ws) * NumWindows(lw, ws)

LEMMA WindowsInNat ==
    ASSUME NEW lh \in Nat \ {0}, NEW lw \in Nat \ {0}, NEW ws \in Nat \ {0}
    PROVE  /\ Windows(lh, lw, ws) \in Nat /\ ws * ws \in Nat \ {0}
           /\ CellsIn(lh, lw, ws) = Windows(lh, lw, ws) * (ws * ws)
  <1> DEFINE n == NumWindows(lh, ws)
             m == NumWindows(lw, ws)
             w == n * m
  <1>1. n \in Nat /\ m \in Nat
    BY WindowsCover
  <1> HIDE DEF n, m
  <1>2. w \in Nat
    BY <1>1, ProductNat
  <1> HIDE DEF w
  <1>3. (w * ws) * ws = w * (ws * ws) /\ ws * ws \in Nat \ {0}
    <2>1. ws * ws \in Nat
      BY ProductNat
    <2>2. ws * ws # 0
      BY SMT
    <2>3. (w * ws) * ws = w * (ws * ws)
      BY <1>2, SMT
    <2> QED BY <2>1, <2>2, <2>3
  <1> QED BY <1>2, <1>3 DEF Windows, CellsIn, w, n, m

LEMMA GroupsBeforeNat ==
    ASSUME NEW lh \in Nat \ {0}, NEW lw \in Nat \ {0}, NEW ws \in Nat \ {0}, NEW w \in Nat
    PROVE  GroupsBefore(w, lh, lw, ws) \in Nat /\ w * (ws * ws) \in Nat /\ GroupsBefore(0, lh, lw, ws) = 0
  <1> DEFINE k == w * (ws * ws)
  <1>1. k \in Nat
    BY WindowsInNat, ProductNat
  <1>2. 0 * (ws * ws) = 0
    <2> DEFINE u == ws * ws
    <2>1. u \in Nat
      BY WindowsInNat
    <2> HIDE DEF u
    <2> QED BY <2>1 DEF u
  <1> DEFINE K == Reals(lh, lw, ws)
  <1> HIDE DEF k, K
  <1>3. Count(K, k) \in 0 .. k /\ Count(K, 0) = 0
    BY <1>1, CountFacts
  <1>4. Count(K, k) \in Nat
    BY <1>1, <1>3
  <1> QED BY <1>1, <1>2, <1>3, <1>4 DEF GroupsBefore, k, K

\* The rank of a group is within its window's boundaries and no others.
LEMMA RankInWindow ==
    ASSUME NEW lh \in Nat \ {0}, NEW lw \in Nat \ {0}, NEW ws \in Nat \ {0}, NEW g \in Groups(lh, lw)
    PROVE  /\ Window(g \div lw, g % lw, lw, ws) \in 0 .. Windows(lh, lw, ws) - 1
           /\ Rank(g, lh, lw, ws) \in Nat
           /\ \A b \in Nat :
                Window(g \div lw, g % lw, lw, ws) = b <=>
                  GroupsBefore(b, lh, lw, ws) <= Rank(g, lh, lw, ws) /\ Rank(g, lh, lw, ws) < GroupsBefore(b + 1, lh, lw, ws)
  <1> DEFINE r == g \div lw
             c == g % lw
             u == ws * ws
             w == Window(r, c, lw, ws)
             i == Within(r, c, ws)
             K == Reals(lh, lw, ws)
             P == GroupPlace(g, lw, ws)
             R == Rank(g, lh, lw, ws)
             B(b) == GroupsBefore(b, lh, lw, ws)
  <1>1. r \in 0 .. lh - 1 /\ c \in 0 .. lw - 1 /\ r \in Nat
    <2>1. r \in 0 .. lh - 1 /\ c \in 0 .. lw - 1
      BY GroupCell, Zenon
    <2> HIDE DEF r, c
    <2> QED BY <2>1
  <1>2. P = w * u + i + 1 /\ P \in K
    BY DEF GroupPlace, Place, Reals
  <1>3. R = Count(K, P - 1)
    BY DEF Rank
  <1>4. \A b : B(b) = Count(K, b * u)
    BY DEF GroupsBefore
  <1> HIDE DEF r, c
  <1>5. w \in Nat /\ u \in Nat \ {0} /\ i \in 0 .. u - 1
    BY <1>1, PlaceParts, Zenon
  <1>6. w \in 0 .. Windows(lh, lw, ws) - 1
    BY <1>1, PlaceInFrame, Zenon DEF Windows
  <1> HIDE DEF u, w, i, P, K, R, B
  <1> DEFINE x == w * u
  <1>7. x \in Nat
    BY <1>5, ProductNat
  <1>8. P = x + i + 1
    BY <1>2
  <1> HIDE DEF x
  <1>9. P \in Nat \ {0} /\ P - 1 \in Nat /\ P - 1 = x + i
    BY <1>5, <1>7, <1>8
  <1>10. Count(K, P) = R + 1 /\ R \in Nat
    <2>1. Count(K, P) = Count(K, P - 1) + 1
      BY <1>2, <1>9, CountMember
    <2>2. Count(K, P - 1) \in 0 .. P - 1
      BY <1>9, CountFacts
    <2> QED BY <1>3, <1>9, <2>1, <2>2
  <1>11. ASSUME NEW b \in Nat PROVE B(b) \in Nat /\ b * u \in Nat
    BY GroupsBeforeNat DEF B, u
  <1>12. ASSUME NEW b \in Nat, b <= w PROVE B(b) <= R
    <2>1. b * u <= x
      BY <1>5, <1>12, ProductMonotone DEF x
    <2>2. b * u <= P - 1
      BY <1>5, <1>7, <1>9, <1>11, <2>1
    <2>3. Count(K, b * u) <= Count(K, P - 1)
      BY <1>9, <1>11, <2>2, CountMonotone
    <2> QED BY <1>3, <1>4, <2>3
  <1>13. ASSUME NEW b \in Nat, w < b PROVE R < B(b)
    <2>1. (w + 1) * u <= b * u /\ (w + 1) * u = x + u
      BY <1>5, <1>13, ProductMonotone, NextRow DEF x
    <2>2. P <= b * u
      BY <1>5, <1>7, <1>8, <1>11, <2>1
    <2>3. Count(K, P) <= Count(K, b * u)
      BY <1>9, <1>11, <2>2, CountMonotone
    <2> QED BY <1>4, <1>10, <1>11, <2>3
  <1>14. ASSUME NEW b \in Nat PROVE w = b <=> B(b) <= R /\ R < B(b + 1)
    <2>1. b + 1 \in Nat
      OBVIOUS
    <2>2. b <= w => B(b) <= R
      BY <1>12
    <2>3. w < b => R < B(b)
      BY <1>13
    <2>4. b + 1 <= w => B(b + 1) <= R
      BY <1>12, <2>1
    <2>5. w < b + 1 => R < B(b + 1)
      BY <1>13, <2>1
    <2>6. B(b) \in Nat /\ B(b + 1) \in Nat
      BY <1>11, <2>1
    <2> QED BY <1>5, <1>10, <2>2, <2>3, <2>4, <2>5, <2>6
  <1> QED BY <1>6, <1>10, <1>14 DEF w, r, c, R, B

\* No window is outside the frame, so none is passed over.
LEMMA WindowHoldsGroup ==
    ASSUME NEW lh \in Nat \ {0}, NEW lw \in Nat \ {0}, NEW ws \in Nat \ {0}, NEW w \in 0 .. Windows(lh, lw, ws) - 1
    PROVE  GroupsBefore(w, lh, lw, ws) < GroupsBefore(w + 1, lh, lw, ws)
  <1> DEFINE n == NumWindows(lh, ws)
             m == NumWindows(lw, ws)
             A == w \div m
             B == w % m
             r == A * ws
             c == B * ws
  <1>1. n \in Nat \ {0} /\ m \in Nat \ {0}
    BY WindowsCover
  <1>2. A \in 0 .. n - 1 /\ B \in 0 .. m - 1 /\ A * m + B = w
    <2>1. w \in 0 .. n * m - 1
      BY DEF Windows
    <2> HIDE DEF n, m
    <2> QED BY ZenonT(40), <1>1, <2>1, DigitsOf
  <1>3. r \in 0 .. lh - 1 /\ c \in 0 .. lw - 1
    <2> HIDE DEF A, B
    <2> QED BY <1>2, WindowsCover
  <1>4. r \div ws = A /\ c \div ws = B
    <2> HIDE DEF n, m, A, B
    <2>1. A \in Nat /\ B \in Nat /\ 0 \in 0 .. ws - 1
      BY <1>1, <1>2
    <2>2. (A * ws + 0) \div ws = A
      BY <2>1, RowAndPlace
    <2>3. (B * ws + 0) \div ws = B
      BY <2>1, RowAndPlace
    <2>4. A * ws \in Nat /\ B * ws \in Nat
      BY <2>1, ProductNat
    <2> DEFINE a == A * ws
               b == B * ws
    <2> HIDE DEF a, b
    <2>5. a + 0 = a /\ b + 0 = b
      BY <2>4 DEF a, b
    <2> QED BY <2>2, <2>3, <2>5 DEF a, b
  <1>5. Window(r, c, lw, ws) = w
    <2> HIDE DEF r, c
    <2> QED BY <1>2, <1>4 DEF Window
  <1> HIDE DEF r, c
  <1>6. PICK g \in Groups(lh, lw) : Cell(g, lw, r, c)
    BY <1>3, GroupMade
  <1>7. Window(g \div lw, g % lw, lw, ws) = w
    BY <1>5, <1>6 DEF Cell
  <1>8. w \in Nat
    <2>1. Windows(lh, lw, ws) \in Nat
      BY WindowsInNat
    <2> QED BY <2>1
  <1> DEFINE R == Rank(g, lh, lw, ws)
             a == GroupsBefore(w, lh, lw, ws)
             b == GroupsBefore(w + 1, lh, lw, ws)
  <1>9. a <= R /\ R < b /\ R \in Nat
    <2> DEFINE place == Window(g \div lw, g % lw, lw, ws)
    <2>1. /\ R \in Nat
          /\ \A i \in Nat : place = i <=> GroupsBefore(i, lh, lw, ws) <= R /\ R < GroupsBefore(i + 1, lh, lw, ws)
      BY RankInWindow
    <2>2. place = w
      BY <1>7
    <2> HIDE DEF place, R
    <2>3. a <= R /\ R < b
      BY <1>8, <2>1, <2>2
    <2> QED BY <2>1, <2>3
  <1>10. a \in Nat /\ b \in Nat
    <2>1. w + 1 \in Nat
      BY <1>8
    <2> QED BY <1>8, <2>1, GroupsBeforeNat
  <1> HIDE DEF a, b, R
  <1>11. a < b
    BY <1>9, <1>10
  <1> QED BY <1>11 DEF a, b

\* The groups computeCuWindowSeqlens counts in a window.
LEMMA GroupsOfWindow ==
    ASSUME NEW lh \in Nat \ {0}, NEW lw \in Nat \ {0}, NEW ws \in Nat \ {0}, NEW w \in 0 .. Windows(lh, lw, ws) - 1
    PROVE  Cardinality({k \in w * ws * ws + 1 .. (w + 1) * ws * ws : IsGroup(PaddedCells(lh, lw, ws)[k], lh, lw)})
             = GroupsBefore(w + 1, lh, lw, ws) - GroupsBefore(w, lh, lw, ws)
  <1> DEFINE u == ws * ws
             W == Windows(lh, lw, ws)
             K == Reals(lh, lw, ws)
             N == CellsIn(lh, lw, ws)
             x == w * u
             y == (w + 1) * u
             cells == PaddedCells(lh, lw, ws)
  <1>1. W \in Nat /\ u \in Nat \ {0} /\ N = W * u
    BY WindowsInNat
  <1>2. w \in Nat /\ w + 1 \in Nat /\ w + 1 <= W
    <2> HIDE DEF u, N
    <2> QED BY <1>1
  <1>3. w * ws * ws = x /\ (w + 1) * ws * ws = y
    BY <1>2, SMT
  <1> HIDE DEF W, u
  <1>4. x \in Nat /\ y \in Nat /\ y = x + u
    BY <1>1, <1>2, ProductNat, NextRow
  <1>5. y <= W * u
    BY <1>1, <1>2, ProductMonotone
  <1> HIDE DEF x, y, K, N
  <1>6. N \in Nat /\ y <= N
    <2>1. N \in Nat
      BY CellsInNat DEF N
    <2> DEFINE z == W * u
    <2> HIDE DEF z
    <2>2. y <= z /\ N = z
      BY <1>1, <1>5 DEF z
    <2> QED BY <2>1, <2>2
  <1>7. cells = [k \in 1 .. N |-> CellAt(k - 1, lw, ws)]
    BY PaddedCellsAt DEF N
  <1>8. ASSUME NEW k \in x + 1 .. y PROVE IsGroup(cells[k], lh, lw) <=> k \in K
    <2>1. k \in 1 .. N
      BY <1>4, <1>6
    <2>2. cells[k] = CellAt(k - 1, lw, ws)
      BY <1>7, <2>1
    <2>3. IsGroup(CellAt(k - 1, lw, ws), lh, lw) <=> k \in K
      BY <2>1, RealPlaces DEF N, K
    <2> QED BY <2>2, <2>3
  <1> HIDE DEF cells
  <1>9. {k \in x + 1 .. y : IsGroup(cells[k], lh, lw)} = {k \in x + 1 .. y : k \in K}
    BY <1>8
  <1>10. x <= y
    BY <1>1, <1>4
  <1>11. Cardinality({k \in x + 1 .. y : k \in K}) = Count(K, y) - Count(K, x)
    BY <1>4, <1>10, CountBetween
  <1>12. Count(K, y) - Count(K, x) = GroupsBefore(w + 1, lh, lw, ws) - GroupsBefore(w, lh, lw, ws)
    BY DEF GroupsBefore, x, y, u, K
  <1> QED BY <1>3, <1>9, <1>11, <1>12 DEF cells

\* The boundaries of the first w windows.
BoundariesTo(w, lh, lw, sm, ws) ==
    [b \in 1 .. w + 1 |-> GroupsBefore(b - 1, lh, lw, ws) * (sm * sm)]

BoundariesCount(lh, lw, sm, ws) ==
    CuWindowSeqlens(lh, lw, sm, ws) = [b \in 0 .. Windows(lh, lw, ws) |-> GroupsBefore(b, lh, lw, ws) * (sm * sm)]

LEMMA CuWindowSeqlensBound ==
    ASSUME NEW lh \in Nat \ {0}, NEW lw \in Nat \ {0}, NEW sm \in Nat \ {0}, NEW ws \in Nat \ {0}
    PROVE  BoundariesCount(lh, lw, sm, ws)
  <1> DEFINE W == Windows(lh, lw, ws)
             cells == PaddedCells(lh, lw, ws)
             valid(w) == Cardinality({k \in w * ws * ws + 1 .. (w + 1) * ws * ws : IsGroup(cells[k], lh, lw)})
             Is(f) == f = [w \in 0 .. W |-> IF w = 0 THEN <<0>>
                             ELSE IF valid(w - 1) = 0 THEN f[w - 1]
                             ELSE Append(f[w - 1], Last(f[w - 1]) + valid(w - 1) * sm * sm)]
             B(w) == GroupsBefore(w, lh, lw, ws)
             T(w) == BoundariesTo(w, lh, lw, sm, ws)
             g == [w \in 0 .. W |-> T(w)]
             cu == CHOOSE f : Is(f)
  <1>1. CuWindowSeqlens(lh, lw, sm, ws) = AsTable(cu[W])
    BY DEF CuWindowSeqlens, Windows
  <1>2. W \in Nat
    BY WindowsInNat
  <1>3. \A w \in Nat : B(w) \in Nat
    BY GroupsBeforeNat
  <1>4. B(0) = 0
    <2>1. 0 \in Nat
      OBVIOUS
    <2> QED BY <2>1, GroupsBeforeNat
  <1>5. ASSUME NEW w \in 0 .. W - 1 PROVE valid(w) = B(w + 1) - B(w) /\ B(w) < B(w + 1)
    BY GroupsOfWindow, WindowHoldsGroup
  <1>6. T(0) = <<0>>
    <2>1. T(0) = [b \in 1 .. 0 + 1 |-> B(b - 1) * (sm * sm)]
      BY DEF BoundariesTo
    <2> DEFINE unit == sm * sm
    <2>2. unit \in Nat
      BY ProductNat
    <2> HIDE DEF B, unit
    <2>3. 1 .. 0 + 1 = {1} /\ B(1 - 1) * unit = 0
      BY <1>4, <2>2
    <2>4. T(0) = [b \in {1} |-> 0]
      BY <2>1, <2>3 DEF unit
    <2> QED BY <2>4
  <1>7. ASSUME NEW w \in Nat PROVE T(w) \in Seq(Nat) /\ Len(T(w)) = w + 1 /\ T(w)[w + 1] = B(w) * (sm * sm)
    <2> DEFINE unit == sm * sm
    <2>1. unit \in Nat
      BY ProductNat
    <2>2. T(w) = [b \in 1 .. w + 1 |-> B(b - 1) * unit]
      BY DEF BoundariesTo
    <2> HIDE DEF B, unit, T
    <2>3. \A b \in 1 .. w + 1 : B(b - 1) * unit \in Nat
      BY <1>3, <2>1, ProductNat
    <2>4. T(w) \in Seq(Nat) /\ Len(T(w)) = w + 1
      BY <2>2, <2>3
    <2>5. T(w)[w + 1] = B(w) * unit
      <3>1. w + 1 \in 1 .. w + 1 /\ (w + 1) - 1 = w
        OBVIOUS
      <3> QED BY <2>2, <3>1
    <2> QED BY <2>4, <2>5 DEF unit
  <1>8. ASSUME NEW w \in 1 .. W
        PROVE  valid(w - 1) # 0 /\ T(w) = Append(T(w - 1), Last(T(w - 1)) + valid(w - 1) * sm * sm)
    <2> DEFINE v == valid(w - 1)
               unit == sm * sm
               last == Last(T(w - 1)) + v * sm * sm
    <2>1. w - 1 \in 0 .. W - 1 /\ w - 1 \in Nat /\ w \in Nat /\ (w - 1) + 1 = w
      BY <1>2
    <2>2. v = B(w) - B(w - 1) /\ B(w - 1) < B(w)
      <3> HIDE DEF valid, B, W
      <3>1. valid(w - 1) = B((w - 1) + 1) - B(w - 1) /\ B(w - 1) < B((w - 1) + 1)
        BY <1>5, <2>1
      <3> QED BY <2>1, <3>1
    <2> HIDE DEF valid, B, W, T, v
    <2>3. v \in Nat /\ v # 0 /\ B(w) \in Nat /\ B(w - 1) \in Nat /\ B(w) = B(w - 1) + v
      BY <1>3, <2>1, <2>2
    <2>4. Last(T(w - 1)) = B(w - 1) * unit
      BY <1>7, <2>1 DEF Last
    <2>5. v * sm * sm = v * unit /\ B(w) * unit = B(w - 1) * unit + v * unit
      <3> DEFINE p == B(w)
                 q == B(w - 1)
      <3> HIDE DEF p, q
      <3>1. v * sm * sm = v * (sm * sm)
        BY <2>3, SMT
      <3>2. p = q + v /\ q \in Nat
        BY <2>3 DEF p, q
      <3>3. (q + v) * (sm * sm) = q * (sm * sm) + v * (sm * sm)
        BY <2>3, <3>2, SMT
      <3> QED BY <3>1, <3>2, <3>3 DEF p, q
    <2>6. last = B(w) * unit
      BY <2>4, <2>5
    <2> HIDE DEF last, unit
    <2>7. T(w) = Append(T(w - 1), last)
      <3> DEFINE s == T(w - 1)
                 t == T(w)
                 a == Append(s, last)
      <3>1. s \in Seq(Nat) /\ Len(s) = w
        BY <1>7, <2>1
      <3>2. t = [b \in 1 .. w + 1 |-> B(b - 1) * unit] /\ s = [b \in 1 .. w |-> B(b - 1) * unit]
        BY <2>1 DEF T, B, unit, BoundariesTo
      <3> HIDE DEF s, t
      <3>3. last \in Nat
        <4>1. unit \in Nat
          BY ProductNat DEF unit
        <4> QED BY <2>3, <2>6, <4>1, ProductNat
      <3>4. a \in Seq(Nat) /\ Len(a) = w + 1 /\ a[w + 1] = last /\ \A b \in 1 .. w : a[b] = s[b]
        BY <3>1, <3>3, AppendProperties
      <3>5. ASSUME NEW b \in 1 .. w + 1 PROVE a[b] = B(b - 1) * unit
        <4>1. CASE b = w + 1
          <5>1. b - 1 = w
            BY <2>1, <4>1
          <5> QED BY <2>6, <3>4, <4>1, <5>1
        <4>2. CASE b # w + 1
          <5>1. b \in 1 .. w
            BY <2>1, <4>2
          <5> QED BY <3>2, <3>4, <5>1
        <4> QED BY <4>1, <4>2
      <3> HIDE DEF a
      <3>6. a = [b \in 1 .. w + 1 |-> a[b]]
        BY <2>1, <3>4
      <3>7. a = t
        BY <3>2, <3>5, <3>6
      <3> QED BY <3>7 DEF a, s, t
    <2> QED BY <2>3, <2>7 DEF last, v
  <1>9. Is(g)
    <2> HIDE DEF valid, T, W
    <2>1. ASSUME NEW w \in 0 .. W
          PROVE  T(w) = IF w = 0 THEN <<0>>
                        ELSE IF valid(w - 1) = 0 THEN g[w - 1]
                        ELSE Append(g[w - 1], Last(g[w - 1]) + valid(w - 1) * sm * sm)
      <3>1. CASE w = 0
        BY <1>6, <3>1
      <3>2. CASE w # 0
        <4>1. w \in 1 .. W /\ w - 1 \in 0 .. W
          BY <1>2, <3>2
        <4>2. g[w - 1] = T(w - 1)
          BY <4>1
        <4> QED BY <1>8, <3>2, <4>1, <4>2
      <3> QED BY <3>1, <3>2
    <2> QED BY <2>1
  <1>10. Is(cu)
    <2> HIDE DEF Is, g
    <2> QED BY <1>9
  <1> HIDE DEF cu
  <1>11. cu[W] = T(W)
    <2> DEFINE Good == {w \in Nat : w <= W => cu[w] = T(w)}
    <2>1. /\ cu[0] = <<0>>
          /\ \A w \in 1 .. W : cu[w] = IF valid(w - 1) = 0 THEN cu[w - 1]
                                       ELSE Append(cu[w - 1], Last(cu[w - 1]) + valid(w - 1) * sm * sm)
      <3> DEFINE next(w) == Append(cu[w - 1], Last(cu[w - 1]) + valid(w - 1) * sm * sm)
                 at(w) == IF w = 0 THEN <<0>> ELSE IF valid(w - 1) = 0 THEN cu[w - 1] ELSE next(w)
      <3>1. cu = [w \in 0 .. W |-> at(w)]
        BY <1>10
      <3> HIDE DEF at
      <3>2. \A w \in 0 .. W : cu[w] = at(w)
        BY <3>1
      <3>3. 0 \in 0 .. W /\ \A w \in 1 .. W : w \in 0 .. W /\ w # 0
        BY <1>2
      <3>4. at(0) = <<0>> /\ \A w \in 1 .. W : at(w) = IF valid(w - 1) = 0 THEN cu[w - 1] ELSE next(w)
        <4> HIDE DEF next, valid
        <4> QED BY <3>3 DEF at
      <3> HIDE DEF next, valid
      <3>5. cu[0] = <<0>> /\ \A w \in 1 .. W : cu[w] = IF valid(w - 1) = 0 THEN cu[w - 1] ELSE next(w)
        BY <3>2, <3>3, <3>4
      <3> QED BY <3>5 DEF next
    <2> HIDE DEF Is, valid, T, W
    <2>2. 0 \in Good
      BY <1>6, <2>1
    <2>3. ASSUME NEW w \in Nat, w \in Good PROVE w + 1 \in Good
      <3> SUFFICES ASSUME w + 1 <= W PROVE cu[w + 1] = T(w + 1)
        OBVIOUS
      <3>1. w + 1 \in 1 .. W /\ (w + 1) - 1 = w /\ cu[w] = T(w)
        BY <1>2, <2>3
      <3>2. valid(w) # 0 /\ T(w + 1) = Append(T(w), Last(T(w)) + valid(w) * sm * sm)
        BY <1>8, <3>1
      <3> QED BY <2>1, <3>1, <3>2
    <2> HIDE DEF Good
    <2>4. W \in Good
      BY <1>2, <2>2, <2>3, Induction
    <2> QED BY <1>2, <2>4 DEF Good
  <1>12. AsTable(T(W)) = [b \in 0 .. W |-> B(b) * (sm * sm)]
    <2>1. T(W) = [b \in 1 .. W + 1 |-> B(b - 1) * (sm * sm)] /\ Len(T(W)) = W + 1
      BY <1>2, <1>7 DEF BoundariesTo
    <2> HIDE DEF T, W, B
    <2>2. Len(T(W)) - 1 = W
      BY <1>2, <2>1
    <2>3. ASSUME NEW b \in 0 .. W PROVE T(W)[b + 1] = B(b) * (sm * sm)
      <3>1. b + 1 \in 1 .. W + 1 /\ (b + 1) - 1 = b
        BY <1>2
      <3> QED BY <2>1, <3>1
    <2> QED BY <2>2, <2>3 DEF AsTable
  <1> QED BY <1>1, <1>11, <1>12 DEF BoundariesCount
-----------------------------------------------------------------------------
(* Who attends to whom.                                                    *)

LEMMA InBlock ==
    ASSUME NEW u \in Nat \ {0}, NEW a \in Nat, NEW b \in Nat, NEW q \in Nat
    PROVE  q \in a * u .. b * u - 1 <=> a <= q \div u /\ q \div u < b
  <1> DEFINE k == q \div u
             j == q % u
             x == a * u
             y == b * u
             z == k * u
  <1>1. k \in Nat /\ j \in 0 .. u - 1 /\ q = z + j
    BY QuotientRemainder
  <1>2. x \in Nat /\ y \in Nat /\ z \in Nat
    <2> HIDE DEF k
    <2> QED BY <1>1, ProductNat
  <1> HIDE DEF k, j
  <1>3. /\ z + j < x + 0 <=> k < a \/ (k = a /\ j < 0)
        /\ z + j < y + 0 <=> k < b \/ (k = b /\ j < 0)
    <2>1. 0 \in 0 .. u - 1
      OBVIOUS
    <2> QED BY <1>1, <2>1, DigitOrder
  <1> HIDE DEF x, y, z
  <1>4. q \in x .. y - 1 <=> ~ (z + j < x + 0) /\ z + j < y + 0
    BY <1>1, <1>2
  <1>5. q \in x .. y - 1 <=> a <= k /\ k < b
    BY <1>1, <1>3, <1>4
  <1> QED BY <1>5 DEF x, y, k

\* The window of group g.
WindowAt(g, lw, ws) == Window(g \div lw, g % lw, lw, ws)

MaskedToWindows(wi, lh, lw, sm, ws) ==
    \A p \in 0 .. lh * lw * (sm * sm) - 1 :
        BlockAttentionMask(lh * lw * (sm * sm), CuWindowSeqlens(lh, lw, sm, ws))[p]
             = {q \in 0 .. lh * lw * (sm * sm) - 1 :
                  WindowAt(wi[q \div (sm * sm)], lw, ws) = WindowAt(wi[p \div (sm * sm)], lw, ws)}

LEMMA MaskIsWindow ==
    ASSUME NEW lh \in Nat \ {0}, NEW lw \in Nat \ {0}, NEW sm \in Nat \ {0}, NEW ws \in Nat \ {0},
           NEW wi, Permutes(wi, lh, lw, ws)
    PROVE  MaskedToWindows(wi, lh, lw, sm, ws)
  <1> SUFFICES ASSUME NEW p \in 0 .. lh * lw * (sm * sm) - 1
               PROVE  BlockAttentionMask(lh * lw * (sm * sm), CuWindowSeqlens(lh, lw, sm, ws))[p]
                        = {q \in 0 .. lh * lw * (sm * sm) - 1 :
                             WindowAt(wi[q \div (sm * sm)], lw, ws) = WindowAt(wi[p \div (sm * sm)], lw, ws)}
    BY DEF MaskedToWindows
  <1>0. BoundariesCount(lh, lw, sm, ws)
    BY CuWindowSeqlensBound
  <1> DEFINE u == sm * sm
             n == lh * lw
             Q == 0 .. n * u - 1
             G == Groups(lh, lw)
             W == Windows(lh, lw, ws)
             B(b) == GroupsBefore(b, lh, lw, ws)
             cu == CuWindowSeqlens(lh, lw, sm, ws)
             Win(k) == WindowAt(wi[k], lw, ws)
  <1>1. u \in Nat \ {0} /\ n \in Nat /\ G = 0 .. n - 1 /\ W \in Nat
    <2>1. u \in Nat \ {0}
      BY WindowsInNat
    <2> QED BY <2>1, WindowsInNat, ProductNat DEF Groups
  <1>2. cu = [b \in 0 .. W |-> B(b) * u]
    BY <1>0 DEF BoundariesCount
  <1>3. ASSUME NEW k \in G
        PROVE  Win(k) \in 0 .. W - 1 /\ \A b \in Nat : Win(k) = b <=> B(b) <= k /\ k < B(b + 1)
    <2>1. wi[k] \in G /\ Rank(wi[k], lh, lw, ws) = k
      BY DEF Permutes
    <2> DEFINE g == wi[k]
    <2> HIDE DEF g
    <2>2. g \in Groups(lh, lw) /\ Rank(g, lh, lw, ws) = k
      BY <2>1 DEF g
    <2>3. /\ Window(g \div lw, g % lw, lw, ws) \in 0 .. Windows(lh, lw, ws) - 1
          /\ \A b \in Nat :
                Window(g \div lw, g % lw, lw, ws) = b <=>
                  GroupsBefore(b, lh, lw, ws) <= Rank(g, lh, lw, ws) /\ Rank(g, lh, lw, ws) < GroupsBefore(b + 1, lh, lw, ws)
      BY <2>2, RankInWindow
    <2>4. Win(k) = Window(g \div lw, g % lw, lw, ws)
      BY DEF WindowAt, g
    <2> HIDE DEF Win
    <2> QED BY <2>2, <2>3, <2>4
  <1>4. \A b \in Nat : B(b) \in Nat
    BY GroupsBeforeNat
  <1>5. p \in Q
    OBVIOUS
  <1>6. BlockAttentionMask(lh * lw * (sm * sm), cu)[p]
          = {q \in Q : \E b \in DOMAIN cu : b + 1 \in DOMAIN cu /\ {p, q} \subseteq cu[b] .. cu[b + 1] - 1}
    BY <1>5 DEF BlockAttentionMask
  <1> HIDE DEF W, G, B, cu, Win, u, n
  <1>7. ASSUME NEW q \in Q PROVE q \in Nat /\ q \div u \in G
    <2> DEFINE z == n * u
    <2>1. z \in Nat
      BY <1>1, ProductNat
    <2>2. q \div u \in 0 .. n - 1
      BY <1>1, DigitsOf
    <2> HIDE DEF z
    <2>3. q \in 0 .. z - 1
      BY DEF z
    <2> QED BY <1>1, <2>1, <2>2, <2>3
  <1>8. ASSUME NEW q \in Q, NEW b \in 0 .. W - 1
        PROVE  q \in cu[b] .. cu[b + 1] - 1 <=> Win(q \div u) = b
    <2>1. b \in Nat /\ b + 1 \in Nat /\ b \in 0 .. W /\ b + 1 \in 0 .. W
      BY <1>1
    <2>2. cu[b] = B(b) * u /\ cu[b + 1] = B(b + 1) * u
      BY <1>2, <2>1
    <2>3. q \in B(b) * u .. B(b + 1) * u - 1 <=> B(b) <= q \div u /\ q \div u < B(b + 1)
      BY <1>1, <1>4, <1>7, <2>1, InBlock
    <2>4. Win(q \div u) = b <=> B(b) <= q \div u /\ q \div u < B(b + 1)
      BY <1>3, <1>7, <2>1
    <2> QED BY <2>2, <2>3, <2>4
  <1>9. ASSUME NEW q \in Q
        PROVE  (\E b \in DOMAIN cu : b + 1 \in DOMAIN cu /\ {p, q} \subseteq cu[b] .. cu[b + 1] - 1)
                 <=> Win(q \div u) = Win(p \div u)
    <2>1. DOMAIN cu = 0 .. W
      BY <1>2
    <2>2. ASSUME NEW b \in DOMAIN cu, b + 1 \in DOMAIN cu, {p, q} \subseteq cu[b] .. cu[b + 1] - 1
          PROVE  Win(q \div u) = Win(p \div u)
      <3>1. b \in 0 .. W - 1
        BY <1>1, <2>1, <2>2
      <3>2. p \in cu[b] .. cu[b + 1] - 1 /\ q \in cu[b] .. cu[b + 1] - 1
        BY <2>2
      <3>3. Win(q \div u) = b
        BY <1>8, <3>1, <3>2
      <3>4. Win(p \div u) = b
        BY <1>5, <1>8, <3>1, <3>2
      <3> QED BY <3>3, <3>4
    <2>3. ASSUME Win(q \div u) = Win(p \div u)
          PROVE  \E b \in DOMAIN cu : b + 1 \in DOMAIN cu /\ {p, q} \subseteq cu[b] .. cu[b + 1] - 1
      <3> DEFINE b == Win(p \div u)
      <3>1. b \in 0 .. W - 1
        BY <1>3, <1>5, <1>7
      <3>2. Win(q \div u) = b /\ Win(p \div u) = b
        BY <2>3
      <3> HIDE DEF b
      <3>3. q \in cu[b] .. cu[b + 1] - 1
        BY <1>8, <3>1, <3>2
      <3>4. p \in cu[b] .. cu[b + 1] - 1
        BY <1>5, <1>8, <3>1, <3>2
      <3>5. b \in DOMAIN cu /\ b + 1 \in DOMAIN cu
        BY <1>1, <2>1, <3>1
      <3> QED BY <3>3, <3>4, <3>5
    <2> QED BY <2>2, <2>3
  <1>10. {q \in Q : \E b \in DOMAIN cu : b + 1 \in DOMAIN cu /\ {p, q} \subseteq cu[b] .. cu[b + 1] - 1}
          = {q \in Q : Win(q \div u) = Win(p \div u)}
    BY <1>9
  <1> QED BY <1>6, <1>10 DEF cu, Win, u, n

\* What the patches of group k see, when that depends on their groups alone.
MaskByGroup(mask, S, lh, lw, u) ==
    \A p \in 0 .. lh * lw * u - 1 : mask[p] = {q \in 0 .. lh * lw * u - 1 : <<p \div u, q \div u>> \in S}
SeenBy(k, order, mask, u) == {order[q \div u] : q \in UNION {mask[p] : p \in k * u .. (k + 1) * u - 1}}
Selected(k, S, lh, lw) == {i \in Groups(lh, lw) : <<k, i>> \in S}
Others(k, order, S, lh, lw) == {order[i] : i \in Selected(k, S, lh, lw)}

LEMMA GroupSees ==
    ASSUME NEW lh \in Nat \ {0}, NEW lw \in Nat \ {0}, NEW u \in Nat \ {0}, NEW mask, NEW order, NEW S,
           NEW k \in Groups(lh, lw), MaskByGroup(mask, S, lh, lw, u)
    PROVE  SeenBy(k, order, mask, u) = Others(k, order, S, lh, lw)
  <1> DEFINE n == lh * lw
             Q == 0 .. n * u - 1
             G == Groups(lh, lw)
             rows == k * u .. (k + 1) * u - 1
  <1>1. n \in Nat /\ G = 0 .. n - 1
    BY ProductNat DEF Groups
  <1>2. \A p \in Q : mask[p] = {q \in Q : <<p \div u, q \div u>> \in S}
    BY DEF MaskByGroup
  <1>3. k \in G
    OBVIOUS
  <1> HIDE DEF n, G
  <1>4. k \in Nat /\ k + 1 \in Nat
    BY <1>1, <1>3
  <1>5. ASSUME NEW i \in G
        PROVE  i * u \in Q /\ (i * u) \div u = i
    <2>1. 0 \in 0 .. u - 1 /\ i \in Nat
      BY <1>1
    <2>2. i * u \in Nat
      BY <2>1, ProductNat
    <2>3. i * u + 0 \in 0 .. n * u - 1
      BY <1>1, <2>1, DigitBound
    <2>4. (i * u + 0) \div u = i
      BY <2>1, RowAndPlace
    <2>5. i * u + 0 = i * u
      <3> DEFINE x == i * u
      <3> HIDE DEF x
      <3>1. x + 0 = x
        BY <2>2 DEF x
      <3> QED BY <3>1 DEF x
    <2> QED BY <2>3, <2>4, <2>5, Zenon
  <1>6. ASSUME NEW p \in rows PROVE p \in Q /\ p \div u = k
    <2> DEFINE x == k * u
               y == (k + 1) * u
               z == n * u
    <2>1. x \in Nat /\ y \in Nat /\ z \in Nat
      BY <1>1, <1>4, ProductNat
    <2>2. y <= z
      <3>1. k + 1 <= n
        BY <1>1, <1>3
      <3> QED BY <1>1, <1>4, <3>1, ProductMonotone
    <2>3. p \in x .. y - 1
      OBVIOUS
    <2> HIDE DEF x, y, z
    <2>4. p \in Nat /\ p \in 0 .. z - 1
      BY <2>1, <2>2, <2>3
    <2>5. k <= p \div u /\ p \div u < k + 1
      BY <1>4, <2>3, <2>4, InBlock DEF x, y
    <2>6. p \div u \in Nat
      BY <2>4, QuotientRemainder
    <2>7. p \div u = k
      BY <1>4, <2>5, <2>6
    <2> QED BY <2>4, <2>7 DEF z
  <1>7. ASSUME NEW q \in Q PROVE q \div u \in G
    <2>1. q \div u \in 0 .. n - 1
      BY <1>1, DigitsOf
    <2> QED BY <1>1, <2>1
  <1>8. k * u \in rows
    <2> DEFINE x == k * u
    <2>1. x \in Nat /\ (k + 1) * u = x + u
      BY <1>4, ProductNat, NextRow
    <2> HIDE DEF x
    <2>2. x \in x .. (x + u) - 1
      BY <2>1
    <2> QED BY <2>1, <2>2 DEF x
  <1> DEFINE sees == {i \in G : <<k, i>> \in S}
             met == UNION {mask[p] : p \in rows}
  <1> HIDE DEF rows, Q
  <1>9. ASSUME NEW q \in met PROVE q \div u \in sees
    <2>1. PICK p \in rows : q \in mask[p]
      OBVIOUS
    <2>2. p \in Q /\ p \div u = k
      BY <1>6
    <2>3. q \in Q /\ <<k, q \div u>> \in S
      BY <1>2, <2>1, <2>2
    <2> QED BY <1>7, <2>3
  <1>10. ASSUME NEW i \in sees PROVE \E q \in met : q \div u = i
    <2>1. i \in G /\ <<k, i>> \in S
      OBVIOUS
    <2>2. i * u \in Q /\ (i * u) \div u = i
      BY <1>5, <2>1
    <2>3. k * u \in Q /\ (k * u) \div u = k
      BY <1>3, <1>5
    <2>4. i * u \in mask[k * u]
      BY <1>2, <2>1, <2>2, <2>3, Zenon
    <2>5. i * u \in met
      BY <1>8, <2>4
    <2> QED BY <2>2, <2>5
  <1> HIDE DEF met, sees
  <1>11. {order[q \div u] : q \in met} = {order[i] : i \in sees}
    <2>1. \A q \in met : order[q \div u] \in {order[i] : i \in sees}
      BY <1>9
    <2>2. \A i \in sees : order[i] \in {order[q \div u] : q \in met}
      BY <1>10
    <2> QED BY <2>1, <2>2
  <1> QED BY <1>11 DEF met, sees, rows, G, SeenBy, Selected, Others

\* Every feature comes back in the place of its group and for what its group holds.
LEMMA EncodesWindowed ==
    ASSUME NEW lh \in Nat \ {0}, NEW lw \in Nat \ {0}, NEW sm \in Nat \ {0}, NEW ws \in Nat \ {0}, NEW g \in Groups(lh, lw)
    PROVE  EncodeWindowed(lh, lw, sm, ws)[g] = TrueFeature(g, lh, lw, sm, ws)
  <1> SUFFICES ASSUME NEW wi, wi = ComputeWindowIndex(lh, lw, ws)
               PROVE  EncodeWindowed(lh, lw, sm, ws)[g] = TrueFeature(g, lh, lw, sm, ws)
    OBVIOUS
  <1>1. Permutes(wi, lh, lw, ws) /\ GraphOrder(lh, lw, ws) = wi
    BY WindowIndexPermutes, GraphOrderIsWindowIndex
  <1>0. MaskedToWindows(wi, lh, lw, sm, ws)
    BY <1>1, MaskIsWindow
  <1> DEFINE u == sm * sm
             G == Groups(lh, lw)
             n == lh * lw
             rope == WindowReorder(PatchRoPE(lh, lw, sm), u, wi)
             mask == BlockAttentionMask(n * u, CuWindowSeqlens(lh, lw, sm, ws))
             order == GraphOrder(lh, lw, ws)
             k == ReverseWindowIndex(wi)[g]
             Win(h) == WindowAt(h, lw, ws)
             S == {s \in G \X G : Win(wi[s[2]]) = Win(wi[s[1]])}
             rows == k * u .. (k + 1) * u - 1
             at == [j \in 0 .. u - 1 |-> rope[k * u + j]]
             sees == {order[q \div u] : q \in UNION {mask[p] : p \in rows}}
  <1>2. u \in Nat \ {0}
    BY WindowsInNat
  <1>3. /\ wi \in [G -> G] /\ \A h \in G : \E i \in G : wi[i] = h
        /\ k \in G /\ wi[k] = g
    <2>1. k = Rank(g, lh, lw, ws)
      BY <1>1, ReverseIsRank
    <2> HIDE DEF k
    <2> QED BY <1>1, <2>1 DEF Permutes
  <1>4. EncodeWindowed(lh, lw, sm, ws)[g] = [group |-> order[k], at |-> at, sees |-> sees]
    <2>1. DOMAIN order = G
      BY <1>1, <1>3
    <2>2. EncodeWindowed(lh, lw, sm, ws)[g] = GraphFeatures(order, u, rope, mask)[k]
      BY DEF EncodeWindowed
    <2> HIDE DEF order, rope, mask, u, k, G
    <2>3. GraphFeatures(order, u, rope, mask)[k] = [group |-> order[k], at |-> at, sees |-> sees]
      BY <1>3, <2>1 DEF GraphFeatures
    <2> QED BY <2>2, <2>3
  <1>5. at = [j \in 0 .. u - 1 |-> PatchAt(g, j, lw, sm)]
    <2> SUFFICES ASSUME NEW j \in 0 .. u - 1 PROVE rope[k * u + j] = PatchAt(g, j, lw, sm)
      OBVIOUS
    <2>1. rope[k * u + j] = PatchAt(wi[k], j, lw, sm)
      <3> HIDE DEF k
      <3> QED BY <1>3, ReorderedInPlace
    <2> QED BY <1>3, <2>1
  <1>6. sees = {wi[i] : i \in Selected(k, S, lh, lw)}
    <2>1. MaskByGroup(mask, S, lh, lw, u)
      <3> SUFFICES ASSUME NEW p \in 0 .. n * u - 1
                   PROVE  mask[p] = {q \in 0 .. n * u - 1 : <<p \div u, q \div u>> \in S}
        BY DEF MaskByGroup
      <3>1. mask[p] = {q \in 0 .. n * u - 1 : Win(wi[q \div u]) = Win(wi[p \div u])}
        BY <1>0 DEF MaskedToWindows
      <3>2. \A q \in 0 .. n * u - 1 : q \div u \in G
        <4>1. n \in Nat /\ G = 0 .. n - 1
          BY ProductNat DEF Groups
        <4> HIDE DEF n, u, G
        <4> QED BY <1>2, <4>1, DigitsOf
      <3> HIDE DEF mask, n, u, G, Win
      <3> QED BY <3>1, <3>2
    <2>2. sees = SeenBy(k, order, mask, u)
      BY DEF SeenBy
    <2> HIDE DEF mask, order, u, k, S
    <2>3. SeenBy(k, order, mask, u) = Others(k, order, S, lh, lw)
      BY <1>2, <1>3, <2>1, GroupSees
    <2> HIDE DEF sees
    <2> QED BY <1>1, <2>2, <2>3 DEF order, Others
  <1>7. {wi[i] : i \in Selected(k, S, lh, lw)} = {h \in G : WindowOf(h, lw, ws) = WindowOf(g, lw, ws)}
    <2>1. \A h \in G : WindowOf(h, lw, ws) = WindowOf(g, lw, ws) <=> Win(h) = Win(g)
      BY BeforeIsPlace DEF WindowAt
    <2>2. Selected(k, S, lh, lw) = {i \in G : <<k, i>> \in S}
      BY DEF Selected
    <2> HIDE DEF k, G, Win
    <2>3. \A i \in G : <<k, i>> \in S <=> Win(wi[i]) = Win(g)
      BY <1>3
    <2>4. ASSUME NEW i \in Selected(k, S, lh, lw)
          PROVE  wi[i] \in G /\ WindowOf(wi[i], lw, ws) = WindowOf(g, lw, ws)
      <3> HIDE DEF S
      <3> QED BY <1>3, <2>1, <2>2, <2>3
    <2>5. ASSUME NEW h \in G, WindowOf(h, lw, ws) = WindowOf(g, lw, ws)
          PROVE  \E i \in Selected(k, S, lh, lw) : wi[i] = h
      <3> HIDE DEF S
      <3>1. PICK i \in G : wi[i] = h
        BY <1>3
      <3> QED BY <2>1, <2>2, <2>3, <2>5, <3>1
    <2> DEFINE sel == Selected(k, S, lh, lw)
               P(h) == WindowOf(h, lw, ws) = WindowOf(g, lw, ws)
    <2>6. \A i \in sel : wi[i] \in G /\ P(wi[i])
      BY <2>4
    <2>7. \A h \in G : P(h) => \E i \in sel : wi[i] = h
      BY <2>5
    <2> HIDE DEF sel, P
    <2>8. {wi[i] : i \in sel} = {h \in G : P(h)}
      BY <2>6, <2>7
    <2> QED BY <2>8 DEF sel, P
  <1>8. TrueFeature(g, lh, lw, sm, ws) = [group |-> g,
            at |-> [j \in 0 .. u - 1 |-> PatchAt(g, j, lw, sm)],
            sees |-> {h \in G : WindowOf(h, lw, ws) = WindowOf(g, lw, ws)}]
    BY DEF TrueFeature, PatchAt
  <1>9. order[k] = g
    BY <1>1, <1>3
  <1> HIDE DEF order, at, sees, k
  <1> QED BY <1>4, <1>5, <1>6, <1>7, <1>8, <1>9

LEMMA EncodesFull ==
    ASSUME NEW lh \in Nat \ {0}, NEW lw \in Nat \ {0}, NEW sm \in Nat \ {0}, NEW g \in Groups(lh, lw)
    PROVE  EncodeFull(lh, lw, sm)[g] = TrueFeature(g, lh, lw, sm, 0)
  <1> DEFINE u == sm * sm
             G == Groups(lh, lw)
             n == lh * lw
             order == [h \in G |-> h]
             rope == PatchRoPE(lh, lw, sm)
             z == lh * lw * sm * sm
             bounds == AsTable(<<0, z>>)
             mask == BlockAttentionMask(z, bounds)
             S == G \X G
             rows == g * u .. (g + 1) * u - 1
             at == [j \in 0 .. u - 1 |-> rope[g * u + j]]
             sees == {order[q \div u] : q \in UNION {mask[p] : p \in rows}}
  <1>1. u \in Nat \ {0} /\ n \in Nat
    BY WindowsInNat, ProductNat
  <1>2. z = n * u /\ z \in Nat
    <2> HIDE DEF n
    <2>1. n * sm * sm = n * (sm * sm)
      BY <1>1, SMT
    <2>2. n * u \in Nat
      BY <1>1, ProductNat
    <2> QED BY <2>1, <2>2 DEF n
  <1>3. EncodeFull(lh, lw, sm)[g] = [group |-> g, at |-> at, sees |-> sees]
    BY DEF EncodeFull, GraphFeatures
  <1>4. at = [j \in 0 .. u - 1 |-> PatchAt(g, j, lw, sm)]
    <2>1. ASSUME NEW j \in 0 .. u - 1 PROVE rope[g * u + j] = PatchAt(g, j, lw, sm)
      BY RotatedInPlace
    <2> QED BY <2>1
  <1> HIDE DEF z
  <1>5. bounds = [i \in 0 .. 1 |-> IF i = 0 THEN 0 ELSE z]
    BY <1>2 DEF AsTable
  <1>6. \A p \in 0 .. z - 1 : mask[p] = 0 .. z - 1
    <2> HIDE DEF bounds
    <2> SUFFICES ASSUME NEW p \in 0 .. z - 1 PROVE mask[p] = 0 .. z - 1
      OBVIOUS
    <2>1. mask[p] = {q \in 0 .. z - 1 : \E b \in DOMAIN bounds : b + 1 \in DOMAIN bounds
                              /\ {p, q} \subseteq bounds[b] .. bounds[b + 1] - 1}
      BY DEF BlockAttentionMask
    <2>2. 0 \in DOMAIN bounds /\ 0 + 1 \in DOMAIN bounds /\ bounds[0] = 0 /\ bounds[0 + 1] = z
      BY <1>5
    <2> QED BY <2>1, <2>2
  <1>7. MaskByGroup(mask, S, lh, lw, u)
    <2> SUFFICES \A p \in 0 .. n * u - 1 : mask[p] = {q \in 0 .. n * u - 1 : <<p \div u, q \div u>> \in S}
      BY DEF MaskByGroup
    <2>1. \A q \in 0 .. n * u - 1 : q \div u \in G
      <3>1. G = 0 .. n - 1
        BY DEF Groups
      <3> HIDE DEF n, u, G
      <3> QED BY <1>1, <3>1, DigitsOf
    <2> HIDE DEF mask, n, u, G
    <2> QED BY <1>2, <1>6, <2>1
  <1>8. sees = {order[i] : i \in Selected(g, S, lh, lw)}
    <2>1. sees = SeenBy(g, order, mask, u)
      BY DEF SeenBy
    <2> HIDE DEF mask, order, u, S, sees
    <2>2. SeenBy(g, order, mask, u) = Others(g, order, S, lh, lw)
      BY <1>1, <1>7, GroupSees
    <2> QED BY <2>1, <2>2 DEF Others
  <1>9. {order[i] : i \in Selected(g, S, lh, lw)} = G
    <2>1. Selected(g, S, lh, lw) = G
      BY DEF Selected
    <2> HIDE DEF G, S
    <2> QED BY <2>1
  <1>10. TrueFeature(g, lh, lw, sm, 0) = [group |-> g, at |-> [j \in 0 .. u - 1 |-> PatchAt(g, j, lw, sm)], sees |-> G]
    <2>1. {h \in G : 0 = 0 \/ WindowOf(h, lw, 0) = WindowOf(g, lw, 0)} = G
      OBVIOUS
    <2> QED BY <2>1 DEF TrueFeature, PatchAt
  <1> HIDE DEF at, sees
  <1> QED BY <1>3, <1>4, <1>8, <1>9, <1>10

\* The encoder's table is the identity.
LEMMA EncoderIsTrue ==
    ASSUME NEW f \in Families, NEW frame \in Grids
    PROVE  EncodeImage(f, frame) = [i \in Groups(frame[1], frame[2]) |-> i]
  <1>1. frame[1] \in Nat \ {0} /\ frame[2] \in Nat \ {0}
    BY VLMAssumption
  <1>2. SpatialMerge \in Nat \ {0} /\ WindowSize \in Nat \ {0}
    BY VLMAssumption
  <1> DEFINE lh == frame[1]
             lw == frame[2]
             ws == IF f = "qwen2_5" THEN WindowSize ELSE 0
             out == IF ws = 0 THEN EncodeFull(lh, lw, SpatialMerge) ELSE EncodeWindowed(lh, lw, SpatialMerge, ws)
  <1>3. ASSUME NEW i \in Groups(lh, lw) PROVE out[i] = TrueFeature(i, lh, lw, SpatialMerge, ws)
    <2> HIDE DEF lh, lw
    <2>1. CASE ws = 0
      <3>1. EncodeFull(lh, lw, SpatialMerge)[i] = TrueFeature(i, lh, lw, SpatialMerge, 0)
        BY <1>1, <1>2, EncodesFull DEF lh, lw
      <3> HIDE DEF ws
      <3> QED BY <2>1, <3>1
    <2>2. CASE ws # 0
      <3>1. ws \in Nat \ {0}
        BY <1>2, <2>2
      <3> HIDE DEF ws
      <3>2. EncodeWindowed(lh, lw, SpatialMerge, ws)[i] = TrueFeature(i, lh, lw, SpatialMerge, ws)
        BY <1>1, <1>2, <3>1, EncodesWindowed DEF lh, lw
      <3> QED BY <2>2, <3>2
    <2> QED BY <2>1, <2>2
  <1>4. EncodeImage(f, frame) = [i \in Groups(lh, lw) |-> IF out[i] = TrueFeature(i, lh, lw, SpatialMerge, ws) THEN i ELSE Junk]
    BY DEF EncodeImage
  <1> HIDE DEF out, ws
  <1> QED BY <1>3, <1>4

\* The bundle of a model does not change.
BundleFixed == /\ family \in Families /\ grid \in Grids
               /\ encoder = [i \in Groups(grid[1], grid[2]) |-> i]

LEMMA BundleIsFixed == Spec => []BundleFixed
  <1>1. Init => BundleFixed
    BY EncoderIsTrue DEF Init, BundleFixed
  <1>2. BundleFixed /\ [Next]_vars => BundleFixed'
    <2> SUFFICES ASSUME BundleFixed, [Next]_vars PROVE UNCHANGED bundle
      BY DEF BundleFixed, bundle
    <2> QED BY DEF Next, vars, bundle, Generate, FitPrompt, PromptEvicted, PrefillChunk, PrefillFails,
              PromptDone, Decode, DecodeFull, DecodeEvicted, DecodeFails, Return, ResetKVCache,
              SaveKVCache, LoadKVCache, Evict, Unwind
  <1> QED BY <1>1, <1>2, PTL DEF Spec

\* computeWindowIndex, its reverse, the rotation and the window mask fit together and fit
\* the compiled ViT for every frame, merge and window size: the feature that comes back
\* for a group was computed from its own patches, in their places, seeing its own window.
THEOREM EncodersKeepPlaces == Spec => []FeaturesInPlace
  <1>1. BundleFixed => FeaturesInPlace
    BY DEF BundleFixed, FeaturesInPlace
  <1> QED BY <1>1, BundleIsFixed, PTL
-----------------------------------------------------------------------------
(* A prompt and the features of its images.                                *)

\* Counting in a set and in what follows it.
LEMMA CountAgree ==
    ASSUME NEW K, NEW L, NEW n \in Nat, \A k \in 1 .. n : k \in K <=> k \in L
    PROVE  Count(K, n) = Count(L, n)
  <1>1. {k \in 1 .. n : k \in K} = {k \in 1 .. n : k \in L}
    OBVIOUS
  <1> QED BY <1>1 DEF Count

LEMMA CountShift ==
    ASSUME NEW K, NEW L, NEW m \in Nat, NEW n \in Nat, \A k \in 1 .. n : m + k \in K <=> k \in L
    PROVE  Count(K, m + n) = Count(K, m) + Count(L, n)
  <1> DEFINE Good == {i \in Nat : i <= n => Count(K, m + i) = Count(K, m) + Count(L, i)}
  <1>1. 0 \in Good
    <2>1. Count(L, 0) = 0 /\ Count(K, m) \in 0 .. m /\ m + 0 = m
      BY CountFacts
    <2> QED BY <2>1
  <1>2. ASSUME NEW i \in Nat, i \in Good PROVE i + 1 \in Good
    <2> SUFFICES ASSUME i + 1 <= n PROVE Count(K, m + (i + 1)) = Count(K, m) + Count(L, i + 1)
      OBVIOUS
    <2>1. Count(K, m + i) = Count(K, m) + Count(L, i)
      BY <1>2
    <2>2. m + i \in Nat /\ m + (i + 1) = (m + i) + 1 /\ i + 1 \in 1 .. n
      OBVIOUS
    <2>3. Count(L, i + 1) = Count(L, i) + (IF i + 1 \in L THEN 1 ELSE 0) /\ Count(L, i) \in 0 .. i
      BY CountFacts
    <2>4. Count(K, (m + i) + 1) = Count(K, m + i) + (IF (m + i) + 1 \in K THEN 1 ELSE 0)
      BY <2>2, CountFacts
    <2>5. (m + i) + 1 \in K <=> i + 1 \in L
      BY <2>2
    <2>6. Count(K, m) \in 0 .. m
      BY CountFacts
    <2> QED BY <2>1, <2>2, <2>3, <2>4, <2>5, <2>6
  <1> HIDE DEF Good
  <1>3. n \in Good
    BY <1>1, <1>2, Induction
  <1> QED BY <1>3 DEF Good

Tokens == Text \cup Eos \cup {VisionStart, ImagePad}
Features == Images \X Nat
Items == [tok : Tokens, means : Tokens \cup Features]

\* The pad tokens among items.
Pads(items) == {i \in DOMAIN items : items[i].tok = ImagePad}

\* The pad tokens mean the features, in order; other tokens mean themselves.
Aligned(items, features) ==
    /\ items \in Seq(Items) /\ features \in Seq(Features)
    /\ Len(features) = Count(Pads(items), Len(items))
    /\ \A i \in 1 .. Len(items) :
         items[i].means = IF items[i].tok = ImagePad THEN features[Count(Pads(items), i)] ELSE items[i].tok

LEMMA AlignedEmpty == Aligned(<<>>, <<>>)
  <1>1. Count(Pads(<<>>), 0) = 0
    BY CountFacts
  <1>2. <<>> \in Seq(Items) /\ <<>> \in Seq(Features) /\ Len(<<>>) = 0
    OBVIOUS
  <1> HIDE DEF Items, Features, Pads
  <1> QED BY <1>1, <1>2 DEF Aligned

LEMMA AlignedConcat ==
    ASSUME NEW a, NEW f, NEW b, NEW g, Aligned(a, f), Aligned(b, g)
    PROVE  Aligned(a \o b, f \o g)
  <1> DEFINE c == a \o b
             h == f \o g
             A == Pads(a)
             B == Pads(b)
             C == Pads(c)
             m == Len(a)
             n == Len(b)
  <1>1. a \in Seq(Items) /\ b \in Seq(Items) /\ f \in Seq(Features) /\ g \in Seq(Features)
    BY DEF Aligned
  <1>2. /\ c \in Seq(Items) /\ Len(c) = m + n /\ m \in Nat /\ n \in Nat
        /\ (\A i \in 1 .. m : c[i] = a[i]) /\ (\A i \in 1 .. n : c[m + i] = b[i])
    <2> HIDE DEF m, n
    <2> QED BY <1>1 DEF m, n
  <1>3. /\ h \in Seq(Features) /\ Len(h) = Len(f) + Len(g) /\ Len(f) \in Nat /\ Len(g) \in Nat
        /\ (\A i \in 1 .. Len(f) : h[i] = f[i]) /\ (\A i \in 1 .. Len(g) : h[Len(f) + i] = g[i])
    BY <1>1
  <1>4. /\ Len(f) = Count(A, m) /\ Len(g) = Count(B, n)
        /\ \A i \in 1 .. m : a[i].means = IF a[i].tok = ImagePad THEN f[Count(A, i)] ELSE a[i].tok
        /\ \A i \in 1 .. n : b[i].means = IF b[i].tok = ImagePad THEN g[Count(B, i)] ELSE b[i].tok
    BY DEF Aligned
  <1>5. DOMAIN a = 1 .. m /\ DOMAIN b = 1 .. n /\ DOMAIN c = 1 .. m + n
    BY <1>1, <1>2
  <1> HIDE DEF c, h, m, n
  <1>6. \A i \in 1 .. m : i \in C <=> i \in A
    BY <1>2, <1>5 DEF C, A, Pads
  <1>7. \A i \in 1 .. n : m + i \in C <=> i \in B
    BY <1>2, <1>5 DEF C, B, Pads
  <1> HIDE DEF A, B, C
  <1>8. ASSUME NEW i \in 0 .. m PROVE Count(C, i) = Count(A, i)
    <2>1. i \in Nat /\ \A k \in 1 .. i : k \in C <=> k \in A
      BY <1>2, <1>6
    <2> QED BY <2>1, CountAgree
  <1>9. ASSUME NEW i \in 0 .. n PROVE Count(C, m + i) = Len(f) + Count(B, i)
    <2>1. i \in Nat /\ \A k \in 1 .. i : m + k \in C <=> k \in B
      BY <1>2, <1>7
    <2>2. Count(C, m + i) = Count(C, m) + Count(B, i)
      BY <1>2, <2>1, CountShift
    <2>3. Count(C, m) = Count(A, m)
      BY <1>2, <1>8
    <2> QED BY <1>4, <2>2, <2>3
  <1>10. Len(h) = Count(C, Len(c))
    <2>1. n \in 0 .. n
      BY <1>2
    <2> QED BY <1>2, <1>3, <1>4, <1>9, <2>1
  <1>11. ASSUME NEW i \in 1 .. m + n
         PROVE  c[i].means = IF c[i].tok = ImagePad THEN h[Count(C, i)] ELSE c[i].tok
    <2>1. CASE i \in 1 .. m
      <3>1. c[i] = a[i] /\ a[i].means = (IF a[i].tok = ImagePad THEN f[Count(A, i)] ELSE a[i].tok)
        BY <1>2, <1>4, <2>1
      <3>2. ASSUME a[i].tok = ImagePad PROVE Count(C, i) = Count(A, i) /\ Count(A, i) \in 1 .. Len(f)
        <4>1. i \in A /\ i \in Nat \ {0} /\ i \in 0 .. m /\ i <= m
          BY <1>2, <1>5, <2>1, <3>2 DEF A, Pads
        <4>2. Count(A, i) \in Nat \ {0}
          BY <4>1, CountMember
        <4>3. Count(A, i) <= Count(A, m)
          BY <1>2, <4>1, CountMonotone
        <4> QED BY <1>3, <1>4, <1>8, <4>1, <4>2, <4>3
      <3> QED BY <1>3, <3>1, <3>2
    <2>2. CASE i \notin 1 .. m
      <3>1. PICK k \in 1 .. n : i = m + k
        <4>1. i - m \in 1 .. n /\ i = m + (i - m)
          BY <1>2, <2>2
        <4> QED BY <4>1
      <3>2. c[i] = b[k] /\ b[k].means = (IF b[k].tok = ImagePad THEN g[Count(B, k)] ELSE b[k].tok)
        BY <1>2, <1>4, <3>1
      <3>3. ASSUME b[k].tok = ImagePad PROVE Count(C, i) = Len(f) + Count(B, k) /\ Count(B, k) \in 1 .. Len(g)
        <4>1. k \in B /\ k \in Nat \ {0} /\ k \in 0 .. n /\ k <= n
          BY <1>2, <1>5, <3>3 DEF B, Pads
        <4>2. Count(B, k) \in Nat \ {0}
          BY <4>1, CountMember
        <4>3. Count(B, k) <= Count(B, n)
          BY <1>2, <4>1, CountMonotone
        <4> QED BY <1>3, <1>4, <1>9, <3>1, <4>1, <4>2, <4>3
      <3> QED BY <1>3, <3>2, <3>3
    <2> QED BY <2>1, <2>2
  <1>12. \A i \in 1 .. Len(c) : c[i].means = IF c[i].tok = ImagePad THEN h[Count(Pads(c), i)] ELSE c[i].tok
    <2>1. 1 .. Len(c) = 1 .. m + n
      BY <1>2
    <2> QED BY <1>11, <2>1, Zenon DEF C
  <1>13. Aligned(c, h)
    <2>1. Len(h) = Count(Pads(c), Len(c))
      BY <1>10 DEF C
    <2> QED BY <1>2, <1>3, <1>12, <2>1, Zenon DEF Aligned
  <1> QED BY <1>13 DEF c, h

\* A token that is not a pad token has no feature.
LEMMA AlignedToken ==
    ASSUME NEW x \in Tokens, x # ImagePad
    PROVE  Aligned(<<[tok |-> x, means |-> x]>>, <<>>)
  <1> DEFINE s == <<[tok |-> x, means |-> x]>>
  <1>1. s \in Seq(Items) /\ Len(s) = 1 /\ s[1] = [tok |-> x, means |-> x]
    BY DEF Items
  <1>2. [tok |-> x, means |-> x].tok = x /\ [tok |-> x, means |-> x].means = x
    OBVIOUS
  <1> HIDE DEF s
  <1>3. 1 \notin Pads(s)
    BY <1>1, <1>2 DEF Pads
  <1>4. Count(Pads(s), 1) = 0
    <2>1. Count(Pads(s), 0) = 0 /\ Count(Pads(s), 0 + 1) = Count(Pads(s), 0) + (IF 0 + 1 \in Pads(s) THEN 1 ELSE 0)
      BY CountFacts
    <2> QED BY <1>3, <2>1
  <1>5. <<>> \in Seq(Features) /\ Len(<<>>) = 0
    OBVIOUS
  <1>6. \A i \in 1 .. Len(s) : s[i].means = IF s[i].tok = ImagePad THEN <<>>[Count(Pads(s), i)] ELSE s[i].tok
    BY <1>1, <1>2
  <1> HIDE DEF Items, Features, Pads
  <1>7. Aligned(s, <<>>)
    BY <1>1, <1>4, <1>5, <1>6 DEF Aligned
  <1> QED BY <1>7 DEF s

\* A run of pad tokens and its features.
LEMMA AlignedPads ==
    ASSUME NEW n \in Nat, NEW f \in Seq(Features), Len(f) = n
    PROVE  Aligned([i \in 1 .. n |-> [tok |-> ImagePad, means |-> f[i]]], f)
  <1> DEFINE s == [i \in 1 .. n |-> [tok |-> ImagePad, means |-> f[i]]]
  <1>1. \A i \in 1 .. n : f[i] \in Features
    OBVIOUS
  <1>2. \A i \in 1 .. n : [tok |-> ImagePad, means |-> f[i]] \in Items
    <2> HIDE DEF Features
    <2> QED BY <1>1 DEF Items, Tokens
  <1>3. /\ s \in Seq(Items) /\ Len(s) = n /\ DOMAIN s = 1 .. n
        /\ \A i \in 1 .. n : s[i].tok = ImagePad /\ s[i].means = f[i]
    <2> HIDE DEF Items
    <2> QED BY <1>2
  <1> HIDE DEF s
  <1>4. Pads(s) = 1 .. n
    BY <1>3 DEF Pads
  <1>5. ASSUME NEW i \in 0 .. n PROVE Count(1 .. n, i) = i
    <2>1. {k \in 1 .. i : k \in 1 .. n} = 1 .. i
      OBVIOUS
    <2>2. Cardinality(1 .. i) = i
      BY FS_Interval
    <2> QED BY <2>1, <2>2 DEF Count
  <1>6. Count(Pads(s), Len(s)) = n
    <2>1. n \in 0 .. n
      OBVIOUS
    <2> QED BY <1>3, <1>4, <1>5, <2>1
  <1>7. ASSUME NEW i \in 1 .. Len(s)
        PROVE  s[i].means = IF s[i].tok = ImagePad THEN f[Count(Pads(s), i)] ELSE s[i].tok
    <2>1. i \in 0 .. n /\ i \in 1 .. n
      BY <1>3
    <2> QED BY <1>3, <1>4, <1>5, <2>1
  <1>8. Aligned(s, f)
    BY <1>3, <1>6, <1>7 DEF Aligned
  <1> QED BY <1>8 DEF s

\* One sequence more is flattened.
LEMMA FlattenNext ==
    ASSUME NEW T, NEW n \in Nat, NEW p, \A i \in 1 .. n + 1 : p[i] \in Seq(T)
    PROVE  /\ FlattenSeq([i \in 1 .. n + 1 |-> p[i]]) = FlattenSeq([i \in 1 .. n |-> p[i]]) \o p[n + 1]
           /\ FlattenSeq([i \in 1 .. n |-> p[i]]) \in Seq(T)
  <1> DEFINE a == [i \in 1 .. n |-> p[i]]
             b == [i \in 1 .. n + 1 |-> p[i]]
             x == p[n + 1]
             c == Append(a, x)
  <1>1. a \in Seq(Seq(T)) /\ Len(a) = n /\ x \in Seq(T) /\ \A i \in 1 .. n : a[i] = p[i]
    <2>1. \A i \in 1 .. n : p[i] \in Seq(T)
      OBVIOUS
    <2> QED BY <2>1
  <1>2. b = c
    <2>1. /\ c \in Seq(Seq(T)) /\ Len(c) = n + 1 /\ c[n + 1] = x
          /\ \A i \in 1 .. n : c[i] = a[i]
      <3> HIDE DEF a, x
      <3> QED BY <1>1, AppendProperties
    <2> HIDE DEF a, c
    <2>2. c = [i \in 1 .. n + 1 |-> c[i]]
      BY <2>1
    <2>3. ASSUME NEW i \in 1 .. n + 1 PROVE c[i] = p[i]
      <3>1. CASE i = n + 1
        BY <2>1, <3>1
      <3>2. CASE i # n + 1
        <4>1. i \in 1 .. n
          BY <3>2
        <4> QED BY <1>1, <2>1, <4>1
      <3> QED BY <3>1, <3>2
    <2> QED BY <2>2, <2>3
  <1> HIDE DEF a, x
  <1>3. FlattenSeq(c) = FlattenSeq(a) \o x /\ FlattenSeq(a) \in Seq(T)
    BY <1>1, FlattenAppend, FlattenType
  <1> QED BY <1>2, <1>3 DEF a, x

\* What an element of a prompt expands to, and its features.
PiecePads(m) == [g \in 1 .. grid[1] * grid[2] |-> [tok |-> ImagePad, means |-> <<m, g - 1>>]]
Piece(x) == IF x \in Images THEN <<[tok |-> VisionStart, means |-> VisionStart]>> \o PiecePads(x)
            ELSE <<[tok |-> x, means |-> x]>>
PieceImages(x) == IF x \in Images THEN <<x>> ELSE <<>>
ImageFeatures(m) == [g \in 1 .. grid[1] * grid[2] |-> <<m, encoder[g - 1]>>]

LEMMA ImageAligned ==
    ASSUME BundleFixed, NEW m \in Images
    PROVE  /\ ImageFeatures(m) \in Seq(Features)
           /\ Aligned(Piece(m), ImageFeatures(m)) /\ Len(Piece(m)) \in Nat \ {0}
  <1> DEFINE n == grid[1] * grid[2]
             f == ImageFeatures(m)
             v == <<[tok |-> VisionStart, means |-> VisionStart]>>
             s == [i \in 1 .. n |-> [tok |-> ImagePad, means |-> f[i]]]
  <1>1. n \in Nat
    <2>1. grid[1] \in Nat /\ grid[2] \in Nat
      BY VLMAssumption DEF BundleFixed, VLMAssumption
    <2> QED BY <2>1, ProductNat
  <1>2. ASSUME NEW g \in 1 .. n PROVE f[g] = <<m, g - 1>> /\ f[g] \in Features
    <2>1. g - 1 \in Groups(grid[1], grid[2])
      <3> HIDE DEF n
      <3>1. g - 1 \in 0 .. n - 1
        BY <1>1
      <3> QED BY <3>1 DEF Groups, n
    <2>2. encoder[g - 1] = g - 1
      BY <2>1 DEF BundleFixed
    <2>3. f[g] = <<m, encoder[g - 1]>>
      BY DEF ImageFeatures
    <2>4. g - 1 \in Nat
      <3> HIDE DEF n
      <3> QED BY <1>1
    <2> HIDE DEF f, n
    <2> QED BY <2>2, <2>3, <2>4 DEF Features
  <1>3. f = [g \in 1 .. n |-> f[g]]
    BY DEF ImageFeatures
  <1>4. f \in Seq(Features) /\ Len(f) = n
    <2> HIDE DEF f, n, Features
    <2> QED BY <1>1, <1>2, <1>3
  <1>5. s = PiecePads(m)
    <2> HIDE DEF f
    <2> QED BY <1>2 DEF PiecePads
  <1>6. Aligned(s, f)
    <2> HIDE DEF f, n
    <2> QED BY <1>1, <1>4, AlignedPads
  <1>7. Aligned(v, <<>>)
    <2>1. VisionStart \in Tokens /\ VisionStart # ImagePad
      BY VLMAssumption DEF VLMAssumption, Tokens
    <2> QED BY <2>1, AlignedToken
  <1> HIDE DEF f, s, v, n
  <1>8. Aligned(v \o s, <<>> \o f)
    BY <1>6, <1>7, AlignedConcat
  <1>9. <<>> \o f = f
    BY <1>4, ConcatEmptySeq
  <1>10. Piece(m) = v \o s
    BY <1>5 DEF Piece, v
  <1>11. Len(v \o s) \in Nat \ {0}
    <2>1. v \in Seq(Items) /\ s \in Seq(Items)
      BY <1>6, <1>7 DEF Aligned
    <2>2. Len(v) = 1
      BY DEF v
    <2> HIDE DEF Items
    <2> QED BY <2>1, <2>2
  <1> QED BY <1>4, <1>8, <1>9, <1>10, <1>11 DEF f

LEMMA TextAligned ==
    ASSUME NEW x \in Text, x \notin Images
    PROVE  Aligned(Piece(x), <<>>) /\ Len(Piece(x)) \in Nat \ {0}
  <1>1. x \in Tokens /\ x # ImagePad
    BY VLMAssumption DEF VLMAssumption, Tokens
  <1>2. Piece(x) = <<[tok |-> x, means |-> x]>>
    BY DEF Piece
  <1> QED BY <1>1, <1>2, AlignedToken

\* The first n elements of a prompt.
ItemsTo(shape, n) == FlattenSeq([i \in 1 .. n |-> Piece(shape[i])])
ImagesTo(shape, n) == FlattenSeq([i \in 1 .. n |-> PieceImages(shape[i])])

\* Their features.
LEMMA FeaturesOfOneMore ==
    ASSUME BundleFixed, NEW images \in Seq(Images), NEW m \in Images
    PROVE  EncodeVision(images \o <<m>>) = EncodeVision(images) \o ImageFeatures(m)
  <1> DEFINE n == Len(images)
             longer == images \o <<m>>
             p == [i \in 1 .. n + 1 |-> ImageFeatures(longer[i])]
  <1>1. /\ longer \in Seq(Images) /\ Len(longer) = n + 1 /\ n \in Nat /\ longer[n + 1] = m
        /\ \A i \in 1 .. n : longer[i] = images[i]
    OBVIOUS
  <1> HIDE DEF longer
  <1>2. \A i \in 1 .. n + 1 : longer[i] \in Images
    BY <1>1
  <1>3. \A i \in 1 .. n + 1 : p[i] = ImageFeatures(longer[i]) /\ p[i] \in Seq(Features)
    BY <1>2, ImageAligned
  <1>4. EncodeVision(longer) = FlattenSeq([i \in 1 .. n + 1 |-> p[i]])
    <2>1. DOMAIN longer = 1 .. n + 1
      BY <1>1
    <2> QED BY <2>1 DEF EncodeVision, ImageFeatures
  <1>5. EncodeVision(images) = FlattenSeq([i \in 1 .. n |-> p[i]])
    <2>1. DOMAIN images = 1 .. n
      OBVIOUS
    <2>2. EncodeVision(images) = FlattenSeq([i \in 1 .. n |-> ImageFeatures(images[i])])
      BY <2>1 DEF EncodeVision, ImageFeatures
    <2> HIDE DEF p, n
    <2>3. [i \in 1 .. n |-> ImageFeatures(images[i])] = [i \in 1 .. n |-> p[i]]
      <3>1. \A i \in 1 .. n : i \in 1 .. n + 1
        BY <1>1
      <3> QED BY <1>1, <1>3, <3>1
    <2> QED BY <2>2, <2>3
  <1> HIDE DEF p, n
  <1>6. FlattenSeq([i \in 1 .. n + 1 |-> p[i]]) = FlattenSeq([i \in 1 .. n |-> p[i]]) \o p[n + 1]
    BY <1>1, <1>3, FlattenNext
  <1>7. p[n + 1] = ImageFeatures(m)
    <2>1. n + 1 \in 1 .. n + 1
      BY <1>1
    <2> QED BY <1>1, <1>3, <2>1
  <1> QED BY <1>4, <1>5, <1>6, <1>7 DEF longer

\* One element more of a prompt.
LEMMA OneMore ==
    ASSUME BundleFixed, NEW shape \in Shapes, NEW n \in Nat, n + 1 <= Len(shape)
    PROVE  /\ shape[n + 1] \in Text \cup Images
           /\ ItemsTo(shape, n + 1) = ItemsTo(shape, n) \o Piece(shape[n + 1])
           /\ ImagesTo(shape, n + 1) = ImagesTo(shape, n) \o PieceImages(shape[n + 1])
           /\ Piece(shape[n + 1]) \in Seq(Items) /\ ItemsTo(shape, n) \in Seq(Items)
           /\ ImagesTo(shape, n) \in Seq(Images)
  <1> DEFINE x == shape[n + 1]
             p == [i \in 1 .. n + 1 |-> Piece(shape[i])]
             q == [i \in 1 .. n + 1 |-> PieceImages(shape[i])]
  <1>1. Len(shape) \in Nat /\ \A i \in 1 .. Len(shape) : shape[i] \in Text \cup Images
    <2>1. shape \in Seq(Text \cup Images)
      BY VLMAssumption DEF VLMAssumption
    <2> QED BY <2>1
  <1>2. n + 1 \in 1 .. n + 1 /\ \A i \in 1 .. n + 1 : i \in 1 .. Len(shape)
    BY <1>1
  <1>3. ASSUME NEW y \in Text \cup Images PROVE Piece(y) \in Seq(Items) /\ PieceImages(y) \in Seq(Images)
    <2>1. Piece(y) \in Seq(Items)
      BY ImageAligned, TextAligned DEF Aligned
    <2> QED BY <2>1 DEF PieceImages
  <1>4. ItemsTo(shape, n + 1) = ItemsTo(shape, n) \o Piece(x) /\ ItemsTo(shape, n) \in Seq(Items)
    <2>1. \A i \in 1 .. n + 1 : p[i] = Piece(shape[i]) /\ p[i] \in Seq(Items)
      <3> HIDE DEF Items
      <3> QED BY <1>1, <1>2, <1>3
    <2>2. [i \in 1 .. n |-> p[i]] = [i \in 1 .. n |-> Piece(shape[i])] /\ p[n + 1] = Piece(x)
      OBVIOUS
    <2>3. [i \in 1 .. n + 1 |-> p[i]] = p
      OBVIOUS
    <2> HIDE DEF p, Items
    <2>4. /\ FlattenSeq([i \in 1 .. n + 1 |-> p[i]]) = FlattenSeq([i \in 1 .. n |-> p[i]]) \o p[n + 1]
          /\ FlattenSeq([i \in 1 .. n |-> p[i]]) \in Seq(Items)
      BY <2>1, FlattenNext
    <2>5. ItemsTo(shape, n + 1) = FlattenSeq(p)
      BY DEF ItemsTo, p
    <2> QED BY <2>2, <2>3, <2>4, <2>5, Zenon DEF ItemsTo
  <1>5. ImagesTo(shape, n + 1) = ImagesTo(shape, n) \o PieceImages(x) /\ ImagesTo(shape, n) \in Seq(Images)
    <2>1. \A i \in 1 .. n + 1 : q[i] = PieceImages(shape[i]) /\ q[i] \in Seq(Images)
      BY <1>1, <1>2, <1>3
    <2>2. [i \in 1 .. n |-> q[i]] = [i \in 1 .. n |-> PieceImages(shape[i])] /\ q[n + 1] = PieceImages(x)
      OBVIOUS
    <2>3. [i \in 1 .. n + 1 |-> q[i]] = q
      OBVIOUS
    <2> HIDE DEF q
    <2>4. /\ FlattenSeq([i \in 1 .. n + 1 |-> q[i]]) = FlattenSeq([i \in 1 .. n |-> q[i]]) \o q[n + 1]
          /\ FlattenSeq([i \in 1 .. n |-> q[i]]) \in Seq(Images)
      BY <2>1, FlattenNext
    <2>5. ImagesTo(shape, n + 1) = FlattenSeq(q)
      BY DEF ImagesTo, q
    <2> QED BY <2>2, <2>3, <2>4, <2>5, Zenon DEF ImagesTo
  <1>6. x \in Text \cup Images /\ Piece(x) \in Seq(Items)
    BY <1>1, <1>2, <1>3
  <1> QED BY <1>4, <1>5, <1>6

\* A prompt's tokens are those of its elements.
LEMMA WholePrompt ==
    ASSUME NEW shape \in Shapes
    PROVE  /\ Len(shape) \in Nat \ {0} /\ shape \in Seq(Text \cup Images)
           /\ Expand(shape) = ItemsTo(shape, Len(shape)) /\ ImagesOf(shape) = ImagesTo(shape, Len(shape))
  <1>1. Len(shape) \in Nat \ {0} /\ shape \in Seq(Text \cup Images) /\ DOMAIN shape = 1 .. Len(shape)
    <2>1. shape \in Seq(Text \cup Images) \ {<<>>}
      BY VLMAssumption DEF VLMAssumption
    <2> QED BY <2>1, EmptySeq
  <1> QED BY <1>1 DEF Expand, ItemsTo, ImagesOf, ImagesTo, Piece, PiecePads, PieceImages

\* A prompt's pad tokens get the features of their own groups.
LEMMA PromptAligned ==
    ASSUME BundleFixed, NEW shape \in Shapes
    PROVE  /\ Aligned(Expand(shape), EncodeVision(ImagesOf(shape)))
           /\ ImagesOf(shape) \in Seq(Images)
           /\ Len(Expand(shape)) \in Nat \ {0}
  <1> DEFINE N == Len(shape)
             R(n) == EncodeVision(ImagesTo(shape, n))
             GoodTo(n) == /\ ImagesTo(shape, n) \in Seq(Images)
                          /\ Aligned(ItemsTo(shape, n), R(n))
                          /\ n <= Len(ItemsTo(shape, n))
             Good == {n \in Nat : n <= N => GoodTo(n)}
  <1>1. N \in Nat \ {0}
    BY WholePrompt
  <1>3. 0 \in Good
    <2>1. [i \in 1 .. 0 |-> Piece(shape[i])] = <<>> /\ [i \in 1 .. 0 |-> PieceImages(shape[i])] = <<>>
      OBVIOUS
    <2>2. ItemsTo(shape, 0) = <<>> /\ ImagesTo(shape, 0) = <<>>
      BY <2>1, FlattenEmpty, Zenon DEF ItemsTo, ImagesTo
    <2>3. EncodeVision(<<>>) = <<>>
      <3>1. [i \in DOMAIN <<>> |-> [g \in 1 .. grid[1] * grid[2] |-> <<<<>>[i], encoder[g - 1]>>]] = <<>>
        OBVIOUS
      <3> QED BY <3>1, FlattenEmpty, Zenon DEF EncodeVision
    <2>4. <<>> \in Seq(Images) /\ 0 <= Len(<<>>)
      OBVIOUS
    <2>5. GoodTo(0)
      BY <2>2, <2>3, <2>4, AlignedEmpty, Zenon
    <2> QED BY <2>5
  <1>4. ASSUME NEW n \in Nat, n \in Good PROVE n + 1 \in Good
    <2> SUFFICES ASSUME n + 1 <= N PROVE GoodTo(n + 1)
      OBVIOUS
    <2> DEFINE x == shape[n + 1]
               a == ItemsTo(shape, n)
               b == Piece(x)
               f == R(n)
    <2>1. GoodTo(n)
      BY <1>4
    <2>2. /\ x \in Text \cup Images /\ a \in Seq(Items)
          /\ ItemsTo(shape, n + 1) = a \o b /\ ImagesTo(shape, n + 1) = ImagesTo(shape, n) \o PieceImages(x)
      BY OneMore
    <2> HIDE DEF x
    <2>6. a \in Seq(Items) /\ n <= Len(a) /\ Aligned(a, f) /\ f \in Seq(Features)
      <3>1. Aligned(a, f) /\ n <= Len(a)
        BY <2>1
      <3> QED BY <2>2, <3>1 DEF Aligned
    <2>7. CASE x \in Images
      <3>1. PieceImages(x) = <<x>>
        BY <2>7 DEF PieceImages
      <3>2. ImagesTo(shape, n) \in Seq(Images)
        BY <2>1
      <3>3. R(n + 1) = f \o ImageFeatures(x)
        BY <2>2, <2>7, <3>1, <3>2, FeaturesOfOneMore
      <3>4. Aligned(b, ImageFeatures(x)) /\ Len(b) \in Nat \ {0}
        BY <2>7, ImageAligned
      <3>5. ImagesTo(shape, n + 1) \in Seq(Images)
        <4> DEFINE u == ImagesTo(shape, n)
                   v == ImagesTo(shape, n + 1)
        <4>1. u \in Seq(Images) /\ v = u \o <<x>>
          BY <2>2, <3>1, <3>2
        <4> HIDE DEF u, v
        <4>2. v \in Seq(Images)
          BY <2>7, <4>1
        <4> QED BY <4>2 DEF v
      <3> HIDE DEF a, b, f
      <3>6. Aligned(a \o b, f \o ImageFeatures(x))
        BY <2>6, <3>4, AlignedConcat
      <3>7. b \in Seq(Items)
        BY <3>4 DEF Aligned
      <3> HIDE DEF Items
      <3>8. n + 1 <= Len(a \o b)
        BY <2>6, <3>4, <3>7
      <3>9. ItemsTo(shape, n + 1) = a \o b
        BY <2>2 DEF a, b
      <3> QED BY <3>3, <3>5, <3>6, <3>8, <3>9
    <2>8. CASE x \notin Images
      <3>1. x \in Text /\ PieceImages(x) = <<>>
        BY <2>2, <2>8 DEF PieceImages
      <3>2. ImagesTo(shape, n) \in Seq(Images)
        BY <2>1
      <3>3. ImagesTo(shape, n + 1) = ImagesTo(shape, n)
        BY <2>2, <3>1, <3>2, ConcatEmptySeq
      <3>4. R(n + 1) = f
        BY <3>3
      <3>5. Aligned(b, <<>>) /\ Len(b) \in Nat \ {0}
        BY <2>8, <3>1, TextAligned
      <3> HIDE DEF a, b, f
      <3>6. Aligned(a \o b, f \o <<>>)
        BY <2>6, <3>5, AlignedConcat
      <3>7. f \o <<>> = f
        BY <2>6, ConcatEmptySeq
      <3>8. b \in Seq(Items)
        BY <3>5 DEF Aligned
      <3> HIDE DEF Items
      <3>9. n + 1 <= Len(a \o b)
        BY <2>6, <3>5, <3>8
      <3>10. ItemsTo(shape, n + 1) = a \o b
        BY <2>2 DEF a, b
      <3> QED BY <3>2, <3>3, <3>4, <3>6, <3>7, <3>9, <3>10
    <2> QED BY <2>7, <2>8
  <1> HIDE DEF Good
  <1>5. N \in Good
    BY <1>1, <1>3, <1>4, Induction
  <1>6. GoodTo(N)
    BY <1>1, <1>5 DEF Good
  <1>7. Expand(shape) = ItemsTo(shape, N) /\ ImagesOf(shape) = ImagesTo(shape, N)
    BY WholePrompt
  <1>8. Len(Expand(shape)) \in Nat /\ N <= Len(Expand(shape))
    <2>1. ItemsTo(shape, N) \in Seq(Items)
      BY <1>6 DEF Aligned
    <2> HIDE DEF Items
    <2> QED BY <1>6, <1>7, <2>1
  <1> QED BY <1>1, <1>6, <1>7, <1>8

\* What maskedScatter stages, when tokens and features are aligned.
LEMMA ScatterGivesMeanings ==
    ASSUME NEW items, NEW features, Aligned(items, features)
    PROVE  MaskedScatter(Ids(items), features) = [i \in DOMAIN items |-> items[i].means]
  <1> DEFINE ids == Ids(items)
             K == Pads(items)
             n == Len(items)
             at(i) == Cardinality({j \in 1 .. i : ids[j] = ImagePad})
  <1>1. items \in Seq(Items) /\ features \in Seq(Features) /\ n \in Nat /\ DOMAIN items = 1 .. n
    BY DEF Aligned
  <1>2. DOMAIN ids = 1 .. n /\ \A i \in 1 .. n : ids[i] = items[i].tok
    BY <1>1 DEF Ids
  <1>3. \A i \in 1 .. n : i \in K <=> ids[i] = ImagePad
    BY <1>1, <1>2 DEF Pads
  <1>4. /\ Len(features) = Count(K, n)
        /\ \A i \in 1 .. n : items[i].means = IF items[i].tok = ImagePad THEN features[Count(K, i)] ELSE items[i].tok
    BY DEF Aligned
  <1> HIDE DEF ids, K, n
  <1>5. ASSUME NEW i \in 1 .. n PROVE at(i) = Count(K, i)
    <2>1. \A j \in 1 .. i : j \in 1 .. n
      BY <1>1
    <2>2. {j \in 1 .. i : ids[j] = ImagePad} = {j \in 1 .. i : j \in K}
      BY <1>3, <2>1
    <2> QED BY <2>2 DEF Count
  <1>6. ASSUME NEW i \in 1 .. n, ids[i] = ImagePad PROVE features # <<>>
    <2>1. i \in Nat \ {0} /\ i \in K /\ i <= n
      BY <1>1, <1>3, <1>6
    <2>2. Count(K, i) \in Nat \ {0}
      BY <2>1, CountMember
    <2>3. Count(K, i) <= Count(K, n)
      BY <1>1, <2>1, CountMonotone
    <2>4. Len(features) # 0
      <3>1. Len(features) \in Nat
        BY <1>1
      <3> QED BY <1>4, <2>2, <2>3, <3>1
    <2> QED BY <1>1, <2>4, EmptySeq
  <1>7. ASSUME NEW i \in 1 .. n
        PROVE  (IF ids[i] = ImagePad /\ features # <<>> THEN features[at(i)] ELSE ids[i]) = items[i].means
    <2> HIDE DEF at
    <2> QED BY <1>2, <1>4, <1>5, <1>6
  <1>8. MaskedScatter(ids, features)
          = [i \in 1 .. n |-> IF ids[i] = ImagePad /\ features # <<>> THEN features[at(i)] ELSE ids[i]]
    BY <1>2 DEF MaskedScatter
  <1> HIDE DEF at
  <1>9. MaskedScatter(ids, features) = [i \in 1 .. n |-> items[i].means]
    BY <1>7, <1>8
  <1> QED BY <1>1, <1>9 DEF ids
-----------------------------------------------------------------------------
(* Sequences of whatever the graphs were given.                            *)

IsSequence(s) == s \in Seq({s[i] : i \in DOMAIN s})

LEMMA SequenceOf ==
    ASSUME NEW S, NEW s \in Seq(S)
    PROVE  IsSequence(s)
  <1> DEFINE T == {s[i] : i \in DOMAIN s}
             n == Len(s)
  <1>1. n \in Nat /\ DOMAIN s = 1 .. n /\ s = [i \in 1 .. n |-> s[i]]
    OBVIOUS
  <1>2. \A i \in 1 .. n : s[i] \in T
    BY <1>1
  <1> HIDE DEF T, n
  <1>3. s \in Seq(T)
    BY <1>1, <1>2
  <1> QED BY <1>3 DEF IsSequence, T

LEMMA SequenceConcat ==
    ASSUME NEW a, NEW b, IsSequence(a), IsSequence(b)
    PROVE  /\ IsSequence(a \o b) /\ Len(a \o b) = Len(a) + Len(b) /\ Len(a) \in Nat /\ Len(b) \in Nat
           /\ \A i \in 1 .. Len(a) : (a \o b)[i] = a[i]
           /\ \A i \in 1 .. Len(b) : (a \o b)[Len(a) + i] = b[i]
  <1> DEFINE A == {a[i] : i \in DOMAIN a}
             B == {b[i] : i \in DOMAIN b}
             S == A \cup B
  <1>1. a \in Seq(A) /\ b \in Seq(B)
    BY DEF IsSequence
  <1> HIDE DEF A, B
  <1>2. a \in Seq(S) /\ b \in Seq(S)
    <2>1. \A i \in 1 .. Len(a) : a[i] \in S
      BY <1>1
    <2>2. \A i \in 1 .. Len(b) : b[i] \in S
      BY <1>1
    <2>3. a = [i \in 1 .. Len(a) |-> a[i]] /\ b = [i \in 1 .. Len(b) |-> b[i]] /\ Len(a) \in Nat /\ Len(b) \in Nat
      BY <1>1
    <2> HIDE DEF S
    <2>4. a \in Seq(S)
      BY <2>1, <2>3
    <2>5. b \in Seq(S)
      BY <2>2, <2>3
    <2> QED BY <2>4, <2>5
  <1> HIDE DEF S
  <1>3. a \o b \in Seq(S)
    BY <1>2
  <1>4. IsSequence(a \o b)
    BY <1>3, SequenceOf
  <1> QED BY <1>2, <1>4

LEMMA SequenceCut ==
    ASSUME NEW a, IsSequence(a), NEW k \in 0 .. Len(a)
    PROVE  /\ IsSequence(SubSeq(a, 1, k)) /\ Len(SubSeq(a, 1, k)) = k
           /\ \A i \in 1 .. k : SubSeq(a, 1, k)[i] = a[i]
  <1> DEFINE A == {a[i] : i \in DOMAIN a}
  <1>1. a \in Seq(A)
    BY DEF IsSequence
  <1> HIDE DEF A
  <1>2. k \in Nat /\ 1 \in Nat \ {0} /\ k <= Len(a)
    BY <1>1
  <1>3. /\ SubSeq(a, 1, k) \in Seq(A)
        /\ Len(SubSeq(a, 1, k)) = IF 1 <= k THEN k - 1 + 1 ELSE 0
        /\ \A i \in 1 .. k - 1 + 1 : SubSeq(a, 1, k)[i] = a[1 + i - 1]
    BY <1>1, <1>2, Slice
  <1>4. IsSequence(SubSeq(a, 1, k))
    BY <1>3, SequenceOf
  <1> QED BY <1>2, <1>3, <1>4
-----------------------------------------------------------------------------
(* The positions of a prompt.                                              *)

Positions == [1 .. 3 -> Nat]
Boxes == [grid : Nat \X Nat \X Nat, at : Nat, used : Nat]
Scans == [pos : Seq(Positions), st : Nat, left : Seq(Nat \X Nat \X Nat), box : Boxes]

LEMMA BoxCellType ==
    ASSUME NEW g \in Nat \X Nat \X Nat, NEW k \in Nat, k < g[1] * g[2] * g[3], NEW d \in 1 .. 3
    PROVE  BoxCell(g, k)[d] \in Nat
  <1> DEFINE a == g[1]
             b == g[2]
             c == g[3]
             bc == b * c
  <1>1. a \in Nat /\ b \in Nat /\ c \in Nat
    OBVIOUS
  <1>2. BoxCell(g, k) = <<k \div bc, (k \div c) % b, k % c>>
    BY DEF BoxCell
  <1>3. k < (a * b) * c
    OBVIOUS
  <1> HIDE DEF a, b, c
  <1>4. c # 0 /\ b # 0
    <2>1. CASE c = 0
      <3>1. (a * b) * 0 = 0
        BY <1>1, ProductNat
      <3> QED BY <1>3, <2>1, <3>1
    <2>2. CASE b = 0
      <3>1. (a * 0) * c = 0
        BY <1>1
      <3> QED BY <1>3, <2>2, <3>1
    <2> QED BY <2>1, <2>2
  <1>5. bc \in Nat /\ bc # 0
    BY <1>1, <1>4
  <1> HIDE DEF bc
  <1>6. k \div bc \in Nat /\ k \div c \in Nat /\ k % c \in Nat
    BY <1>1, <1>4, <1>5
  <1>7. (k \div c) % b \in Nat
    <2> DEFINE q == k \div c
    <2> HIDE DEF q
    <2> QED BY <1>1, <1>4, <1>6 DEF q
  <1> QED BY <1>2, <1>6, <1>7

LEMMA PastBoxType ==
    ASSUME NEW g \in Nat \X Nat \X Nat
    PROVE  PastBox(g) \in Nat
  BY DEF PastBox, Max2

LEMMA StepScans ==
    ASSUME NEW x \in Scans, NEW tok, NEW start, NEW image
    PROVE  /\ MRoPEStep(x, tok, start, image) \in Scans
           /\ Len(MRoPEStep(x, tok, start, image).pos) = Len(x.pos) + 1
  <1> DEFINE g == x.box.grid
             text(box, past, left) ==
                [pos |-> Append(x.pos, <<x.st, x.st, x.st>>), st |-> x.st + 1 + past, left |-> left, box |-> box]
  <1>1. /\ x.pos \in Seq(Positions) /\ x.st \in Nat /\ x.left \in Seq(Nat \X Nat \X Nat) /\ x.box \in Boxes
        /\ g \in Nat \X Nat \X Nat /\ x.box.at \in Nat /\ x.box.used \in Nat
    BY DEF Scans, Boxes
  <1>2. ASSUME NEW p \in Positions PROVE Append(x.pos, p) \in Seq(Positions) /\ Len(Append(x.pos, p)) = Len(x.pos) + 1
    <2> HIDE DEF Positions
    <2> QED BY <1>1
  <1>3. ASSUME NEW box \in Boxes, NEW past \in Nat, NEW left \in Seq(Nat \X Nat \X Nat)
        PROVE  text(box, past, left) \in Scans /\ Len(text(box, past, left).pos) = Len(x.pos) + 1
    <2>1. <<x.st, x.st, x.st>> \in Positions
      BY <1>1 DEF Positions
    <2> HIDE DEF Positions, Boxes
    <2>2. Append(x.pos, <<x.st, x.st, x.st>>) \in Seq(Positions)
          /\ Len(Append(x.pos, <<x.st, x.st, x.st>>)) = Len(x.pos) + 1
      BY <1>2, <2>1
    <2>3. x.st + 1 + past \in Nat
      BY SMTT(40), <1>1
    <2> QED BY <2>2, <2>3 DEF Scans
  <1>4. CASE tok = image /\ x.box.used < g[1] * g[2] * g[3]
    <2> DEFINE p == [d \in 1 .. 3 |-> x.box.at + BoxCell(g, x.box.used)[d]]
               box == [x.box EXCEPT !.used = @ + 1]
    <2>1. p \in Positions
      <3> HIDE DEF g
      <3>1. ASSUME NEW d \in 1 .. 3 PROVE x.box.at + BoxCell(g, x.box.used)[d] \in Nat
        <4>1. BoxCell(g, x.box.used)[d] \in Nat
          BY <1>1, <1>4, BoxCellType
        <4> QED BY SMTT(40), <1>1, <4>1
      <3> QED BY <3>1 DEF Positions
    <2>2. box \in Boxes
      <3> DEFINE b == x.box
      <3>1. b \in Boxes
        BY <1>1
      <3> HIDE DEF b
      <3>2. [b EXCEPT !.used = @ + 1] \in Boxes
        <4>1. b.used + 1 \in Nat
          BY <3>1 DEF Boxes
        <4> QED BY <3>1, <4>1 DEF Boxes
      <3> QED BY <3>2 DEF b
    <2>3. MRoPEStep(x, tok, start, image) = [pos |-> Append(x.pos, p), st |-> x.st, left |-> x.left, box |-> box]
      <3>1. x = [pos |-> x.pos, st |-> x.st, left |-> x.left, box |-> x.box]
        BY DEF Scans
      <3>2. MRoPEStep(x, tok, start, image) = [x EXCEPT !.pos = Append(@, p), !.box.used = @ + 1]
        BY <1>4 DEF MRoPEStep
      <3> HIDE DEF p
      <3>3. [x EXCEPT !.pos = Append(@, p), !.box.used = @ + 1] = [pos |-> Append(x.pos, p), st |-> x.st, left |-> x.left, box |-> box]
        <4> DEFINE a == Append(x.pos, p)
        <4>1. [x EXCEPT !.pos = a, !.box = box] = [pos |-> a, st |-> x.st, left |-> x.left, box |-> box]
          <5> DEFINE q == x.pos
                     t == x.st
                     l == x.left
                     b == x.box
          <5>1. x = [pos |-> q, st |-> t, left |-> l, box |-> b]
            BY <3>1
          <5> HIDE DEF a, box, q, t, l, b
          <5>2. [x EXCEPT !.pos = a, !.box = box] = [[x EXCEPT !.pos = a] EXCEPT !.box = box]
            BY <5>1
          <5>3. [x EXCEPT !.pos = a] = [pos |-> a, st |-> t, left |-> l, box |-> b]
            BY <5>1
          <5>4. [[pos |-> a, st |-> t, left |-> l, box |-> b] EXCEPT !.box = box]
                  = [pos |-> a, st |-> t, left |-> l, box |-> box]
            OBVIOUS
          <5> QED BY <5>2, <5>3, <5>4 DEF t, l
        <4>2. [x EXCEPT !.pos = Append(@, p), !.box.used = @ + 1] = [x EXCEPT !.pos = a, !.box = box]
          OBVIOUS
        <4> QED BY <4>1, <4>2
      <3> QED BY <3>2, <3>3
    <2> HIDE DEF p, box, Boxes
    <2>4. Append(x.pos, p) \in Seq(Positions) /\ Len(Append(x.pos, p)) = Len(x.pos) + 1
      BY <1>2, <2>1
    <2> HIDE DEF Positions
    <2> QED BY <1>1, <2>2, <2>3, <2>4 DEF Scans
  <1>5. CASE ~ (tok = image /\ x.box.used < g[1] * g[2] * g[3])
    <2>1. CASE tok = start /\ x.left # <<>>
      <3> DEFINE box == [grid |-> Head(x.left), at |-> x.st + 1, used |-> 0]
      <3>1. Head(x.left) \in Nat \X Nat \X Nat /\ Tail(x.left) \in Seq(Nat \X Nat \X Nat)
        BY <1>1, <2>1
      <3>2. box \in Boxes /\ PastBox(Head(x.left)) \in Nat
        <4>1. PastBox(Head(x.left)) \in Nat
          BY <3>1, PastBoxType
        <4>2. x.st + 1 \in Nat /\ 0 \in Nat
          BY <1>1
        <4> QED BY <3>1, <4>1, <4>2 DEF Boxes
      <3>3. MRoPEStep(x, tok, start, image) = text(box, PastBox(Head(x.left)), Tail(x.left))
        BY <1>5, <2>1 DEF MRoPEStep
      <3> HIDE DEF text, box
      <3> QED BY <1>3, <3>1, <3>2, <3>3
    <2>2. CASE ~ (tok = start /\ x.left # <<>>)
      <3>1. NoBox \in Boxes /\ 0 \in Nat
        BY DEF NoBox, Boxes
      <3>2. MRoPEStep(x, tok, start, image) = text(NoBox, 0, x.left)
        BY <1>5, <2>2 DEF MRoPEStep
      <3> HIDE DEF text
      <3> QED BY <1>1, <1>3, <3>1, <3>2
    <2> QED BY <2>1, <2>2
  <1> QED BY <1>4, <1>5

\* The states that computeMRoPEPositions runs through.
MRoPEStates(s, ids, grids, start, image) ==
    /\ s[0] = [pos |-> <<>>, st |-> 0, left |-> grids, box |-> NoBox]
    /\ \A i \in 1 .. Len(ids) : s[i] = MRoPEStep(s[i - 1], ids[i], start, image)

LEMMA StatesOfPrompt ==
    ASSUME NEW ids, Len(ids) \in Nat, NEW grids \in Seq(Nat \X Nat \X Nat), NEW start, NEW image
    PROVE  \E s : /\ MRoPEStates(s, ids, grids, start, image)
                  /\ ComputePositions(ids, grids, start, image) = s[Len(ids)].pos
  <1> DEFINE n == Len(ids)
             base == [pos |-> <<>>, st |-> 0, left |-> grids, box |-> NoBox]
             next(i, x) == MRoPEStep(x, ids[i], start, image)
             Is(f) == f = [i \in 0 .. n |-> IF i = 0 THEN base ELSE next(i, f[i - 1])]
             s == CHOOSE f : Is(f)
             steps == [i \in Nat |-> [x \in Scans |-> next(i, x)]]
  <1>1. ComputePositions(ids, grids, start, image) = s[n].pos
    BY DEF ComputePositions
  <1>2. base \in Scans
    <2>1. NoBox \in Boxes
      BY DEF NoBox, Boxes
    <2>2. <<>> \in Seq(Positions) /\ 0 \in Nat
      OBVIOUS
    <2> HIDE DEF Positions, Boxes, NoBox
    <2> QED BY <2>1, <2>2 DEF Scans
  <1>3. \A i : \A x \in Scans : next(i, x) \in Scans
    BY StepScans
  <1> HIDE DEF next, base
  <1>4. steps \in Steps(Scans)
    BY <1>3 DEF Steps
  <1>5. PICK g : Iterates(g, Scans, base, steps, n)
    <2> HIDE DEF steps, n
    <2>1. n \in Nat
      BY DEF n
    <2> QED BY <1>2, <1>4, <2>1, Recursion
  <1>6. g \in [0 .. n -> Scans] /\ g[0] = base /\ \A i \in 1 .. n : g[i] = steps[i][g[i - 1]]
    BY <1>5 DEF Iterates
  <1>7. \A i \in 1 .. n : g[i] = next(i, g[i - 1])
    <2> SUFFICES ASSUME NEW i \in 1 .. n PROVE g[i] = next(i, g[i - 1])
      OBVIOUS
    <2>1. i - 1 \in 0 .. n /\ i \in Nat
      OBVIOUS
    <2>2. g[i - 1] \in Scans
      BY <1>6, <2>1
    <2> QED BY <1>6, <2>1, <2>2
  <1>8. Is(g)
    <2> HIDE DEF steps, n
    <2> QED BY <1>6, <1>7
  <1>9. Is(s)
    <2> HIDE DEF Is
    <2> QED BY <1>8
  <1> HIDE DEF s, steps, n
  <1>10. s[0] = base /\ \A i \in 1 .. n : s[i] = next(i, s[i - 1])
    <2>1. n \in Nat
      BY DEF n
    <2> QED BY <1>9, <2>1
  <1>11. MRoPEStates(s, ids, grids, start, image)
    BY <1>10 DEF MRoPEStates, base, next, n
  <1> QED BY <1>1, <1>11 DEF n

\* Every token gets a position.
LEMMA PositionsOfPrompt ==
    ASSUME NEW ids, Len(ids) \in Nat, NEW grids \in Seq(Nat \X Nat \X Nat), NEW start, NEW image
    PROVE  /\ ComputePositions(ids, grids, start, image) \in Seq(Positions)
           /\ Len(ComputePositions(ids, grids, start, image)) = Len(ids)
  <1> DEFINE n == Len(ids)
  <1>1. PICK s : /\ MRoPEStates(s, ids, grids, start, image)
                 /\ ComputePositions(ids, grids, start, image) = s[n].pos
    BY StatesOfPrompt
  <1> DEFINE Good == {i \in Nat : i <= n => s[i] \in Scans /\ Len(s[i].pos) = i}
  <1>2. 0 \in Good
    <2>1. s[0] = [pos |-> <<>>, st |-> 0, left |-> grids, box |-> NoBox]
      BY <1>1 DEF MRoPEStates
    <2>2. NoBox \in Boxes
      BY DEF NoBox, Boxes
    <2>3. <<>> \in Seq(Positions) /\ 0 \in Nat
      OBVIOUS
    <2> HIDE DEF Positions, Boxes, NoBox
    <2>4. s[0] \in Scans /\ Len(s[0].pos) = 0
      BY <2>1, <2>2, <2>3 DEF Scans
    <2> QED BY <2>4
  <1>3. ASSUME NEW i \in Nat, i \in Good PROVE i + 1 \in Good
    <2> SUFFICES ASSUME i + 1 <= n PROVE s[i + 1] \in Scans /\ Len(s[i + 1].pos) = i + 1
      OBVIOUS
    <2> DEFINE z == s[i]
    <2>1. n \in Nat
      BY DEF n
    <2>2. i + 1 \in 1 .. n /\ (i + 1) - 1 = i /\ i <= n
      BY <2>1
    <2>3. z \in Scans /\ Len(z.pos) = i
      BY <1>3, <2>2
    <2>4. s[i + 1] = MRoPEStep(z, ids[i + 1], start, image)
      BY <1>1, <2>2 DEF MRoPEStates
    <2> HIDE DEF z
    <2>5. /\ MRoPEStep(z, ids[i + 1], start, image) \in Scans
          /\ Len(MRoPEStep(z, ids[i + 1], start, image).pos) = Len(z.pos) + 1
      BY <2>3, StepScans
    <2> QED BY <2>3, <2>4, <2>5
  <1> HIDE DEF Good
  <1>4. n \in Nat /\ n \in Good
    BY <1>2, <1>3, Induction
  <1>5. s[n] \in Scans /\ Len(s[n].pos) = n
    BY <1>4 DEF Good
  <1>6. s[n].pos \in Seq(Positions)
    BY <1>5 DEF Scans
  <1> QED BY <1>1, <1>5, <1>6 DEF n

LEMMA DeltaType ==
    ASSUME NEW pos \in Seq(Positions)
    PROVE  PositionDelta(pos) \in Int
  <1> DEFINE n == Len(pos)
             T(i) == pos[i][1]
             M == {T(i) : i \in DOMAIN pos}
             Good == {m \in Nat : m + 1 <= n => \E k \in 1 .. m + 1 : \A i \in 1 .. m + 1 : T(k) >= T(i)}
  <1>1. n \in Nat /\ DOMAIN pos = 1 .. n /\ (pos = <<>> <=> n = 0)
    BY EmptySeq
  <1>2. ASSUME NEW i \in 1 .. n PROVE T(i) \in Nat
    <2>1. pos[i] \in Positions
      BY <1>1
    <2> QED BY SMTT(40), <2>1 DEF Positions
  <1> HIDE DEF T, n
  <1>3. 0 \in Good
    <2> SUFFICES ASSUME 1 <= n PROVE \E k \in 1 .. 1 : \A i \in 1 .. 1 : T(k) >= T(i)
      OBVIOUS
    <2>1. T(1) \in Nat
      BY <1>1, <1>2
    <2>2. T(1) >= T(1)
      BY <2>1
    <2> QED BY <2>2
  <1>4. ASSUME NEW m \in Nat, m \in Good PROVE m + 1 \in Good
    <2> SUFFICES ASSUME (m + 1) + 1 <= n
                 PROVE  \E k \in 1 .. (m + 1) + 1 : \A i \in 1 .. (m + 1) + 1 : T(k) >= T(i)
      OBVIOUS
    <2>1. PICK k \in 1 .. m + 1 : \A i \in 1 .. m + 1 : T(k) >= T(i)
      BY <1>1, <1>4
    <2> DEFINE l == (m + 1) + 1
    <2>2. \A i \in 1 .. l : T(i) \in Nat
      BY <1>1, <1>2
    <2>3. k \in 1 .. l /\ l \in 1 .. l /\ \A i \in 1 .. l : i \in 1 .. m + 1 \/ i = l
      OBVIOUS
    <2> HIDE DEF l
    <2>4. CASE T(l) >= T(k)
      <3>1. \A i \in 1 .. l : T(l) >= T(i)
        BY <2>1, <2>2, <2>3, <2>4
      <3> QED BY <2>3, <3>1 DEF l
    <2>5. CASE ~ (T(l) >= T(k))
      <3>1. \A i \in 1 .. l : T(k) >= T(i)
        BY <2>1, <2>2, <2>3, <2>5
      <3> QED BY <2>3, <3>1 DEF l
    <2> QED BY <2>4, <2>5
  <1> HIDE DEF Good
  <1>5. ASSUME n # 0 PROVE Max(M) \in Nat
    <2>1. n - 1 \in Nat /\ (n - 1) + 1 = n
      BY <1>1, <1>5
    <2>2. n - 1 \in Good
      BY <1>3, <1>4, <2>1, Induction
    <2>3. PICK k \in 1 .. n : \A i \in 1 .. n : T(k) >= T(i)
      BY <2>1, <2>2 DEF Good
    <2>4. T(k) \in M /\ \A y \in M : T(k) >= y
      BY <1>1, <2>3
    <2>5. \A y \in M : y \in Nat
      BY <1>1, <1>2
    <2> HIDE DEF M
    <2>6. Max(M) = CHOOSE x \in M : \A y \in M : x >= y
      BY DEF Max
    <2>7. Max(M) \in M
      BY <2>4, <2>6
    <2> QED BY <2>5, <2>7
  <1>6. PositionDelta(pos) = (IF pos = <<>> THEN 0 ELSE Max(M)) + 1 - n
    BY DEF PositionDelta, T, n
  <1> HIDE DEF M
  <1> QED BY <1>1, <1>5, <1>6

\* What VLMModel::generate stages for a prompt.
PromptPositions(shape) ==
    ComputePositions(Ids(Expand(shape)), [i \in DOMAIN ImagesOf(shape) |-> <<1, grid[1], grid[2]>>],
                     VisionStart, ImagePad)

LEMMA PromptPositionsType ==
    ASSUME BundleFixed, NEW shape \in Shapes
    PROVE  /\ PromptPositions(shape) \in Seq(Positions) /\ Len(PromptPositions(shape)) = Len(Expand(shape))
           /\ PositionDelta(PromptPositions(shape)) \in Int
  <1> DEFINE items == Expand(shape)
             images == ImagesOf(shape)
             ids == Ids(items)
             grids == [i \in DOMAIN images |-> <<1, grid[1], grid[2]>>]
  <1>1. items \in Seq(Items) /\ images \in Seq(Images)
    BY PromptAligned DEF Aligned
  <1>2. Len(ids) = Len(items) /\ Len(items) \in Nat
    <2> HIDE DEF items, Items
    <2>1. DOMAIN items = 1 .. Len(items) /\ Len(items) \in Nat
      BY <1>1
    <2> QED BY <2>1 DEF Ids
  <1>3. <<1, grid[1], grid[2]>> \in Nat \X Nat \X Nat
    BY VLMAssumption DEF BundleFixed, VLMAssumption
  <1>4. grids \in Seq(Nat \X Nat \X Nat)
    <2> DEFINE f == <<1, grid[1], grid[2]>>
    <2> HIDE DEF images, f
    <2>1. DOMAIN images = 1 .. Len(images) /\ Len(images) \in Nat
      BY <1>1
    <2>2. [i \in 1 .. Len(images) |-> f] \in Seq(Nat \X Nat \X Nat)
      BY <1>3, <2>1 DEF f
    <2> QED BY <2>1, <2>2 DEF f
  <1> HIDE DEF ids, grids
  <1>5. /\ ComputePositions(ids, grids, VisionStart, ImagePad) \in Seq(Positions)
        /\ Len(ComputePositions(ids, grids, VisionStart, ImagePad)) = Len(ids)
    BY <1>2, <1>4, PositionsOfPrompt
  <1>6. PromptPositions(shape) = ComputePositions(ids, grids, VisionStart, ImagePad)
    BY DEF PromptPositions, ids, grids
  <1> QED BY <1>2, <1>5, <1>6, DeltaType
-----------------------------------------------------------------------------
(* The invariant of generate().                                            *)

\* What was fed is what the tokens mean.
FedRight(f, items, inputs) ==
    \A i \in 1 .. Len(items) :
        /\ inputs[i].emb = items[i].means
        /\ inputs[i].deep = IF f = "qwen3" /\ items[i].tok = ImagePad THEN items[i].means ELSE None

\* A context, the present one or a saved one.
ContextRight(f, items, inputs, harm) ==
    /\ items \in Seq(Items) /\ IsSequence(inputs)
    /\ Len(inputs) = Len(items) /\ Len(items) <= MaxCL
    /\ harm \subseteq Harms
    /\ "evicted" \notin harm => FedRight(f, items, inputs)

Contexts ==
    /\ ContextRight(family, token_history, fed, damage)
    /\ file # None => ContextRight(family, file.history, file.fed, file.damage)

Anchors ==
    /\ emb.at \in 0 .. MaxCL /\ mrope.at \in 0 .. MaxCL /\ deepstack.at \in 0 .. MaxCL
    /\ mrope.deltas \in Int
    /\ family = "qwen2_5" => deepstack = Untold

Stages ==
    /\ pc \in {"idle", "fit", "chunk", "decode"}
    /\ goal \in {"prompt", "evict_prompt", "evict_decode"}
    /\ pc \in {"fit", "chunk", "decode"} =>
         /\ req.items \in Seq(Items) /\ req.items # <<>> /\ req.sliding \in BOOLEAN
         /\ emb.rows # <<>> /\ mrope.rows # <<>>
    /\ pc = "chunk" => todo \in Seq(Items) /\ n_past + Len(todo) <= MaxCL
    /\ pc = "decode" \/ (pc = "chunk" /\ goal = "evict_decode") => next_token \in Text \cup Eos

\* The rows that the providers have staged belong to the prompt, from its anchor on, and
\* the prompt is being fed from where the anchor and n_past leave it.
DeepstackStaged ==
    /\ deepstack.at = emb.at
    /\ deepstack.mask = [i \in DOMAIN req.items |-> req.items[i].tok = ImagePad]
    /\ \A i \in Pads(req.items) :
         /\ Count(Pads(req.items), i) \in DOMAIN deepstack.rows
         /\ deepstack.rows[Count(Pads(req.items), i)] = req.items[i].means

Staged ==
    /\ emb.rows = [i \in DOMAIN req.items |-> req.items[i].means]
    /\ \A i \in DOMAIN req.items : req.items[i].tok # ImagePad => req.items[i].means = req.items[i].tok
    /\ family = "qwen3" => DeepstackStaged

InStep ==
    /\ pc = "fit" => emb.at = n_past
    /\ pc = "chunk" =>
         /\ goal = "prompt" /\ n_past - emb.at \in 0 .. Len(req.items)
         /\ todo = SubSeq(req.items, n_past - emb.at + 1, Len(req.items))

StagedForPrompt == pc \in {"fit", "chunk"} /\ "evicted" \notin damage => Staged /\ InStep

Feeding == Contexts /\ Anchors /\ Stages /\ StagedForPrompt
VLMInv == BundleFixed /\ Feeding

\* A context grows by what was fed right.
LEMMA ContextGrows ==
    ASSUME NEW f, NEW a, NEW b, NEW x, NEW y, NEW harm,
           ContextRight(f, a, x, harm), b \in Seq(Items), IsSequence(y), Len(y) = Len(b),
           Len(a) + Len(b) <= MaxCL, "evicted" \notin harm => FedRight(f, b, y)
    PROVE  ContextRight(f, a \o b, x \o y, harm) /\ Len(a \o b) = Len(a) + Len(b)
  <1> DEFINE c == a \o b
             z == x \o y
             m == Len(a)
             n == Len(b)
  <1>1. a \in Seq(Items) /\ IsSequence(x) /\ Len(x) = m /\ harm \subseteq Harms
    BY DEF ContextRight
  <1>2. /\ c \in Seq(Items) /\ Len(c) = m + n /\ m \in Nat /\ n \in Nat
        /\ (\A i \in 1 .. m : c[i] = a[i]) /\ (\A i \in 1 .. n : c[m + i] = b[i])
    <2> HIDE DEF Items
    <2> QED BY <1>1
  <1>3. /\ IsSequence(z) /\ Len(z) = m + n
        /\ (\A i \in 1 .. m : z[i] = x[i]) /\ (\A i \in 1 .. n : z[m + i] = y[i])
    BY <1>1, SequenceConcat
  <1> HIDE DEF c, z, m, n
  <1>4. ASSUME "evicted" \notin harm PROVE FedRight(f, c, z)
    <2>1. FedRight(f, a, x) /\ FedRight(f, b, y)
      BY <1>4 DEF ContextRight
    <2>2. ASSUME NEW i \in 1 .. m + n
          PROVE  /\ z[i].emb = c[i].means
                 /\ z[i].deep = IF f = "qwen3" /\ c[i].tok = ImagePad THEN c[i].means ELSE None
      <3>1. CASE i \in 1 .. m
        BY SMTT(40), <1>2, <1>3, <2>1, <3>1 DEF FedRight, m
      <3>2. CASE i \notin 1 .. m
        <4>1. PICK k \in 1 .. n : i = m + k
          <5>1. i - m \in 1 .. n /\ i = m + (i - m)
            BY <1>2, <3>2
          <5> QED BY <5>1
        <4>2. z[i] = y[k] /\ c[i] = b[k]
          BY <1>2, <1>3, <4>1
        <4>3. /\ y[k].emb = b[k].means
              /\ y[k].deep = IF f = "qwen3" /\ b[k].tok = ImagePad THEN b[k].means ELSE None
          BY <2>1, <4>1 DEF FedRight, n
        <4> QED BY <4>2, <4>3
      <3> QED BY <3>1, <3>2
    <2> QED BY <1>2, <2>2 DEF FedRight
  <1>5. ContextRight(f, c, z, harm)
    <2>1. m + n <= MaxCL
      BY DEF m, n
    <2> QED BY <1>1, <1>2, <1>3, <1>4, <2>1 DEF ContextRight
  <1> QED BY <1>2, <1>5 DEF c, z, m, n

\* A cut context, which an eviction leaves.
LEMMA ContextCut ==
    ASSUME NEW f, NEW a, NEW x, NEW harm, ContextRight(f, a, x, harm), NEW k \in 0 .. Len(a)
    PROVE  /\ ContextRight(f, SubSeq(a, 1, k), SubSeq(x, 1, k), harm \cup {"evicted"})
           /\ Len(SubSeq(a, 1, k)) = k
  <1>1. a \in Seq(Items) /\ IsSequence(x) /\ Len(x) = Len(a) /\ harm \subseteq Harms /\ Len(a) <= MaxCL
    BY DEF ContextRight
  <1>2. k \in Nat /\ 1 \in Nat \ {0} /\ k <= Len(a) /\ Len(a) \in Nat /\ MaxCL \in Nat
    <2> HIDE DEF Items
    <2> QED BY <1>1, VLMAssumption DEF VLMAssumption
  <1>3. SubSeq(a, 1, k) \in Seq(Items) /\ Len(SubSeq(a, 1, k)) = k
    <2> HIDE DEF Items
    <2>1. /\ SubSeq(a, 1, k) \in Seq(Items)
          /\ Len(SubSeq(a, 1, k)) = IF 1 <= k THEN k - 1 + 1 ELSE 0
      BY <1>1, <1>2, Slice
    <2> QED BY <1>2, <2>1
  <1>4. IsSequence(SubSeq(x, 1, k)) /\ Len(SubSeq(x, 1, k)) = k
    BY <1>1, SequenceCut
  <1>5. k <= MaxCL
    BY <1>1, <1>2
  <1>6. harm \cup {"evicted"} \subseteq Harms /\ "evicted" \in harm \cup {"evicted"}
    BY <1>1 DEF Harms
  <1> QED BY <1>3, <1>4, <1>5, <1>6 DEF ContextRight

\* Positions can be left shifted without making right inputs wrong.
LEMMA ContextShifted ==
    ASSUME NEW f, NEW a, NEW x, NEW harm, ContextRight(f, a, x, harm),
           NEW h \in Harms \ {"evicted"}
    PROVE  ContextRight(f, a, x, harm \cup {h})
  <1>1. "evicted" \notin harm \cup {h} => "evicted" \notin harm
    OBVIOUS
  <1>2. harm \cup {h} \subseteq Harms
    BY DEF ContextRight
  <1> QED BY <1>1, <1>2 DEF ContextRight

LEMMA InitFeeds == Init => Feeding
  <1> SUFFICES ASSUME Init PROVE Feeding
    OBVIOUS
  <1>1. <<>> \in Seq(Items) /\ Len(<<>>) = 0 /\ 0 <= MaxCL /\ 0 \in 0 .. MaxCL
    BY VLMAssumption DEF VLMAssumption
  <1>2. IsSequence(<<>>)
    <2>1. <<>> \in Seq({})
      OBVIOUS
    <2> QED BY <2>1, SequenceOf
  <1>3. FedRight(family, <<>>, <<>>)
    BY DEF FedRight
  <1>4. Contexts
    <2>1. token_history = <<>> /\ fed = <<>> /\ damage = {} /\ file = None
      BY DEF Init
    <2>2. {} \subseteq Harms
      OBVIOUS
    <2> HIDE DEF Items, IsSequence, FedRight
    <2>3. ContextRight(family, <<>>, <<>>, {})
      BY <1>1, <1>2, <1>3, <2>2 DEF ContextRight
    <2> QED BY <2>1, <2>3 DEF Contexts
  <1>5. Anchors
    BY <1>1 DEF Init, Anchors, Unstaged, Untold
  <1>6. Stages /\ StagedForPrompt
    BY DEF Init, Stages, StagedForPrompt
  <1> QED BY <1>4, <1>5, <1>6 DEF Feeding

\* An exception leaves everything as it is but the turn.
LEMMA UnwindFeeds ==
    ASSUME Feeding, NEW p \in BOOLEAN, Unwind(p)
    PROVE  Feeding'
  <1>1. UNCHANGED <<family, token_history, fed, file, emb, mrope, deepstack>>
    BY DEF Unwind, bundle, context, providers
  <1>2. ContextRight(family, token_history, fed, damage')
    <2>1. ContextRight(family, token_history, fed, damage)
      BY DEF Feeding, Contexts
    <2>2. damage' = damage \/ damage' = damage \cup {"abandoned"}
      BY DEF Unwind
    <2> QED BY <2>1, <2>2, ContextShifted DEF Harms
  <1>3. Contexts'
    BY <1>1, <1>2 DEF Feeding, Contexts
  <1>4. Anchors'
    BY <1>1 DEF Feeding, Anchors, Untold
  <1>5. pc' = "idle" /\ goal' = "prompt"
    BY DEF Unwind, Leave
  <1>6. Stages' /\ StagedForPrompt'
    BY <1>5 DEF Stages, StagedForPrompt
  <1> QED BY <1>3, <1>4, <1>6 DEF Feeding

\* What is known of the context while a turn runs.
LEMMA TurnFacts ==
    ASSUME Feeding
    PROVE  /\ token_history \in Seq(Items) /\ n_past \in Nat /\ n_past <= MaxCL
           /\ MaxCL \in Nat /\ EffectiveKeep \in 0 .. MaxCL
           /\ pc \in {"fit", "chunk", "decode"} => Len(req.items) \in Nat \ {0}
  <1>1. token_history \in Seq(Items) /\ n_past <= MaxCL
    BY DEF Feeding, Contexts, ContextRight, n_past
  <1>2. n_past \in Nat
    BY <1>1 DEF n_past
  <1>3. MaxCL \in Nat /\ EffectiveKeep \in 0 .. MaxCL
    BY VLMAssumption DEF VLMAssumption, EffectiveKeep
  <1>4. ASSUME pc \in {"fit", "chunk", "decode"} PROVE Len(req.items) \in Nat \ {0}
    <2>1. req.items \in Seq(Items) /\ req.items # <<>>
      BY <1>4 DEF Feeding, Stages
    <2> DEFINE r == req.items
    <2> HIDE DEF r, Items
    <2> QED BY <2>1, EmptySeq DEF r
  <1> QED BY <1>1, <1>2, <1>3, <1>4

\* An eviction gives up on feeding what the tokens mean.
LEMMA EvictFeeds ==
    ASSUME Feeding, NEW n_fit \in Nat, NEW g \in {"evict_prompt", "evict_decode"}, CanSlide(n_fit), Evict(n_fit, g),
           pc \in {"fit", "decode"}, g = "evict_decode" => pc = "decode"
    PROVE  Feeding'
  <1> DEFINE keep == EffectiveKeep
             d == Discard(n_fit)
  <1>1. /\ token_history \in Seq(Items) /\ n_past \in Nat /\ n_past <= MaxCL
        /\ MaxCL \in Nat /\ keep \in 0 .. MaxCL
    BY TurnFacts
  <1>2. keep < n_past /\ d \in 1 .. n_past - keep
    <2>1. ComputeSlideDiscard(n_past, n_fit, MaxCL, keep) > 0
      BY DEF CanSlide, Discard
    <2> HIDE DEF keep, d
    <2> QED BY <1>1, <2>1, DiscardBounds DEF d, Discard, keep
  <1>3. /\ token_history' = SubSeq(token_history, 1, keep) /\ fed' = SubSeq(fed, 1, keep)
        /\ todo' = SubSeq(token_history, keep + d + 1, n_past)
        /\ goal' = g /\ pc' = "chunk" /\ damage' = damage \cup {"evicted"}
        /\ UNCHANGED <<family, emb, mrope, deepstack, req, next_token, file>>
    BY DEF Evict, bundle, providers
  <1> HIDE DEF keep, d
  <1>4. ContextRight(family, token_history', fed', damage') /\ Len(token_history') = keep
    <2>1. ContextRight(family, token_history, fed, damage)
      BY DEF Feeding, Contexts
    <2>2. keep \in 0 .. Len(token_history)
      BY <1>1, <1>2 DEF n_past
    <2> QED BY <1>3, <2>1, <2>2, ContextCut
  <1>5. Contexts'
    BY <1>3, <1>4 DEF Feeding, Contexts
  <1>6. Anchors'
    BY <1>3 DEF Feeding, Anchors, Untold
  <1>7. todo' \in Seq(Items) /\ n_past' + Len(todo') <= MaxCL
    <2> DEFINE k == keep + d
    <2>1. k \in 0 .. Len(token_history) /\ n_past = Len(token_history)
      BY <1>1, <1>2 DEF n_past
    <2>2. todo' = SubSeq(token_history, k + 1, Len(token_history))
      BY <1>3 DEF n_past
    <2> HIDE DEF k, Items
    <2>3. todo' \in Seq(Items) /\ Len(todo') = Len(token_history) - k
      BY <1>1, <2>1, <2>2, Behind
    <2>4. n_past' = keep
      BY <1>4 DEF n_past
    <2> QED BY <1>1, <1>2, <2>1, <2>3, <2>4 DEF k
  <1>8. Stages'
    <2>1. pc \in {"fit", "chunk", "decode"} /\ Stages
      BY DEF Feeding
    <2>2. g = "evict_decode" => next_token \in Text \cup Eos
      BY <2>1 DEF Stages
    <2> QED BY <1>3, <1>7, <2>1, <2>2 DEF Stages
  <1>9. StagedForPrompt'
    BY <1>3 DEF StagedForPrompt
  <1> QED BY <1>5, <1>6, <1>8, <1>9 DEF Feeding

\* The features a pad token needs are among the staged ones.
LEMMA PadsHaveRows ==
    ASSUME NEW items, NEW features, Aligned(items, features), NEW i \in Pads(items)
    PROVE  /\ Count(Pads(items), i) \in DOMAIN features /\ features # <<>>
           /\ features[Count(Pads(items), i)] = items[i].means
  <1> DEFINE K == Pads(items)
             n == Len(items)
  <1>1. items \in Seq(Items) /\ features \in Seq(Features) /\ Len(features) = Count(K, n)
    BY DEF Aligned
  <1>2. n \in Nat /\ DOMAIN items = 1 .. n
    <2> HIDE DEF Items
    <2> QED BY <1>1
  <1>3. i \in 1 .. n /\ items[i].tok = ImagePad
    BY <1>2 DEF Pads
  <1>4. items[i].means = features[Count(K, i)]
    BY <1>3 DEF Aligned
  <1> HIDE DEF K, n, Features
  <1>5. i \in K /\ i \in Nat \ {0} /\ i <= n
    BY <1>2, <1>3 DEF K
  <1>6. Count(K, i) \in Nat \ {0}
    BY <1>5, CountMember
  <1>7. Count(K, i) <= Count(K, n)
    BY <1>2, <1>5, CountMonotone
  <1>8. Count(K, i) \in DOMAIN features /\ features # <<>>
    <2>1. Len(features) \in Nat /\ DOMAIN features = 1 .. Len(features)
      BY <1>1
    <2>2. Len(features) # 0
      BY <1>1, <1>6, <1>7, <2>1
    <2> QED BY <1>1, <1>6, <1>7, <2>1, <2>2
  <1> QED BY <1>4, <1>8 DEF K

\* Encoding, scattering and staging give every token its meaning.
LEMMA GenerateFeeds ==
    ASSUME BundleFixed, Feeding, NEW r \in Request, Generate(r)
    PROVE  Feeding'
  <1> DEFINE items == Expand(r.shape)
             ids == Ids(items)
             images == ImagesOf(r.shape)
             features == EncodeVision(images)
             pos == PromptPositions(r.shape)
             n == Len(items)
  <1>1. r.shape \in Shapes /\ r.sliding \in BOOLEAN
    BY VLMAssumption DEF VLMAssumption, Request
  <1>2. Aligned(items, features) /\ n \in Nat \ {0}
    BY <1>1, PromptAligned
  <1>3. items \in Seq(Items) /\ DOMAIN items = 1 .. n /\ items # <<>>
    <2>1. items \in Seq(Items)
      BY <1>2 DEF Aligned
    <2> HIDE DEF items, Items
    <2> QED BY <1>2, <2>1
  <1>4. MaskedScatter(ids, features) = [i \in DOMAIN items |-> items[i].means]
    BY <1>2, ScatterGivesMeanings
  <1>5. pos \in Seq(Positions) /\ Len(pos) = n /\ PositionDelta(pos) \in Int
    BY <1>1, PromptPositionsType
  <1>6. /\ emb' = [rows |-> MaskedScatter(ids, features), at |-> n_past]
        /\ mrope' = [rows |-> [i \in DOMAIN pos |-> [d \in 1 .. 3 |-> pos[i][d] + PromptOrigin]],
                     at |-> n_past, deltas |-> mrope.deltas + PositionDelta(pos)]
        /\ deepstack' =
             IF family = "qwen2_5" THEN deepstack
             ELSE [mask |-> [i \in DOMAIN ids |-> ids[i] = ImagePad], at |-> n_past,
                   rows |-> IF images = <<>> THEN deepstack.rows ELSE features]
    BY DEF Generate, PromptPositions
  <1>7. /\ req' = [items |-> items, delta |-> PositionDelta(pos),
                   max_tokens |-> r.max_tokens, sliding |-> r.sliding]
        /\ pc = "idle" /\ pc' = "fit"
        /\ UNCHANGED <<family, token_history, fed, goal, file, damage>>
    BY DEF Generate, PromptPositions, bundle, context
  <1>8. DOMAIN ids = DOMAIN items /\ \A i \in DOMAIN items : ids[i] = items[i].tok
    BY DEF Ids
  <1>9. images = <<>> => features = <<>>
    BY FlattenEmpty DEF EncodeVision
  <1> HIDE DEF items, ids, images, features, pos, n
  <1>10. Contexts'
    BY <1>7 DEF Feeding, Contexts
  <1>11. n_past \in 0 .. MaxCL /\ n_past' = n_past
    <2>1. n_past \in Nat /\ n_past <= MaxCL /\ MaxCL \in Nat
      BY TurnFacts
    <2> QED BY <1>7, <2>1 DEF n_past
  <1>12. Anchors'
    <2>1. Anchors
      BY DEF Feeding
    <2>2. emb'.at = n_past /\ mrope'.at = n_past /\ mrope'.deltas = mrope.deltas + PositionDelta(pos)
      BY <1>6
    <2>3. deepstack' = deepstack \/ (family # "qwen2_5" /\ deepstack'.at = n_past)
      BY <1>6
    <2>4. mrope'.deltas \in Int
      BY <1>5, <2>1, <2>2 DEF Anchors
    <2> QED BY <1>7, <1>11, <2>1, <2>2, <2>3, <2>4 DEF Anchors, Untold
  <1>13. Stages'
    <2>1. emb'.rows # <<>>
      <3>1. 1 \in DOMAIN emb'.rows
        BY <1>2, <1>3, <1>4, <1>6
      <3> QED BY <3>1
    <2>2. mrope'.rows # <<>>
      <3>1. mrope'.rows = [i \in DOMAIN pos |-> [d \in 1 .. 3 |-> pos[i][d] + PromptOrigin]]
        BY <1>6
      <3>2. 1 \in DOMAIN pos
        <4> HIDE DEF Positions
        <4> QED BY <1>2, <1>5
      <3>3. 1 \in DOMAIN mrope'.rows
        BY <3>1, <3>2
      <3> QED BY <3>3
    <2>3. req'.items = items /\ req'.sliding \in BOOLEAN
      BY <1>1, <1>7
    <2>4. Stages
      BY DEF Feeding
    <2> HIDE DEF Items
    <2> QED BY <1>3, <1>7, <2>1, <2>2, <2>3, <2>4 DEF Stages
  <1>14. StagedForPrompt'
    <2>1. req'.items = items /\ emb'.at = n_past /\ emb'.rows = [i \in DOMAIN items |-> items[i].means]
      BY <1>4, <1>6, <1>7
    <2>2. ASSUME NEW i \in DOMAIN items, items[i].tok # ImagePad PROVE items[i].means = items[i].tok
      BY <1>2, <1>3, <2>2 DEF Aligned, n
    <2>3. ASSUME family = "qwen3" PROVE DeepstackStaged'
      <3>1. /\ deepstack'.at = n_past
            /\ deepstack'.mask = [i \in DOMAIN ids |-> ids[i] = ImagePad]
            /\ deepstack'.rows = IF images = <<>> THEN deepstack.rows ELSE features
        BY <1>6, <2>3
      <3>2. [i \in DOMAIN ids |-> ids[i] = ImagePad] = [i \in DOMAIN items |-> items[i].tok = ImagePad]
        BY <1>8
      <3>3. ASSUME NEW i \in Pads(items)
            PROVE  /\ Count(Pads(items), i) \in DOMAIN deepstack'.rows
                   /\ deepstack'.rows[Count(Pads(items), i)] = items[i].means
        <4>1. /\ Count(Pads(items), i) \in DOMAIN features /\ features # <<>>
              /\ features[Count(Pads(items), i)] = items[i].means
          BY <1>2, PadsHaveRows
        <4>2. deepstack'.rows = features
          BY <1>9, <3>1, <4>1
        <4> QED BY <4>1, <4>2
      <3> QED BY <2>1, <3>1, <3>2, <3>3 DEF DeepstackStaged
    <2>4. Staged'
      BY <1>7, <2>1, <2>2, <2>3 DEF Staged
    <2>5. InStep'
      BY <1>7, <1>11, <2>1 DEF InStep
    <2> QED BY <2>4, <2>5 DEF StagedForPrompt
  <1> QED BY <1>10, <1>12, <1>13, <1>14 DEF Feeding

LEMMA RestOfRest ==
    ASSUME NEW S, NEW s \in Seq(S), NEW a \in 0 .. Len(s), NEW n \in 0 .. Len(s) - a,
           NEW t, t = SubSeq(s, a + 1, Len(s))
    PROVE  SubSeq(t, n + 1, Len(t)) = SubSeq(s, (a + n) + 1, Len(s))
  <1> DEFINE u == SubSeq(t, n + 1, Len(t))
             v == SubSeq(s, (a + n) + 1, Len(s))
             m == Len(s) - (a + n)
  <1>1. Len(s) \in Nat /\ m \in Nat
    OBVIOUS
  <1>2. t \in Seq(S) /\ Len(t) = Len(s) - a /\ \A i \in 1 .. Len(s) - a : t[i] = s[a + i]
    BY Behind
  <1>3. u \in Seq(S) /\ Len(u) = Len(t) - n /\ \A i \in 1 .. Len(t) - n : u[i] = t[n + i]
    <2>1. n \in 0 .. Len(t)
      BY <1>2
    <2> QED BY ZenonT(40), <1>2, <2>1, Behind
  <1>4. v \in Seq(S) /\ Len(v) = m /\ \A i \in 1 .. m : v[i] = s[(a + n) + i]
    <2>1. a + n \in 0 .. Len(s)
      BY <1>1
    <2> QED BY <2>1, Behind
  <1> HIDE DEF u, v, m
  <1>5. Len(u) = m
    BY <1>1, <1>2, <1>3 DEF m
  <1>6. ASSUME NEW i \in 1 .. m PROVE u[i] = v[i]
    <2>1. i \in 1 .. Len(t) - n /\ n + i \in 1 .. Len(s) - a /\ a + (n + i) = (a + n) + i
      BY <1>1, <1>2 DEF m
    <2> QED BY ZenonT(40), <1>2, <1>3, <1>4, <2>1
  <1>7. u = [i \in 1 .. m |-> u[i]] /\ v = [i \in 1 .. m |-> v[i]]
    BY <1>3, <1>4, <1>5
  <1>8. u = v
    BY <1>6, <1>7
  <1> QED BY <1>8 DEF u, v

LEMMA MadeSequence ==
    ASSUME NEW n \in Nat, NEW y, y = [j \in 1 .. n |-> y[j]]
    PROVE  IsSequence(y) /\ Len(y) = n
  <1> DEFINE S == {y[j] : j \in 1 .. n}
  <1>1. \A j \in 1 .. n : y[j] \in S
    OBVIOUS
  <1> HIDE DEF S
  <1>2. y \in Seq(S) /\ Len(y) = n
    BY <1>1
  <1> QED BY <1>2, SequenceOf

\* The DeepStack provider hands each pad token of a chunk its own features.
LEMMA DeepstackRight ==
    ASSUME BundleFixed, Feeding, Staged, req.items \in Seq(Items), req.items # <<>>,
           NEW a \in 0 .. Len(req.items), a = n_past - emb.at, NEW j \in Nat \ {0}, a + j <= Len(req.items)
    PROVE  PrefillDeepstack(j) = IF family = "qwen3" /\ req.items[a + j].tok = ImagePad
                                 THEN req.items[a + j].means ELSE None
  <1> DEFINE items == req.items
             P == Pads(items)
             L == {k \in 1 .. j : a + k \in P}
             masked(k) == /\ deepstack.mask # <<>> /\ n_past >= deepstack.at
                          /\ a + k \in DOMAIN deepstack.mask /\ deepstack.mask[a + k]
  <1>1. CASE family # "qwen3"
    <2>1. deepstack = Untold
      BY <1>1 DEF BundleFixed, Families, Feeding, Anchors
    <2>2. deepstack.mask = <<>>
      BY <2>1 DEF Untold
    <2> QED BY <1>1, <2>2 DEF PrefillDeepstack
  <1>2. CASE family = "qwen3"
    <2>1. DOMAIN items = 1 .. Len(items) /\ Len(items) \in Nat \ {0}
      <3> HIDE DEF items, Items
      <3>1. items \in Seq(Items) /\ items # <<>>
        BY DEF items
      <3> QED BY <3>1, EmptySeq
    <2>2. DeepstackStaged
      BY <1>2 DEF Staged
    <2>3. /\ deepstack.at = emb.at /\ deepstack.mask = [i \in DOMAIN items |-> items[i].tok = ImagePad]
          /\ \A i \in P : /\ Count(P, i) \in DOMAIN deepstack.rows
                          /\ deepstack.rows[Count(P, i)] = items[i].means
      BY <2>2 DEF DeepstackStaged
    <2>4. /\ DOMAIN deepstack.mask = 1 .. Len(items)
          /\ \A i \in 1 .. Len(items) : deepstack.mask[i] <=> i \in P
      BY <2>1, <2>3 DEF Pads
    <2>5. deepstack.mask # <<>>
      <3>1. 1 \in DOMAIN deepstack.mask
        BY <2>1, <2>4
      <3> QED BY <3>1
    <2>6. n_past \in Nat /\ emb.at \in Nat
      BY TurnFacts DEF Feeding, Anchors
    <2>7. n_past >= deepstack.at /\ n_past - deepstack.at = a
      BY <2>3, <2>6
    <2> HIDE DEF items, P, L
    <2>8. ASSUME NEW k \in 1 .. j PROVE masked(k) <=> a + k \in P
      <3>1. a + k \in 1 .. Len(items)
        BY <2>1 DEF items
      <3> QED BY <2>4, <2>5, <2>7, <3>1
    <2>9. VisualOffset(a) = Count(P, a)
      <3>1. {i \in DOMAIN deepstack.mask : i <= a /\ deepstack.mask[i]} = {i \in 1 .. a : i \in P}
        BY <2>1, <2>4 DEF items
      <3> QED BY <3>1 DEF VisualOffset, Count
    <2>10. Cardinality({k \in 1 .. j : masked(k)}) = Count(L, j)
      <3>1. {k \in 1 .. j : masked(k)} = {k \in 1 .. j : k \in L}
        BY <2>8 DEF L
      <3> QED BY <3>1 DEF Count
    <2>11. Count(P, a + j) = Count(P, a) + Count(L, j)
      <3>1. \A k \in 1 .. j : a + k \in P <=> k \in L
        BY DEF L
      <3>2. a \in Nat /\ j \in Nat
        OBVIOUS
      <3> QED BY SMTT(40), <3>1, <3>2, CountShift
    <2>12. j \in 1 .. j
      OBVIOUS
    <2> DEFINE row == VisualOffset(a) + Cardinality({k \in 1 .. j : masked(k)})
    <2>13. PrefillDeepstack(j) = IF masked(j) /\ row \in DOMAIN deepstack.rows THEN deepstack.rows[row] ELSE None
      BY <2>5, <2>7 DEF PrefillDeepstack
    <2>14. row = Count(P, a + j)
      BY <2>9, <2>10, <2>11
    <2> HIDE DEF row, masked
    <2>15. masked(j) <=> a + j \in P
      BY <2>8, <2>12
    <2>16. a + j \in P <=> items[a + j].tok = ImagePad
      BY <2>1 DEF P, Pads, items
    <2>17. a + j \in P => row \in DOMAIN deepstack.rows /\ deepstack.rows[row] = items[a + j].means
      BY <2>3, <2>14
    <2> QED BY <1>2, <2>13, <2>15, <2>16, <2>17 DEF items
  <1> QED BY <1>1, <1>2

\* A chunk of the prompt is given the staged rows of its own tokens.
LEMMA ChunkFedRight ==
    ASSUME BundleFixed, Feeding, Staged, InStep, pc = "chunk",
           NEW n \in 1 .. Len(todo), NEW c, c = SubSeq(todo, 1, n),
           NEW y, y = [j \in 1 .. n |-> [emb  |-> PrefillEmbedding(c, j),
                                         pos  |-> PrefillPosition(j),
                                         deep |-> PrefillDeepstack(j)]]
    PROVE  FedRight(family, c, y)
  <1> DEFINE items == req.items
             a == n_past - emb.at
  <1>1. items \in Seq(Items) /\ items # <<>> /\ emb.rows # <<>>
    BY DEF Feeding, Stages
  <1>2. Len(items) \in Nat /\ DOMAIN items = 1 .. Len(items)
    <2> HIDE DEF items, Items
    <2> QED BY <1>1
  <1>3. a \in 0 .. Len(items) /\ todo = SubSeq(items, a + 1, Len(items))
    BY DEF InStep
  <1>4. n_past \in Nat /\ emb.at \in Nat
    BY TurnFacts DEF Feeding, Anchors
  <1>5. emb.rows = [i \in DOMAIN items |-> items[i].means]
    BY DEF Staged
  <1> HIDE DEF items, Items
  <1>6. todo \in Seq(Items) /\ Len(todo) = Len(items) - a /\ \A i \in 1 .. Len(items) - a : todo[i] = items[a + i]
    BY <1>1, <1>3, Behind
  <1>7. Len(c) = n /\ \A j \in 1 .. n : c[j] = todo[j]
    <2>1. n \in Nat /\ 1 \in Nat \ {0} /\ n <= Len(todo) /\ 1 <= n
      BY <1>6
    <2> HIDE DEF a
    <2>2. /\ Len(SubSeq(todo, 1, n)) = IF 1 <= n THEN n - 1 + 1 ELSE 0
          /\ \A i \in 1 .. n - 1 + 1 : SubSeq(todo, 1, n)[i] = todo[1 + i - 1]
      BY <1>6, <2>1, Slice
    <2> QED BY <2>1, <2>2
  <1>8. ASSUME NEW j \in 1 .. n
        PROVE  /\ y[j].emb = c[j].means
               /\ y[j].deep = IF family = "qwen3" /\ c[j].tok = ImagePad THEN c[j].means ELSE None
    <2>1. j \in Nat \ {0} /\ j \in 1 .. Len(items) - a /\ a + j \in 1 .. Len(items)
      BY SMTT(40), <1>2, <1>3, <1>6
    <2>2. c[j] = items[a + j]
      BY <1>6, <1>7, <2>1
    <2>3. y[j].emb = PrefillEmbedding(c, j) /\ y[j].deep = PrefillDeepstack(j)
      OBVIOUS
    <2>4. PrefillEmbedding(c, j) = items[a + j].means
      <3>1. LocalRow(emb.at, j) = a + j
        BY <1>4 DEF LocalRow
      <3>2. a + j \in DOMAIN emb.rows /\ emb.rows[a + j] = items[a + j].means
        BY <1>2, <1>5, <2>1
      <3> QED BY <1>1, <3>1, <3>2 DEF PrefillEmbedding, StagedRow
    <2>5. PrefillDeepstack(j) = IF family = "qwen3" /\ items[a + j].tok = ImagePad
                                THEN items[a + j].means ELSE None
      <3>1. a + j <= Len(items) /\ a = n_past - emb.at
        BY <1>2, <2>1
      <3> QED BY <1>1, <1>3, <2>1, <3>1, DeepstackRight DEF items
    <2> HIDE DEF a
    <2> QED BY <2>2, <2>3, <2>4, <2>5
  <1> QED BY <1>7, <1>8 DEF FedRight

LEMMA PrefillChunkFeeds ==
    ASSUME BundleFixed, Feeding, PrefillChunk
    PROVE  Feeding'
  <1> DEFINE n == Min2(Len(todo), SeqLenPrefill)
             c == SubSeq(todo, 1, n)
             y == [j \in 1 .. n |-> [emb  |-> PrefillEmbedding(c, j),
                                     pos  |-> PrefillPosition(j),
                                     deep |-> PrefillDeepstack(j)]]
  <1>1. /\ pc = "chunk" /\ todo # <<>>
        /\ token_history' = token_history \o c /\ fed' = fed \o y
        /\ todo' = SubSeq(todo, n + 1, Len(todo))
        /\ UNCHANGED <<family, emb, mrope, deepstack, pc, req, goal, next_token, file, damage>>
    BY DEF PrefillChunk, bundle, providers
  <1>2. todo \in Seq(Items) /\ n_past + Len(todo) <= MaxCL /\ Len(todo) \in Nat \ {0}
    <2>1. todo \in Seq(Items) /\ n_past + Len(todo) <= MaxCL
      BY <1>1 DEF Feeding, Stages
    <2> HIDE DEF Items
    <2> QED BY <1>1, <2>1, EmptySeq
  <1>3. n \in 1 .. Len(todo)
    BY <1>2, VLMAssumption DEF VLMAssumption, Min2
  <1>4. IsSequence(y) /\ Len(y) = n
    <2>1. n \in Nat /\ y = [j \in 1 .. n |-> y[j]]
      BY <1>3
    <2> HIDE DEF y, n
    <2> QED BY <2>1, MadeSequence
  <1>5. ASSUME "evicted" \notin damage PROVE FedRight(family, c, y)
    <2>1. Staged /\ InStep
      BY <1>1, <1>5 DEF Feeding, StagedForPrompt
    <2> HIDE DEF n
    <2> QED BY <1>1, <1>3, <2>1, ChunkFedRight
  <1> HIDE DEF n, c, y
  <1>6. c \in Seq(Items) /\ Len(c) = n
    <2> HIDE DEF Items
    <2>1. n \in Nat /\ 1 \in Nat \ {0} /\ n <= Len(todo) /\ 1 <= n
      BY <1>3
    <2>2. c \in Seq(Items) /\ Len(c) = IF 1 <= n THEN n - 1 + 1 ELSE 0
      BY <1>2, <2>1, Slice DEF c
    <2> QED BY <2>1, <2>2
  <1>7. todo' \in Seq(Items) /\ Len(todo') = Len(todo) - n
    <2> HIDE DEF Items
    <2>1. n \in 0 .. Len(todo)
      BY <1>3
    <2> QED BY <1>1, <1>2, <2>1, Behind
  <1>8. n_past \in Nat /\ n_past <= MaxCL /\ MaxCL \in Nat /\ n_past = Len(token_history)
    BY TurnFacts DEF n_past
  <1>9. ContextRight(family, token_history', fed', damage) /\ n_past' = n_past + n
    <2>1. ContextRight(family, token_history, fed, damage)
      BY DEF Feeding, Contexts
    <2>2. Len(token_history) + Len(c) <= MaxCL
      BY <1>2, <1>3, <1>6, <1>8
    <2>3. /\ ContextRight(family, token_history \o c, fed \o y, damage)
          /\ Len(token_history \o c) = Len(token_history) + Len(c)
      BY <1>4, <1>5, <1>6, <2>1, <2>2, ContextGrows
    <2> QED BY <1>1, <1>6, <2>3 DEF n_past
  <1>10. Contexts'
    BY <1>1, <1>9 DEF Feeding, Contexts
  <1>11. Anchors'
    BY <1>1 DEF Feeding, Anchors, Untold
  <1>12. Stages'
    <2>1. n_past' + Len(todo') <= MaxCL
      BY <1>2, <1>3, <1>7, <1>8, <1>9
    <2>2. Stages
      BY DEF Feeding
    <2> HIDE DEF Items
    <2> QED BY <1>1, <1>7, <2>1, <2>2 DEF Stages
  <1>13. StagedForPrompt'
    <2> SUFFICES ASSUME "evicted" \notin damage PROVE Staged' /\ InStep'
      BY <1>1 DEF StagedForPrompt
    <2>1. Staged /\ InStep
      BY <1>1 DEF Feeding, StagedForPrompt
    <2>2. Staged'
      BY <1>1, <2>1 DEF Staged, DeepstackStaged
    <2> DEFINE a == n_past - emb.at
               items == req.items
    <2>3. a \in 0 .. Len(items) /\ todo = SubSeq(items, a + 1, Len(items)) /\ goal = "prompt"
      BY <1>1, <2>1 DEF InStep
    <2>4. items \in Seq(Items)
      BY <1>1 DEF Feeding, Stages
    <2>5. emb.at \in Nat
      BY VLMAssumption DEF VLMAssumption, Feeding, Anchors
    <2>6. n_past' - emb.at = a + n
      BY SMTT(40), <1>2, <1>3, <1>8, <1>9, <2>5
    <2> HIDE DEF a, items, Items
    <2>7. Len(items) \in Nat /\ Len(todo) = Len(items) - a
      BY <2>3, <2>4, Behind
    <2>8. n \in 0 .. Len(items) - a
      BY <1>3, <2>7
    <2>9. todo' = SubSeq(items, (a + n) + 1, Len(items))
      BY <1>1, <2>3, <2>4, <2>8, RestOfRest
    <2>10. a + n \in 0 .. Len(items)
      BY <2>3, <2>7, <2>8
    <2>11. InStep'
      BY <1>1, <2>3, <2>6, <2>9, <2>10 DEF InStep, items
    <2> QED BY <2>2, <2>11
  <1> QED BY <1>10, <1>11, <1>12, <1>13 DEF Feeding

\* The prompt is about to be fed from its first token.
LEMMA PromptBeginsFeeds ==
    ASSUME Feeding, pc \in {"fit", "chunk"}, PromptFits, todo' = req.items, goal' = "prompt", pc' = "chunk",
           "evicted" \notin damage => pc = "fit",
           UNCHANGED <<bundle, context, providers, req, next_token, step, file, damage>>
    PROVE  Feeding'
  <1>1. /\ UNCHANGED <<family, token_history, fed, emb, mrope, deepstack>>
        /\ UNCHANGED <<req, next_token, file, damage>>
    BY DEF bundle, context, providers
  <1>2. Contexts' /\ Anchors'
    BY <1>1 DEF Feeding, Contexts, Anchors, Untold
  <1>3. /\ req.items \in Seq(Items) /\ n_past + Len(req.items) <= MaxCL /\ n_past' = n_past
        /\ n_past \in Nat /\ Len(req.items) \in Nat
    <2>1. req.items \in Seq(Items)
      BY DEF Feeding, Stages
    <2> QED BY <1>1, <2>1, TurnFacts DEF PromptFits, n_past
  <1>4. Stages'
    <2>1. Stages
      BY DEF Feeding
    <2> HIDE DEF Items
    <2> QED BY <1>1, <1>3, <2>1 DEF Stages
  <1>5. StagedForPrompt'
    <2> SUFFICES ASSUME "evicted" \notin damage PROVE Staged' /\ InStep'
      BY <1>1 DEF StagedForPrompt
    <2>1. Staged /\ InStep /\ pc = "fit"
      BY DEF Feeding, StagedForPrompt
    <2>2. Staged'
      BY <1>1, <2>1 DEF Staged, DeepstackStaged
    <2>3. n_past - emb.at = 0
      BY <1>3, <2>1 DEF InStep
    <2> DEFINE items == req.items
    <2> HIDE DEF items, Items
    <2>4. items = SubSeq(items, 0 + 1, Len(items))
      BY <1>3 DEF items
    <2>5. 0 \in 0 .. Len(items)
      BY <1>3 DEF items
    <2>6. InStep'
      BY <1>1, <1>3, <2>3, <2>4, <2>5 DEF InStep, items
    <2> QED BY <2>2, <2>6
  <1> QED BY <1>2, <1>4, <1>5 DEF Feeding

LEMMA FitPromptFeeds == Feeding /\ FitPrompt => Feeding'
  <1> SUFFICES ASSUME Feeding, FitPrompt PROVE Feeding'
    OBVIOUS
  <1>1. pc = "fit"
    BY DEF FitPrompt
  <1>2. CASE PromptFits
    <2>1. /\ pc' = "chunk" /\ goal' = "prompt" /\ todo' = req.items
          /\ UNCHANGED <<bundle, context, providers, req, next_token, step, file, damage>>
      BY <1>2 DEF FitPrompt
    <2> QED BY <1>1, <1>2, <2>1, PromptBeginsFeeds
  <1>3. CASE ~PromptFits /\ CanSlide(Len(req.items)) /\ Evict(Len(req.items), "evict_prompt")
    <2>1. Len(req.items) \in Nat
      BY <1>1, TurnFacts
    <2> QED BY <1>1, <1>3, <2>1, EvictFeeds
  <1>4. CASE ~PromptFits /\ Unwind(FALSE)
    BY <1>4, UnwindFeeds
  <1> QED BY <1>2, <1>3, <1>4 DEF FitPrompt

LEMMA PromptEvictedFeeds == Feeding /\ PromptEvicted => Feeding'
  <1> SUFFICES ASSUME Feeding, PromptEvicted PROVE Feeding'
    OBVIOUS
  <1>1. pc = "chunk" /\ goal = "evict_prompt"
    BY DEF PromptEvicted
  <1>2. CASE PromptFits
    <2>1. /\ todo' = req.items /\ goal' = "prompt" /\ pc' = "chunk"
          /\ UNCHANGED <<bundle, context, providers, req, next_token, step, file, damage>>
      BY <1>1, <1>2 DEF PromptEvicted
    <2>2. "evicted" \in damage
      BY <1>1 DEF Feeding, StagedForPrompt, InStep
    <2> QED BY <1>1, <1>2, <2>1, <2>2, PromptBeginsFeeds
  <1>3. CASE Unwind(FALSE)
    BY <1>3, UnwindFeeds
  <1> QED BY <1>2, <1>3 DEF PromptEvicted

LEMMA PromptDoneFeeds == Feeding /\ PromptDone => Feeding'
  <1> SUFFICES ASSUME Feeding, PromptDone PROVE Feeding'
    OBVIOUS
  <1>1. /\ pc = "chunk" /\ pc' = "decode" /\ next_token' \in Text \cup Eos
        /\ UNCHANGED <<family, token_history, fed, emb, mrope, deepstack>>
        /\ UNCHANGED <<req, goal, file, damage>>
    BY DEF PromptDone, bundle, context, providers
  <1>2. Contexts' /\ Anchors'
    BY <1>1 DEF Feeding, Contexts, Anchors, Untold
  <1>3. Stages'
    BY <1>1 DEF Feeding, Stages
  <1>4. StagedForPrompt'
    BY <1>1 DEF StagedForPrompt
  <1> QED BY <1>2, <1>3, <1>4 DEF Feeding

\* A decode step appends a token that is no pad token, with its own embedding.
LEMMA DecodeFeeds == Feeding /\ Decode => Feeding'
  <1> SUFFICES ASSUME Feeding, Decode PROVE Feeding'
    OBVIOUS
  <1> DEFINE item == [tok |-> next_token, means |-> next_token]
             input == [emb |-> next_token, pos |-> CountedPosition(1), deep |-> None]
  <1>1. /\ pc = "decode" /\ n_past + 1 <= MaxCL
        /\ token_history' = Append(token_history, item) /\ fed' = Append(fed, input)
        /\ next_token' \in Text \cup Eos
        /\ UNCHANGED <<family, emb, mrope, deepstack, pc, req, todo, goal, file, damage>>
    BY DEF Decode, GoesOn, bundle, providers
  <1>2. next_token \in Text \cup Eos /\ next_token # ImagePad
    <2>1. next_token \in Text \cup Eos
      BY <1>1 DEF Feeding, Stages
    <2> QED BY <2>1, VLMAssumption DEF VLMAssumption
  <1>3. <<item>> \in Seq(Items) /\ Len(<<item>>) = 1 /\ <<item>>[1] = item
    <2>1. item \in Items
      BY <1>2 DEF Items, Tokens
    <2> HIDE DEF item, Items
    <2> QED BY <2>1
  <1>4. IsSequence(<<input>>) /\ Len(<<input>>) = 1 /\ <<input>>[1] = input
    <2> HIDE DEF input
    <2>1. <<input>> \in Seq({input})
      OBVIOUS
    <2> QED BY <2>1, SequenceOf
  <1>5. FedRight(family, <<item>>, <<input>>)
    <2>1. input.emb = item.means /\ input.deep = None /\ item.tok # ImagePad
      BY <1>2
    <2> HIDE DEF item, input
    <2> QED BY <1>3, <1>4, <2>1 DEF FedRight
  <1> HIDE DEF item, input
  <1>6. ContextRight(family, token_history, fed, damage)
    BY DEF Feeding, Contexts
  <1>7. /\ token_history \in Seq(Items) /\ IsSequence(fed)
        /\ n_past = Len(token_history) /\ n_past \in Nat
    BY <1>6, TurnFacts DEF ContextRight, n_past
  <1>8. token_history' = token_history \o <<item>> /\ fed' = fed \o <<input>>
    <2>1. token_history' = token_history \o <<item>>
      <3>1. item \in Items
        BY <1>2 DEF item, Items, Tokens
      <3> HIDE DEF Items
      <3> QED BY <1>1, <1>7, <3>1, AppendIsConcat
    <2>2. fed' = fed \o <<input>>
      <3> DEFINE S == {fed[i] : i \in DOMAIN fed} \cup {input}
      <3>1. fed \in Seq(S)
        <4>1. fed \in Seq({fed[i] : i \in DOMAIN fed})
          BY <1>7 DEF IsSequence
        <4>2. Len(fed) \in Nat /\ DOMAIN fed = 1 .. Len(fed) /\ fed = [i \in 1 .. Len(fed) |-> fed[i]]
          BY <4>1
        <4>3. \A i \in 1 .. Len(fed) : fed[i] \in S
          BY <4>2
        <4> HIDE DEF S
        <4> QED BY <4>2, <4>3
      <3>2. input \in S
        OBVIOUS
      <3> HIDE DEF S
      <3> QED BY <1>1, <3>1, <3>2, AppendIsConcat
    <2> QED BY <2>1, <2>2
  <1>9. ContextRight(family, token_history', fed', damage)
    <2>1. Len(token_history) + Len(<<item>>) <= MaxCL
      BY <1>1, <1>3, <1>7
    <2> QED BY <1>3, <1>4, <1>5, <1>6, <1>8, <2>1, ContextGrows
  <1>10. Contexts' /\ Anchors'
    BY <1>1, <1>9 DEF Feeding, Contexts, Anchors, Untold
  <1>11. Stages'
    BY <1>1 DEF Feeding, Stages
  <1>12. StagedForPrompt'
    BY <1>1 DEF StagedForPrompt
  <1> QED BY <1>10, <1>11, <1>12 DEF Feeding

LEMMA DecodeFullFeeds == Feeding /\ DecodeFull => Feeding'
  <1> SUFFICES ASSUME Feeding, DecodeFull PROVE Feeding'
    OBVIOUS
  <1>1. pc = "decode"
    BY DEF DecodeFull, GoesOn
  <1>2. CASE CanSlide(1) /\ Evict(1, "evict_decode")
    BY <1>1, <1>2, EvictFeeds
  <1>3. CASE Unwind(TRUE)
    BY <1>3, UnwindFeeds
  <1> QED BY <1>2, <1>3 DEF DecodeFull

LEMMA DecodeEvictedFeeds == Feeding /\ DecodeEvicted => Feeding'
  <1> SUFFICES ASSUME Feeding, DecodeEvicted PROVE Feeding'
    OBVIOUS
  <1>1. /\ pc = "chunk" /\ goal = "evict_decode" /\ pc' = "decode"
        /\ UNCHANGED <<family, token_history, fed, emb, mrope, deepstack>>
        /\ UNCHANGED <<req, goal, next_token, file, damage>>
    BY DEF DecodeEvicted, bundle, context, providers
  <1>2. Contexts' /\ Anchors'
    BY <1>1 DEF Feeding, Contexts, Anchors, Untold
  <1>3. Stages'
    BY <1>1 DEF Feeding, Stages
  <1>4. StagedForPrompt'
    BY <1>1 DEF StagedForPrompt
  <1> QED BY <1>2, <1>3, <1>4 DEF Feeding

LEMMA ReturnFeeds == Feeding /\ Return => Feeding'
  <1> SUFFICES ASSUME Feeding, Return PROVE Feeding'
    OBVIOUS
  <1>1. /\ pc' = "idle" /\ goal' = "prompt" /\ emb' = Unstaged /\ deepstack' = Untold
        /\ mrope' = [mrope EXCEPT !.rows = <<>>, !.at = 0]
        /\ UNCHANGED <<family, token_history, fed, file, damage>>
    BY DEF Return, Leave, bundle, context
  <1>2. Contexts'
    BY <1>1 DEF Feeding, Contexts
  <1>3. Anchors'
    <2>1. 0 \in 0 .. MaxCL
      BY VLMAssumption DEF VLMAssumption
    <2>2. mrope'.at \in 0 .. MaxCL
      <3>1. mrope' = [[mrope EXCEPT !.rows = <<>>] EXCEPT !.at = 0]
        BY <1>1
      <3>2. mrope'.at = 0 \/ mrope'.at = mrope.at
        BY <3>1
      <3> QED BY <2>1, <3>2 DEF Feeding, Anchors
    <2>3. mrope'.deltas = mrope.deltas
      BY <1>1
    <2> QED BY <1>1, <2>1, <2>2, <2>3 DEF Feeding, Anchors, Unstaged, Untold
  <1>4. Stages' /\ StagedForPrompt'
    BY <1>1 DEF Stages, StagedForPrompt
  <1> QED BY <1>2, <1>3, <1>4 DEF Feeding

LEMMA ResetKVCacheFeeds == Feeding /\ ResetKVCache => Feeding'
  <1> SUFFICES ASSUME Feeding, ResetKVCache PROVE Feeding'
    OBVIOUS
  <1>1. /\ pc = "idle" /\ token_history' = <<>> /\ fed' = <<>>
        /\ damage' \in {{"reset"}, {}}
        /\ UNCHANGED <<family, emb, pc, goal, file>>
    BY DEF ResetKVCache, bundle
  <1>2. \/ UNCHANGED <<mrope, deepstack>>
        \/ /\ mrope' = [rows |-> <<>>, at |-> 0, deltas |-> 0] /\ deepstack' = Untold
    BY DEF ResetKVCache, DeltasAfterReset
  <1>3. 0 \in 0 .. MaxCL /\ 0 <= MaxCL
    BY VLMAssumption DEF VLMAssumption
  <1>4. ContextRight(family, <<>>, <<>>, damage')
    <2>1. <<>> \in Seq(Items) /\ Len(<<>>) = 0
      OBVIOUS
    <2>2. IsSequence(<<>>)
      <3>1. <<>> \in Seq({})
        OBVIOUS
      <3> QED BY <3>1, SequenceOf
    <2>3. FedRight(family, <<>>, <<>>)
      BY DEF FedRight
    <2>4. damage' \subseteq Harms
      BY <1>1 DEF Harms
    <2> HIDE DEF Items, IsSequence, FedRight
    <2> QED BY <1>3, <2>1, <2>2, <2>3, <2>4 DEF ContextRight
  <1>5. Contexts'
    BY <1>1, <1>4 DEF Feeding, Contexts
  <1>6. Anchors'
    <2>1. CASE UNCHANGED <<mrope, deepstack>>
      BY <1>1, <2>1 DEF Feeding, Anchors, Untold
    <2>2. CASE mrope' = [rows |-> <<>>, at |-> 0, deltas |-> 0] /\ deepstack' = Untold
      BY <1>1, <1>3, <2>2 DEF Feeding, Anchors, Untold
    <2> QED BY <1>2, <2>1, <2>2
  <1>7. Stages' /\ StagedForPrompt'
    BY <1>1 DEF Feeding, Stages, StagedForPrompt
  <1> QED BY <1>5, <1>6, <1>7 DEF Feeding

LEMMA SaveKVCacheFeeds == Feeding /\ SaveKVCache => Feeding'
  <1> SUFFICES ASSUME Feeding, SaveKVCache PROVE Feeding'
    OBVIOUS
  <1>1. /\ pc = "idle"
        /\ file' = [history |-> token_history, fed |-> fed, deltas |-> mrope.deltas, damage |-> damage]
        /\ UNCHANGED <<family, token_history, fed, emb, mrope, deepstack, pc, goal, damage>>
    BY DEF SaveKVCache, bundle, context, providers
  <1>2. Contexts'
    <2>1. file'.history = token_history /\ file'.fed = fed /\ file'.damage = damage
      BY <1>1
    <2> QED BY <1>1, <2>1 DEF Feeding, Contexts
  <1>3. Anchors'
    BY <1>1 DEF Feeding, Anchors, Untold
  <1>4. Stages' /\ StagedForPrompt'
    BY <1>1 DEF Feeding, Stages, StagedForPrompt
  <1> QED BY <1>2, <1>3, <1>4 DEF Feeding

LEMMA LoadKVCacheFeeds == Feeding /\ LoadKVCache => Feeding'
  <1> SUFFICES ASSUME Feeding, LoadKVCache PROVE Feeding'
    OBVIOUS
  <1>1. /\ pc = "idle" /\ file # None /\ token_history' = file.history /\ fed' = file.fed
        /\ UNCHANGED <<family, emb, mrope, deepstack, pc, goal, file>>
    BY DEF LoadKVCache, bundle, providers
  <1>2. damage' = file.damage \/ damage' = file.damage \cup {"loaded"}
    BY DEF LoadKVCache
  <1>3. ContextRight(family, file.history, file.fed, file.damage)
    BY <1>1 DEF Feeding, Contexts
  <1>4. ContextRight(family, file.history, file.fed, damage')
    BY <1>2, <1>3, ContextShifted DEF Harms
  <1>5. Contexts'
    BY <1>1, <1>3, <1>4 DEF Contexts
  <1>6. Anchors'
    BY <1>1 DEF Feeding, Anchors, Untold
  <1>7. Stages' /\ StagedForPrompt'
    BY <1>1 DEF Feeding, Stages, StagedForPrompt
  <1> QED BY <1>5, <1>6, <1>7 DEF Feeding

LEMMA StutterFeeds == Feeding /\ UNCHANGED vars => Feeding'
  <1> SUFFICES ASSUME Feeding, UNCHANGED vars PROVE Feeding'
    OBVIOUS
  <1>1. /\ UNCHANGED <<family, token_history, fed, emb, mrope, deepstack>>
        /\ UNCHANGED <<pc, req, todo, goal, next_token, file, damage>>
    BY DEF vars
  <1>2. Contexts' /\ Anchors'
    BY <1>1 DEF Feeding, Contexts, Anchors, Untold
  <1>3. Stages'
    BY <1>1 DEF Feeding, Stages, n_past
  <1>4. StagedForPrompt'
    BY <1>1 DEF Feeding, StagedForPrompt, Staged, DeepstackStaged, InStep, n_past
  <1> QED BY <1>2, <1>3, <1>4 DEF Feeding

LEMMA VLMInvariant == Spec => []VLMInv
  <1>1. BundleFixed /\ Feeding /\ [Next]_vars => Feeding'
    <2> SUFFICES ASSUME BundleFixed, Feeding, [Next]_vars PROVE Feeding'
      OBVIOUS
    <2>1. CASE \E r \in Request : Generate(r)
      BY <2>1, GenerateFeeds
    <2>2. CASE FitPrompt
      BY <2>2, FitPromptFeeds
    <2>3. CASE PromptEvicted
      BY <2>3, PromptEvictedFeeds
    <2>4. CASE PrefillChunk
      BY <2>4, PrefillChunkFeeds
    <2>5. CASE PrefillFails
      BY <2>5, UnwindFeeds DEF PrefillFails
    <2>6. CASE PromptDone
      BY <2>6, PromptDoneFeeds
    <2>7. CASE Decode
      BY <2>7, DecodeFeeds
    <2>8. CASE DecodeFull
      BY <2>8, DecodeFullFeeds
    <2>9. CASE DecodeEvicted
      BY <2>9, DecodeEvictedFeeds
    <2>10. CASE DecodeFails
      BY <2>10, UnwindFeeds DEF DecodeFails
    <2>11. CASE Return
      BY <2>11, ReturnFeeds
    <2>12. CASE ResetKVCache
      BY <2>12, ResetKVCacheFeeds
    <2>13. CASE SaveKVCache
      BY <2>13, SaveKVCacheFeeds
    <2>14. CASE LoadKVCache
      BY <2>14, LoadKVCacheFeeds
    <2>15. CASE UNCHANGED vars
      BY <2>15, StutterFeeds
    <2> QED BY <2>1, <2>2, <2>3, <2>4, <2>5, <2>6, <2>7, <2>8, <2>9, <2>10, <2>11, <2>12, <2>13,
               <2>14, <2>15 DEF Next
  <1>2. BundleFixed /\ Feeding => VLMInv
    BY DEF VLMInv
  <1> QED BY <1>1, <1>2, BundleIsFixed, InitFeeds, PTL DEF Spec

\* Through generate(), its evictions and exceptions, reset, save and load the history and
\* what was fed have one length within the largest cache, and the providers' rows are
\* staged together with their anchors inside it.
THEOREM VLMTypeCorrect == Spec => []TypeOK
  <1>1. VLMInv => TypeOK
    <2> SUFFICES ASSUME BundleFixed, Contexts, Anchors, Stages PROVE TypeOK
      BY DEF VLMInv, Feeding
    <2>1. Len(fed) = n_past /\ n_past <= MaxCL /\ damage \subseteq Harms
      BY DEF Contexts, ContextRight, n_past
    <2>2. (emb.rows = <<>>) = (mrope.rows = <<>>) \/ pc = "idle"
      BY DEF Stages
    <2>3. family \in Families /\ grid \in Grids
      BY DEF BundleFixed
    <2> QED BY <2>1, <2>2, <2>3 DEF Anchors, Stages, TypeOK
  <1> QED BY <1>1, VLMInvariant, PTL

\* Whatever the prompts, their images, the chunk size and the turns before, each token
\* enters the network with the embedding it means: the scatter, the staged rows and the
\* offsets by n_past hand every pad token the feature of its own group, and in Qwen3-VL
\* that group's intermediate features, until an eviction replays tokens from their ids.
THEOREM PromptsAreFedAsMeant == Spec => []FedAsPrompted
  <1>1. VLMInv => FedAsPrompted
    BY DEF VLMInv, Feeding, Contexts, ContextRight, FedRight, FedAsPrompted, n_past
  <1> QED BY <1>1, VLMInvariant, PTL
-----------------------------------------------------------------------------
(* The tokens of a prompt: after a vision-start token come the pad tokens  *)
(* of all groups, in order, and nowhere else.                              *)

\* The box of an image, and the group of a pad token.
ImageBox == <<1, grid[1], grid[2]>>
NumGroups == grid[1] * grid[2]
GroupOf(item) == item.means[2]

Starts(items) == {i \in DOMAIN items : items[i].tok = VisionStart}

PadsFollow(items, i) ==
    /\ items[i].tok = ImagePad =>
         /\ GroupOf(items[i]) \in 0 .. NumGroups - 1 /\ i - 1 \in 1 .. Len(items)
         /\ GroupOf(items[i]) = 0 => items[i - 1].tok = VisionStart
         /\ GroupOf(items[i]) # 0 =>
              items[i - 1].tok = ImagePad /\ GroupOf(items[i - 1]) = GroupOf(items[i]) - 1
    /\ items[i].tok = VisionStart \/ (items[i].tok = ImagePad /\ GroupOf(items[i]) < NumGroups - 1) =>
         /\ i + 1 \in 1 .. Len(items) /\ items[i + 1].tok = ImagePad
         /\ GroupOf(items[i + 1]) = IF items[i].tok = VisionStart THEN 0 ELSE GroupOf(items[i]) + 1

\* Items of a prompt with as many images.
Formed(items, images) ==
    /\ items \in Seq(Items) /\ images \in Nat
    /\ Count(Starts(items), Len(items)) = images
    /\ \A i \in 1 .. Len(items) : PadsFollow(items, i)

LEMMA FormedConcat ==
    ASSUME NEW a, NEW j, NEW b, NEW k, Formed(a, j), Formed(b, k)
    PROVE  Formed(a \o b, j + k)
  <1> DEFINE c == a \o b
             A == Starts(a)
             B == Starts(b)
             C == Starts(c)
             m == Len(a)
             n == Len(b)
  <1>1. /\ a \in Seq(Items) /\ b \in Seq(Items) /\ j \in Nat /\ k \in Nat
        /\ Count(A, m) = j /\ Count(B, n) = k
        /\ (\A i \in 1 .. m : PadsFollow(a, i)) /\ (\A i \in 1 .. n : PadsFollow(b, i))
    BY DEF Formed
  <1>2. /\ c \in Seq(Items) /\ Len(c) = m + n /\ m \in Nat /\ n \in Nat
        /\ (\A i \in 1 .. m : c[i] = a[i]) /\ (\A i \in 1 .. n : c[m + i] = b[i])
    <2> HIDE DEF Items
    <2> QED BY <1>1
  <1>3. DOMAIN a = 1 .. m /\ DOMAIN b = 1 .. n /\ DOMAIN c = 1 .. m + n
    BY <1>1, <1>2
  <1> HIDE DEF c, m, n
  <1>4. \A i \in 1 .. m : i \in C <=> i \in A
    BY <1>2, <1>3 DEF C, A, Starts
  <1>5. \A i \in 1 .. n : m + i \in C <=> i \in B
    BY <1>2, <1>3 DEF C, B, Starts
  <1> HIDE DEF A, B, C
  <1>6. Count(C, m + n) = j + k
    <2>1. Count(C, m + n) = Count(C, m) + Count(B, n)
      BY <1>2, <1>5, CountShift
    <2>2. Count(C, m) = Count(A, m)
      BY <1>2, <1>4, CountAgree
    <2> QED BY <1>1, <2>1, <2>2
  <1>7. ASSUME NEW i \in 1 .. m PROVE PadsFollow(c, i)
    <2>1. PadsFollow(a, i) /\ c[i] = a[i]
      BY <1>1, <1>2
    <2>2. i - 1 \in 1 .. m => i - 1 \in 1 .. Len(c) /\ c[i - 1] = a[i - 1]
      BY <1>2
    <2>3. i + 1 \in 1 .. m => i + 1 \in 1 .. Len(c) /\ c[i + 1] = a[i + 1]
      BY <1>2
    <2> DEFINE prev == i - 1
               succ == i + 1
    <2> HIDE DEF prev, succ
    <2> QED BY <2>1, <2>2, <2>3 DEF PadsFollow, m, prev, succ
  <1>8. ASSUME NEW i \in 1 .. n PROVE PadsFollow(c, m + i)
    <2>1. PadsFollow(b, i) /\ c[m + i] = b[i]
      BY <1>1, <1>2
    <2>2. i - 1 \in 1 .. n => (m + i) - 1 \in 1 .. Len(c) /\ c[(m + i) - 1] = b[i - 1]
      <3>1. (m + i) - 1 = m + (i - 1)
        BY <1>2
      <3> QED BY <1>2, <3>1
    <2>3. i + 1 \in 1 .. n => (m + i) + 1 \in 1 .. Len(c) /\ c[(m + i) + 1] = b[i + 1]
      <3>1. (m + i) + 1 = m + (i + 1)
        BY <1>2
      <3> QED BY <1>2, <3>1
    <2> DEFINE prev == (m + i) - 1
               succ == (m + i) + 1
               here == m + i
    <2> HIDE DEF prev, succ, here
    <2> QED BY <2>1, <2>2, <2>3 DEF PadsFollow, n, prev, succ, here
  <1>9. ASSUME NEW i \in 1 .. m + n PROVE PadsFollow(c, i)
    <2>1. CASE i \in 1 .. m
      BY <1>7, <2>1
    <2>2. CASE i \notin 1 .. m
      <3>1. PICK l \in 1 .. n : i = m + l
        <4>1. i - m \in 1 .. n /\ i = m + (i - m)
          BY <1>2, <2>2
        <4> QED BY <4>1
      <3> QED BY <1>8, <3>1
    <2> QED BY <2>1, <2>2
  <1>10. Formed(c, j + k)
    BY <1>1, <1>2, <1>6, <1>9 DEF Formed, C
  <1> QED BY <1>10 DEF c

LEMMA FormedText ==
    ASSUME NEW x \in Text, x \notin Images
    PROVE  Formed(Piece(x), 0)
  <1> DEFINE s == Piece(x)
  <1>1. x \in Tokens /\ x # ImagePad /\ x # VisionStart
    BY VLMAssumption DEF VLMAssumption, Tokens
  <1>2. s = <<[tok |-> x, means |-> x]>>
    BY DEF Piece
  <1>3. s \in Seq(Items) /\ Len(s) = 1 /\ s[1].tok = x /\ DOMAIN s = 1 .. 1
    <2>1. [tok |-> x, means |-> x] \in Items
      BY <1>1 DEF Items
    <2> QED BY <1>2, <2>1
  <1> HIDE DEF s
  <1>4. Count(Starts(s), 1) = 0
    <2>1. 1 \notin Starts(s)
      BY <1>1, <1>3 DEF Starts
    <2>2. Count(Starts(s), 0) = 0 /\ Count(Starts(s), 0 + 1) = Count(Starts(s), 0) + (IF 0 + 1 \in Starts(s) THEN 1 ELSE 0)
      BY CountFacts
    <2> QED BY <2>1, <2>2
  <1>5. \A i \in 1 .. Len(s) : PadsFollow(s, i)
    BY <1>1, <1>3 DEF PadsFollow
  <1>6. Formed(s, 0)
    BY <1>3, <1>4, <1>5 DEF Formed
  <1> QED BY <1>6 DEF s

LEMMA FrameFacts ==
    ASSUME BundleFixed
    PROVE  /\ grid[1] \in Nat \ {0} /\ grid[2] \in Nat \ {0} /\ NumGroups \in Nat \ {0}
           /\ ImageBox \in Nat \X Nat \X Nat
           /\ ImageBox[1] = 1 /\ ImageBox[2] = grid[1] /\ ImageBox[3] = grid[2]
  <1> DEFINE h == grid[1]
             w == grid[2]
  <1>1. h \in Nat \ {0} /\ w \in Nat \ {0}
    BY VLMAssumption DEF BundleFixed, VLMAssumption
  <1> HIDE DEF h, w
  <1>2. h * w \in Nat \ {0}
    BY <1>1
  <1> QED BY <1>1, <1>2 DEF h, w, NumGroups, ImageBox

LEMMA FormedImage ==
    ASSUME BundleFixed, NEW m \in Images
    PROVE  Formed(Piece(m), 1)
  <1> DEFINE s == Piece(m)
             n == NumGroups
             v == <<[tok |-> VisionStart, means |-> VisionStart]>>
             q == PiecePads(m)
  <1>1. n \in Nat \ {0}
    BY FrameFacts
  <1>2. s = v \o q
    BY DEF Piece
  <1>3. v \in Seq(Items) /\ Len(v) = 1 /\ v[1].tok = VisionStart
    <2>1. [tok |-> VisionStart, means |-> VisionStart] \in Items
      BY DEF Items, Tokens
    <2> HIDE DEF Items
    <2> QED BY <2>1
  <1> HIDE DEF n
  <1>4. /\ q \in Seq(Items) /\ Len(q) = n
        /\ \A g \in 1 .. n : q[g].tok = ImagePad /\ q[g].means = <<m, g - 1>>
    <2>1. ASSUME NEW g \in 1 .. n PROVE [tok |-> ImagePad, means |-> <<m, g - 1>>] \in Items
      <3>1. <<m, g - 1>> \in Features
        BY <1>1 DEF Features
      <3> HIDE DEF Features
      <3> QED BY <3>1 DEF Items, Tokens
    <2>2. q = [g \in 1 .. n |-> [tok |-> ImagePad, means |-> <<m, g - 1>>]]
      BY DEF PiecePads, NumGroups, n
    <2> HIDE DEF Items, q
    <2> QED BY <1>1, <2>1, <2>2
  <1> HIDE DEF v, q
  <1>5. /\ s \in Seq(Items) /\ Len(s) = 1 + n /\ DOMAIN s = 1 .. 1 + n /\ s[1].tok = VisionStart
        /\ \A g \in 1 .. n : s[1 + g] = q[g]
    <2> HIDE DEF Items, s
    <2>1. s \in Seq(Items) /\ Len(s) = 1 + n /\ s[1] = v[1] /\ \A g \in 1 .. n : s[1 + g] = q[g]
      <3>1. v \in Seq(Items) /\ q \in Seq(Items) /\ Len(v) = 1 /\ Len(q) = n
        BY <1>3, <1>4
      <3>2. /\ v \o q \in Seq(Items) /\ Len(v \o q) = Len(v) + Len(q)
            /\ \A i \in 1 .. Len(v) + Len(q) : (v \o q)[i] = IF i <= Len(v) THEN v[i] ELSE q[i - Len(v)]
        BY <3>1, ConcatProperties
      <3>3. (v \o q)[1] = v[1]
        BY <1>1, <3>1, <3>2
      <3>4. ASSUME NEW g \in 1 .. n PROVE (v \o q)[1 + g] = q[g]
        <4>1. 1 + g \in 1 .. 1 + n /\ ~ (1 + g <= 1) /\ (1 + g) - 1 = g
          BY <1>1
        <4> QED BY <3>1, <3>2, <4>1
      <3> QED BY <1>2, <3>1, <3>2, <3>3, <3>4
    <2> QED BY <1>3, <2>1
  <1> HIDE DEF s
  <1>6. ASSUME NEW i \in 2 .. 1 + n PROVE s[i].tok = ImagePad /\ GroupOf(s[i]) = i - 2
    <2>1. i - 1 \in 1 .. n /\ 1 + (i - 1) = i /\ (i - 1) - 1 = i - 2
      BY <1>1
    <2>2. s[i] = q[i - 1] /\ q[i - 1].tok = ImagePad /\ q[i - 1].means = <<m, (i - 1) - 1>>
      BY <1>4, <1>5, <2>1
    <2>3. q[i - 1].means[2] = (i - 1) - 1
      BY <2>2
    <2> QED BY <2>1, <2>2, <2>3 DEF GroupOf
  <1>7. VisionStart # ImagePad
    BY VLMAssumption DEF VLMAssumption
  <1>8. Count(Starts(s), 1 + n) = 1
    <2>1. Starts(s) = {1}
      BY <1>1, <1>5, <1>6, <1>7 DEF Starts
    <2>2. {k \in 1 .. 1 + n : k \in {1}} = {1}
      BY <1>1
    <2>3. Cardinality({1}) = 1
      BY FS_Singleton
    <2> QED BY <2>1, <2>2, <2>3 DEF Count
  <1>9. ASSUME NEW i \in 1 .. 1 + n PROVE PadsFollow(s, i)
    <2>1. CASE i = 1
      <3>1. s[1].tok = VisionStart /\ s[2].tok = ImagePad /\ GroupOf(s[2]) = 0 /\ 2 \in 1 .. Len(s)
        BY <1>1, <1>5, <1>6
      <3> QED BY <1>7, <2>1, <3>1 DEF PadsFollow
    <2>2. CASE i # 1
      <3>1. i \in 2 .. 1 + n /\ i - 1 \in 1 .. Len(s)
        BY <1>1, <1>5, <2>2
      <3>2. s[i].tok = ImagePad /\ GroupOf(s[i]) = i - 2
        BY <1>6, <3>1
      <3>3. CASE i = 2
        <4>1. s[i - 1].tok = VisionStart
          BY <1>5, <3>3
        <4>2. GroupOf(s[i]) < n - 1 => i + 1 \in 1 .. Len(s) /\ s[i + 1].tok = ImagePad /\ GroupOf(s[i + 1]) = GroupOf(s[i]) + 1
          BY <1>1, <1>5, <1>6, <3>2, <3>3
        <4> QED BY <1>1, <1>7, <3>1, <3>2, <3>3, <4>1, <4>2 DEF PadsFollow, n
      <3>4. CASE i # 2
        <4>1. i - 1 \in 2 .. 1 + n
          BY <1>1, <3>1, <3>4
        <4>2. s[i - 1].tok = ImagePad /\ GroupOf(s[i - 1]) = GroupOf(s[i]) - 1
          BY <1>6, <3>2, <4>1
        <4>3. GroupOf(s[i]) < n - 1 => i + 1 \in 1 .. Len(s) /\ s[i + 1].tok = ImagePad /\ GroupOf(s[i + 1]) = GroupOf(s[i]) + 1
          <5>1. GroupOf(s[i]) < n - 1 => i + 1 \in 2 .. 1 + n
            BY <1>1, <3>1, <3>2
          <5> QED BY <1>5, <1>6, <3>1, <3>2, <5>1
        <4>4. GroupOf(s[i]) \in 0 .. n - 1 /\ GroupOf(s[i]) # 0
          BY <1>1, <3>1, <3>2, <3>4
        <4> QED BY <1>7, <3>1, <3>2, <4>2, <4>3, <4>4 DEF PadsFollow, n
      <3> QED BY <3>3, <3>4
    <2> QED BY <2>1, <2>2
  <1>10. Formed(s, 1)
    BY <1>5, <1>8, <1>9 DEF Formed
  <1> QED BY <1>10 DEF s

\* Every prompt is formed like that.
LEMMA PromptFormed ==
    ASSUME BundleFixed, NEW shape \in Shapes
    PROVE  Formed(Expand(shape), Len(ImagesOf(shape)))
  <1> DEFINE Good == {n \in Nat : n <= Len(shape) => Formed(ItemsTo(shape, n), Len(ImagesTo(shape, n)))}
  <1>1. 0 \in Good
    <2>1. [i \in 1 .. 0 |-> Piece(shape[i])] = <<>> /\ [i \in 1 .. 0 |-> PieceImages(shape[i])] = <<>>
      OBVIOUS
    <2>2. ItemsTo(shape, 0) = <<>> /\ ImagesTo(shape, 0) = <<>>
      BY <2>1, FlattenEmpty, Zenon DEF ItemsTo, ImagesTo
    <2>3. <<>> \in Seq(Items) /\ Len(<<>>) = 0 /\ 0 \in Nat
      OBVIOUS
    <2>4. Count(Starts(<<>>), 0) = 0
      BY CountFacts
    <2>5. Formed(<<>>, 0)
      <3> HIDE DEF Items
      <3>1. \A i \in 1 .. 0 : PadsFollow(<<>>, i)
        OBVIOUS
      <3> QED BY <2>3, <2>4, <3>1 DEF Formed
    <2> QED BY <2>2, <2>3, <2>5
  <1>2. ASSUME NEW n \in Nat, n \in Good PROVE n + 1 \in Good
    <2> SUFFICES ASSUME n + 1 <= Len(shape)
                 PROVE  Formed(ItemsTo(shape, n + 1), Len(ImagesTo(shape, n + 1)))
      OBVIOUS
    <2> DEFINE x == shape[n + 1]
               a == ItemsTo(shape, n)
               u == ImagesTo(shape, n)
    <2>1. /\ x \in Text \cup Images /\ u \in Seq(Images)
          /\ ItemsTo(shape, n + 1) = a \o Piece(x) /\ ImagesTo(shape, n + 1) = u \o PieceImages(x)
      BY OneMore
    <2>2. Formed(a, Len(u))
      <3>1. Len(shape) \in Nat
        BY WholePrompt
      <3> QED BY <1>2, <3>1
    <2> HIDE DEF x, a, u
    <2>3. CASE x \in Images
      <3>1. Formed(a \o Piece(x), Len(u) + 1)
        BY <2>2, <2>3, FormedImage, FormedConcat
      <3>2. Len(u \o PieceImages(x)) = Len(u) + 1
        <4>1. PieceImages(x) = <<x>>
          BY <2>3 DEF PieceImages
        <4> QED BY <2>1, <2>3, <4>1
      <3> QED BY <2>1, <3>1, <3>2
    <2>4. CASE x \notin Images
      <3>1. Formed(a \o Piece(x), Len(u) + 0)
        BY <2>1, <2>2, <2>4, FormedText, FormedConcat
      <3>2. Len(u \o PieceImages(x)) = Len(u) + 0
        <4>1. PieceImages(x) = <<>>
          BY <2>4 DEF PieceImages
        <4> QED BY <2>1, <4>1
      <3> QED BY <2>1, <3>1, <3>2
    <2> QED BY <2>3, <2>4
  <1> HIDE DEF Good
  <1>3. Len(shape) \in Good
    BY <1>1, <1>2, WholePrompt, Induction
  <1> QED BY <1>3, WholePrompt DEF Good
-----------------------------------------------------------------------------
(* Positions and the front: the first position past those before it.       *)

Top(p) == Max2(p[1], Max2(p[2], p[3]))

LEMMA TopFacts ==
    ASSUME NEW p \in Positions
    PROVE  /\ p[1] \in Nat /\ p[2] \in Nat /\ p[3] \in Nat /\ Top(p) \in Nat
           /\ p[1] <= Top(p) /\ p[2] <= Top(p) /\ p[3] <= Top(p)
           /\ \A u \in Int : p[1] <= u /\ p[2] <= u /\ p[3] <= u => Top(p) <= u
  <1> DEFINE a == p[1]
             b == p[2]
             c == p[3]
  <1>1. a \in Nat /\ b \in Nat /\ c \in Nat
    BY DEF Positions
  <1>2. Top(p) = Max2(a, Max2(b, c))
    BY DEF Top
  <1> HIDE DEF a, b, c
  <1>3. /\ Top(p) \in Nat /\ a <= Top(p) /\ b <= Top(p) /\ c <= Top(p)
        /\ \A u \in Int : a <= u /\ b <= u /\ c <= u => Top(p) <= u
    BY <1>1, <1>2 DEF Max2
  <1> QED BY <1>1, <1>3 DEF a, b, c

\* F is the front before each of the first n positions and after the last.
Fronts(P, F, n) ==
    /\ F \in [0 .. n -> Nat] /\ F[0] = 0
    /\ \A i \in 1 .. n : P[i] \in Positions /\ F[i] = Max2(F[i - 1], 1 + Top(P[i]))

\* A token is in its place: at the front in all dimensions, or in a box that begins at the
\* front before the first pad token of its image.
InPlace(box, items, P, F, i) ==
    IF items[i].tok = ImagePad
      THEN /\ GroupOf(items[i]) \in 0 .. i - 1
           /\ P[i] = [d \in 1 .. 3 |-> F[i - 1 - GroupOf(items[i])] + BoxCell(box, GroupOf(items[i]))[d]]
      ELSE P[i] = [d \in 1 .. 3 |-> F[i - 1]]

Placed(box, items, P, F, n) == Fronts(P, F, n) /\ \A i \in 1 .. n : InPlace(box, items, P, F, i)

\* No token moves the front by more than one.
Steady(F, n) == \A i \in 1 .. n : F[i] <= F[i - 1] + 1

\* The front after one position more.
Onward(F, n, p) == [i \in 0 .. n + 1 |-> IF i <= n THEN F[i] ELSE Max2(F[n], 1 + Top(p))]

\* Two sequences begin alike.
AlikeTo(a, b, n) == \A i \in 1 .. n : a[i] = b[i]

LEMMA PlacedNext ==
    ASSUME NEW n \in Nat, NEW F, NEW items, NEW P, Placed(ImageBox, items, P, F, n),
           NEW more, AlikeTo(more, items, n),
           NEW Q, AlikeTo(Q, P, n), Q[n + 1] \in Positions,
           InPlace(ImageBox, more, Q, F, n + 1)
    PROVE  /\ Placed(ImageBox, more, Q, Onward(F, n, Q[n + 1]), n + 1)
           /\ Onward(F, n, Q[n + 1])[n + 1] = Max2(F[n], 1 + Top(Q[n + 1]))
           /\ Onward(F, n, Q[n + 1])[n + 1] \in Nat
           /\ \A i \in 0 .. n : Onward(F, n, Q[n + 1])[i] = F[i]
  <1> DEFINE p == Q[n + 1]
             E == Onward(F, n, p)
             x == Max2(F[n], 1 + Top(p))
  <1>0. \A i \in 1 .. n : more[i] = items[i] /\ Q[i] = P[i]
    BY DEF AlikeTo
  <1>1. /\ F \in [0 .. n -> Nat] /\ F[0] = 0
        /\ \A i \in 1 .. n : P[i] \in Positions /\ F[i] = Max2(F[i - 1], 1 + Top(P[i])) /\ InPlace(ImageBox, items, P, F, i)
    BY DEF Placed, Fronts
  <1>2. Top(p) \in Nat
    BY TopFacts
  <1>3. F[n] \in Nat
    BY <1>1
  <1>4. x \in Nat
    <2> DEFINE t == Top(p)
               f == F[n]
    <2> HIDE DEF t, f
    <2>1. Max2(f, 1 + t) \in Nat
      BY <1>2, <1>3 DEF Max2, t, f
    <2> QED BY <2>1 DEF t, f
  <1>5. E = [i \in 0 .. n + 1 |-> IF i <= n THEN F[i] ELSE x]
    BY DEF Onward
  <1> HIDE DEF E, x, p
  <1>6. E \in [0 .. n + 1 -> Nat] /\ E[n + 1] = x /\ \A i \in 0 .. n : E[i] = F[i]
    <2>1. \A i \in 0 .. n : F[i] \in Nat
      BY <1>1
    <2>2. /\ n + 1 \in 0 .. n + 1 /\ ~ (n + 1 <= n)
          /\ \A i \in 0 .. n + 1 : i <= n <=> i \in 0 .. n
          /\ \A i \in 0 .. n : i \in 0 .. n + 1
      OBVIOUS
    <2>3. E \in [0 .. n + 1 -> Nat]
      BY <1>4, <1>5, <2>1, <2>2
    <2>4. E[n + 1] = x
      BY <1>5, <2>2, Zenon
    <2>5. \A i \in 0 .. n : E[i] = F[i]
      BY <1>5, <2>2, Zenon
    <2> QED BY <2>3, <2>4, <2>5
  <1>7. Fronts(Q, E, n + 1)
    <2>1. E[0] = 0
      BY <1>1, <1>6
    <2>2. ASSUME NEW i \in 1 .. n + 1 PROVE Q[i] \in Positions /\ E[i] = Max2(E[i - 1], 1 + Top(Q[i]))
      <3>1. CASE i = n + 1
        <4>1. n \in 0 .. n /\ (n + 1) - 1 = n
          OBVIOUS
        <4> QED BY <1>6, <3>1, <4>1 DEF x, p
      <3>2. CASE i # n + 1
        <4>1. i \in 1 .. n /\ i - 1 \in 0 .. n /\ i \in 0 .. n
          BY <3>2
        <4>2. Q[i] = P[i] /\ E[i] = F[i] /\ E[i - 1] = F[i - 1]
          BY <1>0, <1>6, <4>1
        <4> QED BY <1>1, <4>1, <4>2
      <3> QED BY <3>1, <3>2
    <2> QED BY <1>6, <2>1, <2>2 DEF Fronts
  <1>8. ASSUME NEW i \in 1 .. n + 1 PROVE InPlace(ImageBox, more, Q, E, i)
    <2> DEFINE g == GroupOf(more[i])
    <2>1. InPlace(ImageBox, more, Q, F, i)
      <3>1. CASE i = n + 1
        BY <3>1
      <3>2. CASE i # n + 1
        <4>1. i \in 1 .. n
          BY <3>2
        <4>2. InPlace(ImageBox, items, P, F, i) /\ more[i] = items[i] /\ Q[i] = P[i]
          BY <1>0, <1>1, <4>1
        <4> QED BY <4>2 DEF InPlace
      <3> QED BY <3>1, <3>2
    <2>2. E[i - 1] = F[i - 1]
      <3>1. i - 1 \in 0 .. n
        OBVIOUS
      <3> QED BY <1>6, <3>1
    <2>3. g \in 0 .. i - 1 => E[i - 1 - g] = F[i - 1 - g]
      <3>1. g \in 0 .. i - 1 => i - 1 - g \in 0 .. n
        <4> HIDE DEF g
        <4> QED OBVIOUS
      <3> QED BY <1>6, <3>1
    <2> QED BY <2>1, <2>2, <2>3, Zenon DEF InPlace
  <1> QED BY <1>4, <1>6, <1>7, <1>8 DEF Placed, E, x, p

\* The cells of an image's box.
CellRow(g) == g \div grid[2]
CellCol(g) == g % grid[2]

LEMMA CellNat ==
    ASSUME BundleFixed, NEW g \in Nat, NEW d \in 1 .. 3
    PROVE  BoxCell(ImageBox, g)[d] \in Nat
  <1> DEFINE h == ImageBox[2]
             w == ImageBox[3]
             hw == h * w
  <1>1. h \in Nat \ {0} /\ w \in Nat \ {0}
    BY FrameFacts
  <1>2. BoxCell(ImageBox, g) = <<g \div hw, (g \div w) % h, g % w>>
    BY DEF BoxCell
  <1> HIDE DEF h, w
  <1>3. hw \in Nat \ {0}
    BY <1>1
  <1> HIDE DEF hw
  <1>4. g \div hw \in Nat /\ g \div w \in Nat /\ g % w \in Nat
    BY <1>1, <1>3, QuotientRemainder
  <1>5. (g \div w) % h \in Nat
    <2> DEFINE q == g \div w
    <2> HIDE DEF q
    <2> QED BY <1>1, <1>4, QuotientRemainder DEF q
  <1> QED BY <1>2, <1>4, <1>5

\* Cells in a row follow one another, and so do rows; the last is in the far corner.
LEMMA CellFacts ==
    ASSUME BundleFixed, NEW g \in 0 .. NumGroups - 1
    PROVE  /\ BoxCell(ImageBox, g) = <<0, CellRow(g), CellCol(g)>>
           /\ CellRow(g) \in 0 .. grid[1] - 1 /\ CellCol(g) \in 0 .. grid[2] - 1
           /\ CellRow(g) # 0 => \E k \in 0 .. g - 1 : CellRow(k) = CellRow(g) - 1
           /\ CellCol(g) # 0 => \E k \in 0 .. g - 1 : CellCol(k) = CellCol(g) - 1
           /\ g = NumGroups - 1 => CellRow(g) = grid[1] - 1 /\ CellCol(g) = grid[2] - 1
  <1> DEFINE h == grid[1]
             w == grid[2]
             q == g \div w
             r == g % w
  <1>1. h \in Nat \ {0} /\ w \in Nat \ {0} /\ NumGroups = h * w
    BY FrameFacts DEF NumGroups
  <1>2. BoxCell(ImageBox, g) = <<g \div (h * w), (g \div w) % h, g % w>>
    BY DEF BoxCell, ImageBox
  <1>3. CellRow(g) = q /\ CellCol(g) = r
    BY DEF CellRow, CellCol
  <1>4. \A k : CellRow(k) = k \div w /\ CellCol(k) = k % w
    BY DEF CellRow, CellCol
  <1> HIDE DEF h, w
  <1>5. g \in 0 .. h * w - 1 /\ g \in Nat
    BY <1>1
  <1>6. q \in 0 .. h - 1 /\ r \in 0 .. w - 1 /\ q * w + r = g
    BY <1>1, <1>5, DigitsOf
  <1>7. g \div (h * w) = 0
    <2> DEFINE hw == h * w
    <2>1. hw \in Nat \ {0} /\ g \in 0 .. hw - 1
      BY <1>1, <1>5
    <2> HIDE DEF hw
    <2>2. 0 * hw + g = g
      BY <2>1, <1>5
    <2>3. (0 * hw + g) \div hw = 0
      BY <2>1, RowAndPlace
    <2> QED BY <2>2, <2>3 DEF hw
  <1>8. q % h = q
    <2> HIDE DEF q
    <2>1. (0 * h + q) % h = q /\ 0 * h + q = q
      <3>1. 0 * h + q = q
        BY <1>1, <1>6
      <3> QED BY <1>1, <1>6, <3>1, RowAndPlace
    <2> QED BY <2>1
  <1>9. BoxCell(ImageBox, g) = <<0, q, r>>
    BY <1>2, <1>7, <1>8
  <1> HIDE DEF q, r
  <1>10. ASSUME q # 0 PROVE \E k \in 0 .. g - 1 : CellRow(k) = q - 1
    <2> DEFINE k == (q - 1) * w + r
               u == q * w
    <2>1. q - 1 \in Nat
      BY <1>6, <1>10
    <2>2. k \in Nat /\ k \div w = q - 1
      BY <1>1, <1>6, <2>1, RowAndPlace
    <2>3. ((q - 1) + 1) * w = (q - 1) * w + w /\ (q - 1) + 1 = q
      BY <1>1, <1>6, <2>1, NextRow
    <2>4. k + w = g
      <3> DEFINE v == (q - 1) * w
      <3>1. v \in Nat
        BY <1>1, <2>1, ProductNat
      <3>2. u = v + w /\ u + r = g
        BY <1>6, <2>3
      <3> HIDE DEF u, v
      <3>3. v + r + w = g
        BY <1>1, <1>6, <3>1, <3>2
      <3> QED BY <3>3 DEF v
    <2> HIDE DEF k
    <2>5. k \in 0 .. g - 1
      BY <1>1, <1>5, <2>2, <2>4
    <2> QED BY <1>4, <2>2, <2>5
  <1>11. ASSUME r # 0 PROVE \E k \in 0 .. g - 1 : CellCol(k) = r - 1
    <2> DEFINE k == q * w + (r - 1)
               u == q * w
    <2>1. r - 1 \in 0 .. w - 1 /\ q \in Nat
      BY <1>1, <1>6, <1>11
    <2>2. k \in Nat /\ k % w = r - 1
      BY <1>1, <2>1, RowAndPlace
    <2>3. k + 1 = g
      <3>1. u \in Nat /\ u + r = g
        BY <1>1, <1>6, <2>1, ProductNat
      <3> HIDE DEF u
      <3>2. u + (r - 1) + 1 = g
        BY <1>6, <3>1
      <3> QED BY <3>2 DEF u
    <2> HIDE DEF k
    <2>4. k \in 0 .. g - 1
      BY <1>5, <2>2, <2>3
    <2> QED BY <1>4, <2>2, <2>4
  <1>12. ASSUME g = NumGroups - 1 PROVE q = h - 1 /\ r = w - 1
    <2>1. h - 1 \in Nat /\ w - 1 \in 0 .. w - 1
      BY <1>1
    <2>2. ((h - 1) * w + (w - 1)) \div w = h - 1 /\ ((h - 1) * w + (w - 1)) % w = w - 1
      BY <1>1, <2>1, RowAndPlace
    <2>3. ((h - 1) + 1) * w = (h - 1) * w + w /\ (h - 1) + 1 = h
      BY <1>1, <2>1, NextRow
    <2>4. (h - 1) * w + (w - 1) = g
      <3> DEFINE v == (h - 1) * w
      <3>1. v \in Nat
        BY <1>1, <2>1, ProductNat
      <3>2. g = h * w - 1 /\ h * w = v + w
        BY <1>1, <1>12, <2>3
      <3> HIDE DEF v
      <3>3. v + (w - 1) = g
        BY <1>1, <3>1, <3>2
      <3> QED BY <3>3 DEF v
    <2> QED BY <2>2, <2>4 DEF q, r
  <1> QED BY <1>3, <1>6, <1>9, <1>10, <1>11, <1>12 DEF h, w

\* Tokens that are given the positions of others, moved on by o, are in place behind
\* a context whose front has moved on by as much.
\* The front of a part is that of the part by itself, moved on by o.
LeadsBy(F, E, t, o, n) == \A j \in 0 .. n : F[t + j] = o + E[j]

\* Past the first m the tokens are those past the first s of another, moved on by o.
Continued(more, Q, own, R, m, s, n, o) ==
    \A j \in 1 .. n : /\ more[m + j] = own[s + j]
                     /\ Q[m + j] = [d \in 1 .. 3 |-> R[s + j][d] + o]

LEMMA PlacedGrow ==
    ASSUME BundleFixed, NEW m \in Nat, NEW F, NEW items, NEW P, Placed(ImageBox, items, P, F, m),
           NEW k \in Nat, NEW E, NEW own, NEW R, Placed(ImageBox, own, R, E, k),
           NEW t \in 0 .. m, NEW n \in Nat, (m - t) + n <= k,
           NEW o \in Int, LeadsBy(F, E, t, o, m - t),
           NEW more, NEW Q, AlikeTo(more, items, m), AlikeTo(Q, P, m),
           Continued(more, Q, own, R, m, m - t, n, o)
    PROVE  \E G : Placed(ImageBox, more, Q, G, m + n) /\ LeadsBy(G, E, t, o, (m - t) + n)
  <1> DEFINE G == [i \in 0 .. m + n |-> IF i <= m THEN F[i] ELSE o + E[i - t]]
             s == m - t
  <1>1. /\ F \in [0 .. m -> Nat] /\ F[0] = 0
        /\ \A i \in 1 .. m : P[i] \in Positions /\ F[i] = Max2(F[i - 1], 1 + Top(P[i])) /\ InPlace(ImageBox, items, P, F, i)
    BY DEF Placed, Fronts
  <1>2. /\ E \in [0 .. k -> Nat] /\ E[0] = 0
        /\ \A i \in 1 .. k : R[i] \in Positions /\ E[i] = Max2(E[i - 1], 1 + Top(R[i])) /\ InPlace(ImageBox, own, R, E, i)
    BY DEF Placed, Fronts
  <1>3. s \in Nat /\ t \in Nat /\ t + s = m /\ s + n <= k
    OBVIOUS
  <1>4. \A j \in 0 .. s : F[t + j] = o + E[j]
    BY DEF LeadsBy
  <1>5. \A j \in 1 .. n : more[m + j] = own[s + j] /\ Q[m + j] = [d \in 1 .. 3 |-> R[s + j][d] + o]
    BY DEF Continued
  <1> HIDE DEF G, s
  <1>6. o \in Nat
    <2>1. 0 \in 0 .. s /\ t + 0 = t /\ t \in 0 .. m
      BY <1>3
    <2>2. F[t] = o + E[0] /\ F[t] \in Nat
      BY <1>1, <1>4, <2>1
    <2> QED BY <1>2, <2>2
  <1>7. ASSUME NEW i \in 0 .. m PROVE G[i] = F[i]
    <2>1. i \in 0 .. m + n /\ i <= m
      OBVIOUS
    <2> QED BY <2>1 DEF G
  <1>8. ASSUME NEW j \in 0 .. s + n PROVE G[t + j] = o + E[j] /\ E[j] \in Nat /\ t + j \in 0 .. m + n
    <2>0. E[j] \in Nat /\ t + j \in 0 .. m + n
      <3>1. j \in 0 .. k
        BY <1>3
      <3> QED BY <1>2, <1>3, <3>1
    <2>1. CASE j <= s
      <3>1. j \in 0 .. s /\ t + j \in 0 .. m
        BY <1>3, <2>1
      <3> QED BY <1>4, <1>7, <2>0, <3>1
    <2>2. CASE ~ (j <= s)
      <3>1. t + j \in 0 .. m + n /\ ~ (t + j <= m) /\ (t + j) - t = j
        BY <1>3, <2>2
      <3>2. G[t + j] = IF t + j <= m THEN F[t + j] ELSE o + E[(t + j) - t]
        BY <3>1 DEF G
      <3> QED BY <2>0, <3>1, <3>2
    <2> QED BY <2>1, <2>2
  <1>9. G \in [0 .. m + n -> Nat]
    <2>1. ASSUME NEW i \in 0 .. m + n PROVE G[i] \in Nat
      <3>1. CASE i <= m
        <4>1. i \in 0 .. m
          BY <3>1
        <4> QED BY <1>1, <1>7, <4>1
      <3>2. CASE ~ (i <= m)
        <4>1. i - t \in 0 .. s + n /\ t + (i - t) = i
          BY <1>3, <3>2
        <4>2. G[i] = o + E[i - t] /\ E[i - t] \in Nat
          BY <1>8, <4>1
        <4> QED BY <1>6, <4>2
      <3> QED BY <3>1, <3>2
    <2> QED BY <2>1 DEF G
  <1>10. G[0] = 0
    <2>1. 0 \in 0 .. m
      OBVIOUS
    <2> QED BY <1>1, <1>7, <2>1
  <1>11. ASSUME NEW i \in 1 .. m
         PROVE  Q[i] \in Positions /\ G[i] = Max2(G[i - 1], 1 + Top(Q[i])) /\ InPlace(ImageBox, more, Q, G, i)
    <2>1. Q[i] = P[i] /\ more[i] = items[i]
      BY DEF AlikeTo
    <2>2. i - 1 \in 0 .. m /\ i \in 0 .. m
      OBVIOUS
    <2>3. G[i] = F[i] /\ G[i - 1] = F[i - 1]
      BY <1>7, <2>2
    <2> DEFINE g == GroupOf(more[i])
    <2>4. g \in 0 .. i - 1 => G[i - 1 - g] = F[i - 1 - g]
      <3>1. g \in 0 .. i - 1 => i - 1 - g \in 0 .. m
        <4> HIDE DEF g
        <4> QED OBVIOUS
      <3> QED BY <1>7, <3>1
    <2>5. InPlace(ImageBox, items, P, F, i)
      BY <1>1
    <2>6. InPlace(ImageBox, more, Q, G, i)
      BY <2>1, <2>3, <2>4, <2>5, Zenon DEF InPlace
    <2> QED BY <1>1, <2>1, <2>3, <2>6
  <1>12. ASSUME NEW l \in 1 .. n
         PROVE  /\ Q[m + l] \in Positions /\ G[m + l] = Max2(G[(m + l) - 1], 1 + Top(Q[m + l]))
                /\ InPlace(ImageBox, more, Q, G, m + l)
    <2> DEFINE j == s + l
               i == m + l
               p == Q[i]
               x == R[j]
    <2>1. /\ j \in 1 .. k /\ j - 1 \in 0 .. s + n /\ j \in 0 .. s + n /\ t + j = i /\ t + (j - 1) = i - 1
          /\ i \in 1 .. m + n /\ j \in Nat /\ i \in Nat
      BY <1>3
    <2>2. more[i] = own[j] /\ p = [d \in 1 .. 3 |-> x[d] + o]
      BY <1>5
    <2>3. x \in Positions /\ E[j] = Max2(E[j - 1], 1 + Top(x)) /\ InPlace(ImageBox, own, R, E, j)
      BY <1>2, <2>1
    <2>4. G[i] = o + E[j] /\ G[i - 1] = o + E[j - 1] /\ E[j] \in Nat /\ E[j - 1] \in Nat
      BY <1>8, <2>1
    <2> HIDE DEF p, x, j, i
    <2>5. p \in Positions /\ p[1] = x[1] + o /\ p[2] = x[2] + o /\ p[3] = x[3] + o
      <3>1. \A d \in 1 .. 3 : x[d] + o \in Nat
        BY <1>6, <2>3 DEF Positions
      <3> QED BY <2>2, <3>1 DEF Positions
    <2>6. Top(p) = Top(x) + o
      <3> DEFINE a == x[1]
                 b == x[2]
                 c == x[3]
      <3>1. a \in Nat /\ b \in Nat /\ c \in Nat
        BY <2>3, TopFacts
      <3>2. Top(p) = Max2(a + o, Max2(b + o, c + o)) /\ Top(x) = Max2(a, Max2(b, c))
        BY <2>5 DEF Top
      <3> HIDE DEF a, b, c
      <3> QED BY <1>6, <3>1, <3>2 DEF Max2
    <2>7. G[i] = Max2(G[i - 1], 1 + Top(p))
      <3> DEFINE u == Top(x)
                 e == E[j - 1]
      <3>1. u \in Nat /\ e \in Nat
        BY <2>3, <2>4, TopFacts
      <3>2. G[i] = o + Max2(e, 1 + u) /\ G[i - 1] = o + e /\ Top(p) = u + o
        BY <2>3, <2>4, <2>6
      <3> HIDE DEF u, e
      <3>3. o + Max2(e, 1 + u) = Max2(o + e, 1 + (u + o))
        BY <1>6, <3>1 DEF Max2
      <3> QED BY <3>2, <3>3
    <2>8. InPlace(ImageBox, more, Q, G, i)
      <3> DEFINE g == GroupOf(own[j])
      <3>1. CASE own[j].tok = ImagePad
        <4>1. g \in 0 .. j - 1 /\ x = [d \in 1 .. 3 |-> E[j - 1 - g] + BoxCell(ImageBox, g)[d]]
          BY <2>3, <3>1 DEF InPlace, x
        <4> HIDE DEF g
        <4>2. /\ g \in 0 .. i - 1 /\ g \in Nat /\ j - 1 - g \in 0 .. s + n /\ t + (j - 1 - g) = i - 1 - g
          <5>1. t + (j - 1 - g) = i - 1 - g
            BY <1>3, <2>1, <4>1
          <5>2. i = t + j
            BY <2>1
          <5>3. g \in 0 .. i - 1 /\ g \in Nat
            BY <1>3, <2>1, <4>1, <5>2
          <5>4. j - 1 - g \in 0 .. s + n
            BY <1>3, <2>1, <4>1
          <5> QED BY <5>1, <5>3, <5>4
        <4>3. G[i - 1 - g] = o + E[j - 1 - g] /\ E[j - 1 - g] \in Nat
          BY <1>8, <4>2
        <4>4. ASSUME NEW d \in 1 .. 3 PROVE x[d] + o = G[i - 1 - g] + BoxCell(ImageBox, g)[d]
          <5> DEFINE c == BoxCell(ImageBox, g)[d]
                     e == E[j - 1 - g]
          <5>1. c \in Nat /\ x[d] = e + c
            BY <4>1, <4>2, CellNat
          <5> HIDE DEF c, e
          <5>2. (e + c) + o = (o + e) + c
            BY <1>6, <4>3, <5>1 DEF e
          <5> QED BY <4>3, <5>1, <5>2 DEF c, e
        <4>5. p = [d \in 1 .. 3 |-> G[i - 1 - g] + BoxCell(ImageBox, g)[d]]
          BY <2>2, <4>4
        <4> QED BY <2>2, <3>1, <4>2, <4>5 DEF InPlace, g, p
      <3>2. CASE own[j].tok # ImagePad
        <4>1. x = [d \in 1 .. 3 |-> E[j - 1]]
          BY <2>3, <3>2 DEF InPlace, x
        <4>2. \A d \in 1 .. 3 : x[d] + o = G[i - 1]
          BY <1>6, <2>4, <4>1
        <4>3. p = [d \in 1 .. 3 |-> G[i - 1]]
          BY <2>2, <4>2
        <4> QED BY <2>2, <3>2, <4>3 DEF InPlace, p
      <3> QED BY <3>1, <3>2
    <2> QED BY <2>5, <2>7, <2>8 DEF p, i
  <1>13. ASSUME NEW i \in 1 .. m + n
         PROVE  Q[i] \in Positions /\ G[i] = Max2(G[i - 1], 1 + Top(Q[i])) /\ InPlace(ImageBox, more, Q, G, i)
    <2>1. CASE i <= m
      <3>1. i \in 1 .. m
        BY <2>1
      <3> QED BY <1>11, <3>1
    <2>2. CASE ~ (i <= m)
      <3>1. i - m \in 1 .. n /\ m + (i - m) = i
        BY <2>2
      <3> QED BY <1>12, <3>1
    <2> QED BY <2>1, <2>2
  <1>14. Placed(ImageBox, more, Q, G, m + n)
    BY <1>9, <1>10, <1>13 DEF Placed, Fronts
  <1>15. LeadsBy(G, E, t, o, (m - t) + n)
    BY <1>8 DEF s, LeadsBy
  <1> QED BY <1>14, <1>15
-----------------------------------------------------------------------------
(* computeMRoPEPositions on a prompt.                                      *)

\* Within an image, before its pad token of group g: the box begins where the front was
\* before the first of them, and the counter waits past it.
Filling(s, F, i, g) ==
    /\ g \in 0 .. NumGroups - 1 /\ g <= i
    /\ s.box = [grid |-> ImageBox, at |-> F[i - g], used |-> g]
    /\ s.st = F[i - g] + PastBox(ImageBox)
    /\ F[i - g] <= F[i] /\ F[i] <= s.st
    /\ \A k \in 0 .. g - 1 : F[i - g] + CellRow(k) < F[i] /\ F[i - g] + CellCol(k) < F[i]

PadNext(items, i) == i + 1 \in DOMAIN items /\ items[i + 1].tok = ImagePad

Scanned(items, s, F, i) ==
    /\ Placed(ImageBox, items, s.pos, F, i) /\ Steady(F, i)
    /\ IF PadNext(items, i) THEN Filling(s, F, i, GroupOf(items[i + 1])) ELSE s.st = F[i]

ScanAt(items, images, s, i) ==
    /\ s \in Scans /\ Len(s.pos) = i
    /\ Len(s.left) = images - Count(Starts(items), i)
    /\ \A j \in 1 .. Len(s.left) : s.left[j] = ImageBox
    /\ \E F : Scanned(items, s, F, i)

\* One step as one assignment.
LEMMA FillStep ==
    ASSUME NEW s \in Scans, NEW start, NEW image,
           s.box.used < s.box.grid[1] * s.box.grid[2] * s.box.grid[3],
           NEW p, p = [d \in 1 .. 3 |-> s.box.at + BoxCell(s.box.grid, s.box.used)[d]]
    PROVE  MRoPEStep(s, image, start, image) =
             [pos |-> Append(s.pos, p), st |-> s.st, left |-> s.left,
              box |-> [grid |-> s.box.grid, at |-> s.box.at, used |-> s.box.used + 1]]
  <1> DEFINE a == Append(s.pos, p)
             b == s.box
             box == [grid |-> b.grid, at |-> b.at, used |-> b.used + 1]
  <1>1. s = [pos |-> s.pos, st |-> s.st, left |-> s.left, box |-> s.box] /\ b \in Boxes
    BY DEF Scans
  <1>2. MRoPEStep(s, image, start, image) = [s EXCEPT !.pos = Append(@, p), !.box.used = @ + 1]
    BY DEF MRoPEStep
  <1>3. [b EXCEPT !.used = @ + 1] = box
    <2>1. b = [grid |-> b.grid, at |-> b.at, used |-> b.used]
      BY <1>1 DEF Boxes
    <2> DEFINE x == b.grid
               y == b.at
               z == b.used
    <2> HIDE DEF b
    <2> QED BY <2>1
  <1>4. [s EXCEPT !.pos = Append(@, p), !.box.used = @ + 1]
          = [s EXCEPT !.pos = a, !.box = [b EXCEPT !.used = @ + 1]]
    OBVIOUS
  <1>5. [s EXCEPT !.pos = a, !.box = box] = [pos |-> a, st |-> s.st, left |-> s.left, box |-> box]
    <2> DEFINE q == s.pos
               t == s.st
               l == s.left
    <2>1. s = [pos |-> q, st |-> t, left |-> l, box |-> b]
      BY <1>1
    <2> HIDE DEF a, box, q, t, l, b
    <2>2. [s EXCEPT !.pos = a, !.box = box] = [[s EXCEPT !.pos = a] EXCEPT !.box = box]
      BY <2>1
    <2>3. [s EXCEPT !.pos = a] = [pos |-> a, st |-> t, left |-> l, box |-> b]
      BY <2>1
    <2>4. [[pos |-> a, st |-> t, left |-> l, box |-> b] EXCEPT !.box = box]
            = [pos |-> a, st |-> t, left |-> l, box |-> box]
      OBVIOUS
    <2> QED BY <2>2, <2>3, <2>4 DEF t, l
  <1> QED BY <1>2, <1>3, <1>4, <1>5

LEMMA TextStep ==
    ASSUME NEW s \in Scans, NEW tok, NEW start, NEW image, tok # image
    PROVE  MRoPEStep(s, tok, start, image) =
             IF tok = start /\ s.left # <<>>
               THEN [pos |-> Append(s.pos, <<s.st, s.st, s.st>>), st |-> s.st + 1 + PastBox(Head(s.left)),
                     left |-> Tail(s.left), box |-> [grid |-> Head(s.left), at |-> s.st + 1, used |-> 0]]
               ELSE [pos |-> Append(s.pos, <<s.st, s.st, s.st>>), st |-> s.st + 1 + 0,
                     left |-> s.left, box |-> NoBox]
  BY DEF MRoPEStep

LEMMA AppendFacts ==
    ASSUME NEW S, NEW s \in Seq(S), NEW x \in S
    PROVE  /\ Append(s, x) \in Seq(S) /\ Len(Append(s, x)) = Len(s) + 1 /\ Append(s, x)[Len(s) + 1] = x
           /\ \A i \in 1 .. Len(s) : Append(s, x)[i] = s[i]
  BY AppendProperties

\* A front that a token moves on by one stays steady.
LEMMA SteadyNext ==
    ASSUME NEW n \in Nat, NEW F, Steady(F, n), NEW E, \A i \in 0 .. n : E[i] = F[i], E[n + 1] <= F[n] + 1
    PROVE  Steady(E, n + 1)
  <1> SUFFICES ASSUME NEW i \in 1 .. n + 1 PROVE E[i] <= E[i - 1] + 1
    BY DEF Steady
  <1>1. CASE i = n + 1
    <2>1. n \in 0 .. n /\ (n + 1) - 1 = n
      OBVIOUS
    <2> QED BY <1>1, <2>1
  <1>2. CASE i # n + 1
    <2>1. i \in 1 .. n /\ i \in 0 .. n /\ i - 1 \in 0 .. n
      BY <1>2
    <2>2. F[i] <= F[i - 1] + 1
      BY <2>1 DEF Steady
    <2> QED BY <2>1, <2>2
  <1> QED BY <1>1, <1>2

\* The images not begun are as many as vision-start tokens to come.
LEMMA StartsAhead ==
    ASSUME NEW items, NEW images, Formed(items, images), NEW i \in Nat, i + 1 <= Len(items)
    PROVE  /\ i + 1 \in 1 .. Len(items) /\ DOMAIN items = 1 .. Len(items) /\ PadsFollow(items, i + 1)
           /\ items \in Seq(Items) /\ Len(items) \in Nat /\ images \in Nat
           /\ Count(Starts(items), i) \in Nat
           /\ items[i + 1].tok = VisionStart =>
                /\ Count(Starts(items), i + 1) = Count(Starts(items), i) + 1
                /\ images - Count(Starts(items), i) \in Nat \ {0}
           /\ items[i + 1].tok # VisionStart => Count(Starts(items), i + 1) = Count(Starts(items), i)
  <1> DEFINE K == Starts(items)
             n == Len(items)
  <1>1. items \in Seq(Items) /\ images \in Nat /\ Count(K, n) = images /\ \A l \in 1 .. n : PadsFollow(items, l)
    BY DEF Formed
  <1>2. n \in Nat /\ DOMAIN items = 1 .. n
    <2> HIDE DEF Items
    <2> QED BY <1>1
  <1>3. i + 1 \in 1 .. n
    BY <1>2
  <1>4. i + 1 \in K <=> items[i + 1].tok = VisionStart
    BY <1>2, <1>3 DEF Starts
  <1> HIDE DEF K, n
  <1>5. /\ Count(K, i) \in 0 .. i
        /\ Count(K, i + 1) = Count(K, i) + (IF i + 1 \in K THEN 1 ELSE 0)
    BY CountFacts
  <1>6. Count(K, i + 1) <= images
    <2>1. i + 1 \in Nat /\ i + 1 <= n
      BY <1>2, <1>3
    <2> QED BY <1>1, <1>2, <2>1, CountMonotone
  <1>7. items[i + 1].tok = VisionStart =>
          Count(K, i + 1) = Count(K, i) + 1 /\ images - Count(K, i) \in Nat \ {0}
    <2> DEFINE c == Count(K, i)
    <2>1. c \in Nat
      BY <1>5
    <2>2. i + 1 \in K => Count(K, i + 1) = c + 1
      BY <1>5
    <2> HIDE DEF c
    <2>3. i + 1 \in K => c + 1 <= images
      BY <1>6, <2>2
    <2>4. i + 1 \in K => images - c \in Nat \ {0}
      BY <1>1, <2>1, <2>3
    <2> QED BY <1>4, <2>2, <2>4 DEF c
  <1>8. items[i + 1].tok # VisionStart => Count(K, i + 1) = Count(K, i)
    <2> DEFINE c == Count(K, i)
    <2>1. i + 1 \notin K => Count(K, i + 1) = c + 0
      BY <1>5
    <2>2. c \in Nat
      BY <1>5
    <2> HIDE DEF c
    <2> QED BY <1>4, <2>1, <2>2 DEF c
  <1>9. Count(K, i) \in Nat
    BY <1>5
  <1> QED BY <1>1, <1>2, <1>3, <1>7, <1>8, <1>9 DEF K, n

LEMMA CornerPast ==
    ASSUME NEW at \in Nat, NEW r \in Nat, NEW c \in Nat, NEW h \in Nat, NEW w \in Nat, NEW t \in Nat,
           r <= h - 1, c <= w - 1, at + 1 <= t, at + h <= t, at + w <= t
    PROVE  at <= t - 1 /\ at + r <= t - 1 /\ at + c <= t - 1 /\ t - 1 \in Int
  OBVIOUS

\* A token outside an image goes to the front, and moves it on by one.
LEMMA ScanText ==
    ASSUME NEW items, NEW i \in Nat, i + 1 \in DOMAIN items, items[i + 1].tok # ImagePad,
           NEW s \in Scans, Len(s.pos) = i, NEW F, Scanned(items, s, F, i),
           NEW pos, AlikeTo(pos, s.pos, i), pos[i + 1] = <<s.st, s.st, s.st>>
    PROVE  \E E : /\ Placed(ImageBox, items, pos, E, i + 1) /\ Steady(E, i + 1) /\ E[i + 1] = s.st + 1
  <1> DEFINE p == <<s.st, s.st, s.st>>
             E == Onward(F, i, p)
  <1>1. Placed(ImageBox, items, s.pos, F, i) /\ Steady(F, i) /\ s.st = F[i]
    BY DEF Scanned, PadNext
  <1>2. s.pos \in Seq(Positions) /\ s.st \in Nat
    BY DEF Scans
  <1>3. p \in Positions /\ p = [d \in 1 .. 3 |-> F[i]] /\ p[1] = s.st /\ p[2] = s.st /\ p[3] = s.st
    BY <1>1, <1>2 DEF Positions
  <1> HIDE DEF p, Positions
  <1>4. pos[i + 1] = p
    BY DEF p
  <1>5. InPlace(ImageBox, items, pos, F, i + 1)
    <2>1. (i + 1) - 1 = i
      OBVIOUS
    <2> QED BY <1>3, <1>4, <2>1 DEF InPlace
  <1>6. /\ Placed(ImageBox, items, pos, E, i + 1) /\ E[i + 1] = Max2(F[i], 1 + Top(p))
        /\ \A j \in 0 .. i : E[j] = F[j]
    <2> DEFINE P == s.pos
    <2>1. Placed(ImageBox, items, P, F, i) /\ AlikeTo(pos, P, i) /\ AlikeTo(items, items, i)
      BY <1>1 DEF AlikeTo
    <2>2. pos[i + 1] \in Positions
      BY <1>3, <1>4
    <2> HIDE DEF P, E
    <2>3. Placed(ImageBox, items, pos, Onward(F, i, pos[i + 1]), i + 1)
      BY <1>5, <2>1, <2>2, PlacedNext
    <2>4. Onward(F, i, pos[i + 1])[i + 1] = Max2(F[i], 1 + Top(pos[i + 1]))
      BY <1>5, <2>1, <2>2, PlacedNext
    <2>5. Onward(F, i, pos[i + 1])[i + 1] \in Nat
      BY <1>5, <2>1, <2>2, PlacedNext
    <2>6. \A j \in 0 .. i : Onward(F, i, pos[i + 1])[j] = F[j]
      BY <1>5, <2>1, <2>2, PlacedNext
    <2> QED BY <1>4, <2>3, <2>4, <2>5, <2>6 DEF E
  <1>7. Top(p) = s.st
    BY <1>2, <1>3 DEF Top, Max2
  <1>8. E[i + 1] = s.st + 1
    BY <1>1, <1>2, <1>6, <1>7 DEF Max2
  <1> HIDE DEF E
  <1>9. Steady(E, i + 1)
    <2>1. E[i + 1] <= F[i] + 1
      BY <1>1, <1>2, <1>8
    <2> QED BY <1>1, <1>6, <2>1, SteadyNext
  <1> QED BY <1>6, <1>8, <1>9

\* So does a pad token, into its cell; after the last one the front has reached the counter.
LEMMA ScanPad ==
    ASSUME BundleFixed, NEW items, NEW i \in Nat, PadNext(items, i), NEW g, g = GroupOf(items[i + 1]),
           NEW s \in Scans, Len(s.pos) = i, NEW F, Scanned(items, s, F, i),
           NEW p, p = [d \in 1 .. 3 |-> s.box.at + BoxCell(ImageBox, g)[d]],
           NEW pos, AlikeTo(pos, s.pos, i), pos[i + 1] = p
    PROVE  \E E : /\ Placed(ImageBox, items, pos, E, i + 1) /\ Steady(E, i + 1)
                  /\ g \in 0 .. NumGroups - 1 /\ g <= i
                  /\ \A j \in 0 .. i : E[j] = F[j]
                  /\ E[i - g] <= E[i + 1] /\ E[i + 1] <= s.st
                  /\ \A k \in 0 .. g : E[i - g] + CellRow(k) < E[i + 1] /\ E[i - g] + CellCol(k) < E[i + 1]
                  /\ g = NumGroups - 1 => E[i + 1] = s.st
  <1> DEFINE E == Onward(F, i, p)
             at == F[i - g]
             f == F[i]
             r == CellRow(g)
             c == CellCol(g)
             h == grid[1]
             w == grid[2]
             e == E[i + 1]
  <1>1. /\ Placed(ImageBox, items, s.pos, F, i) /\ Steady(F, i) /\ items[i + 1].tok = ImagePad
        /\ Filling(s, F, i, g)
    BY DEF Scanned, PadNext
  <1>2. /\ g \in 0 .. NumGroups - 1 /\ g <= i /\ s.box.at = at /\ s.st = at + PastBox(ImageBox)
        /\ at <= f /\ f <= s.st
        /\ \A k \in 0 .. g - 1 : at + CellRow(k) < f /\ at + CellCol(k) < f
    BY <1>1 DEF Filling
  <1>3. g \in Nat /\ i - g \in 0 .. i /\ NumGroups \in Nat
    BY <1>2, FrameFacts
  <1>4. at \in Nat /\ f \in Nat
    <2>1. F \in [0 .. i -> Nat]
      BY <1>1 DEF Placed, Fronts
    <2> QED BY <1>3, <2>1
  <1>5. /\ BoxCell(ImageBox, g) = <<0, r, c>> /\ r \in 0 .. h - 1 /\ c \in 0 .. w - 1
        /\ r # 0 => \E k \in 0 .. g - 1 : CellRow(k) = r - 1
        /\ c # 0 => \E k \in 0 .. g - 1 : CellCol(k) = c - 1
        /\ g = NumGroups - 1 => r = h - 1 /\ c = w - 1
    BY <1>2, CellFacts
  <1>6. h \in Nat \ {0} /\ w \in Nat \ {0} /\ PastBox(ImageBox) = Max2(1, Max2(h, w))
    BY FrameFacts DEF PastBox
  <1> HIDE DEF at, f, r, c, h, w
  <1>0. r \in Nat /\ c \in Nat /\ r <= h - 1 /\ c <= w - 1
    BY <1>5, <1>6
  <1>7. p \in Positions /\ p[1] = at /\ p[2] = at + r /\ p[3] = at + c
    <2>1. p = [d \in 1 .. 3 |-> at + <<0, r, c>>[d]]
      BY <1>2, <1>5
    <2>2. at + 0 = at /\ at + r \in Nat /\ at + c \in Nat
      BY <1>4, <1>5, <1>6
    <2>3. p[1] = at /\ p[2] = at + r /\ p[3] = at + c
      BY <2>1, <2>2
    <2>4. \A d \in 1 .. 3 : p[d] \in Nat
      BY <1>4, <2>2, <2>3
    <2>5. p = [d \in 1 .. 3 |-> p[d]]
      BY <2>1
    <2> QED BY <2>3, <2>4, <2>5 DEF Positions
  <1>9. pos[i + 1] = p
    OBVIOUS
  <1>10. InPlace(ImageBox, items, pos, F, i + 1)
    <2>1. (i + 1) - 1 = i /\ g \in 0 .. i /\ (i + 1) - 1 - g = i - g
      BY <1>2, <1>3
    <2>2. pos[i + 1] = [d \in 1 .. 3 |-> F[i - g] + BoxCell(ImageBox, g)[d]]
      BY <1>2, <1>9 DEF at
    <2> QED BY <1>1, <2>1, <2>2 DEF InPlace
  <1>11. /\ Placed(ImageBox, items, pos, E, i + 1) /\ e = Max2(f, 1 + Top(p)) /\ e \in Nat
         /\ \A j \in 0 .. i : E[j] = F[j]
    <2> DEFINE P == s.pos
    <2>1. Placed(ImageBox, items, P, F, i) /\ AlikeTo(pos, P, i) /\ AlikeTo(items, items, i)
      BY <1>1 DEF AlikeTo
    <2>2. pos[i + 1] \in Positions
      BY <1>7, <1>9
    <2> HIDE DEF P, E
    <2>3. Placed(ImageBox, items, pos, Onward(F, i, pos[i + 1]), i + 1)
      BY <1>10, <2>1, <2>2, PlacedNext
    <2>4. Onward(F, i, pos[i + 1])[i + 1] = Max2(F[i], 1 + Top(pos[i + 1]))
      BY <1>10, <2>1, <2>2, PlacedNext
    <2>5. Onward(F, i, pos[i + 1])[i + 1] \in Nat
      BY <1>10, <2>1, <2>2, PlacedNext
    <2>6. \A j \in 0 .. i : Onward(F, i, pos[i + 1])[j] = F[j]
      BY <1>10, <2>1, <2>2, PlacedNext
    <2> QED BY <1>9, <2>3, <2>4, <2>5, <2>6 DEF E, e, f
  <1> HIDE DEF E, e
  <1>12. /\ Top(p) \in Nat /\ at <= Top(p) /\ at + r <= Top(p) /\ at + c <= Top(p)
         /\ \A u \in Int : at <= u /\ at + r <= u /\ at + c <= u => Top(p) <= u
    BY <1>7, TopFacts
  <1>13. f <= e /\ 1 + Top(p) <= e /\ (e = f \/ e = 1 + Top(p))
    BY <1>4, <1>11, <1>12 DEF Max2
  <1>14. at + r <= f /\ at + c <= f
    <2>1. ASSUME r # 0 PROVE at + r <= f
      <3>1. PICK k \in 0 .. g - 1 : CellRow(k) = r - 1
        BY <1>5, <2>1
      <3>2. at + CellRow(k) < f
        BY <1>2
      <3>3. at + (r - 1) < f
        BY <3>1, <3>2
      <3> QED BY <1>0, <1>4, <3>3
    <2>2. ASSUME c # 0 PROVE at + c <= f
      <3>1. PICK k \in 0 .. g - 1 : CellCol(k) = c - 1
        BY <1>5, <2>2
      <3>2. at + CellCol(k) < f
        BY <1>2
      <3>3. at + (c - 1) < f
        BY <3>1, <3>2
      <3> QED BY <1>0, <1>4, <3>3
    <2> QED BY <1>2, <1>4, <2>1, <2>2
  <1>15. e <= f + 1
    <2>1. Top(p) <= f
      BY <1>2, <1>4, <1>12, <1>14
    <2> QED BY <1>4, <1>12, <1>13, <2>1
  <1>16. s.st \in Nat /\ at + 1 <= s.st /\ at + h <= s.st /\ at + w <= s.st
         /\ (s.st = at + 1 \/ s.st = at + h \/ s.st = at + w)
    BY <1>2, <1>4, <1>6 DEF Max2
  <1>17. e <= s.st
    <2> DEFINE t == s.st
    <2>0. t \in Nat /\ at + 1 <= t /\ at + h <= t /\ at + w <= t /\ f <= t
      BY <1>2, <1>16
    <2>00. h \in Nat /\ w \in Nat
      BY <1>6
    <2> HIDE DEF t
    <2>1. at <= t - 1 /\ at + r <= t - 1 /\ at + c <= t - 1 /\ t - 1 \in Int
      BY <1>0, <1>4, <2>00, <2>0, CornerPast
    <2>2. Top(p) <= t - 1
      BY <1>12, <2>1
    <2>3. e <= t
      BY <1>4, <1>12, <1>13, <2>0, <2>2
    <2> QED BY <2>3 DEF t
  <1>18. ASSUME g = NumGroups - 1 PROVE e = s.st
    <2>1. r = h - 1 /\ c = w - 1
      BY <1>5, <1>18
    <2>2. at + 1 <= e /\ at + h <= e /\ at + w <= e
      BY <1>4, <1>6, <1>11, <1>12, <1>13, <2>1
    <2> QED BY <1>11, <1>16, <1>17, <2>2
  <1>19. ASSUME NEW k \in 0 .. g PROVE at + CellRow(k) < e /\ at + CellCol(k) < e
    <2>1. CASE k = g
      <3>1. at + r < e /\ at + c < e
        BY <1>0, <1>4, <1>11, <1>12, <1>13
      <3> QED BY <2>1, <3>1 DEF r, c
    <2>2. CASE k # g
      <3>1. k \in 0 .. g - 1
        BY <1>3, <2>2
      <3>2. at + CellRow(k) < f /\ at + CellCol(k) < f
        BY <1>2, <3>1
      <3>3. CellRow(k) \in Nat /\ CellCol(k) \in Nat
        <4>1. k \in 0 .. NumGroups - 1
          BY <1>2, <1>3
        <4>2. CellRow(k) \in 0 .. grid[1] - 1 /\ CellCol(k) \in 0 .. grid[2] - 1
          BY <4>1, CellFacts
        <4> QED BY <4>2, <1>6 DEF h, w
      <3> QED BY <1>4, <1>11, <1>13, <3>2, <3>3
    <2> QED BY <2>1, <2>2
  <1>20. Steady(E, i + 1)
    <2>1. E[i + 1] <= F[i] + 1
      BY <1>15 DEF e, f
    <2> QED BY <1>1, <1>11, <2>1, SteadyNext
  <1>21. E[i - g] = at /\ at <= e
    <2>1. E[i - g] = F[i - g]
      BY <1>3, <1>11
    <2>2. at <= e
      BY <1>2, <1>4, <1>11, <1>13
    <2> QED BY <2>1, <2>2 DEF at
  <1>22. /\ E[i - g] <= E[i + 1] /\ E[i + 1] <= s.st
         /\ \A k \in 0 .. g : E[i - g] + CellRow(k) < E[i + 1] /\ E[i - g] + CellCol(k) < E[i + 1]
         /\ g = NumGroups - 1 => E[i + 1] = s.st
    BY <1>17, <1>18, <1>19, <1>21 DEF e
  <1> QED BY <1>2, <1>11, <1>20, <1>22

\* After a pad token comes the next one of its image, and after the last none.
LEMMA AfterPad ==
    ASSUME BundleFixed, NEW items, NEW images, Formed(items, images), NEW i \in Nat, PadNext(items, i),
           NEW g, g = GroupOf(items[i + 1])
    PROVE  /\ g \in 0 .. NumGroups - 1
           /\ g < NumGroups - 1 => PadNext(items, i + 1) /\ GroupOf(items[(i + 1) + 1]) = g + 1
           /\ ~ (g < NumGroups - 1) => ~ PadNext(items, i + 1)
  <1> DEFINE l == i + 1
             k == l + 1
             N == NumGroups
  <1>1. DOMAIN items = 1 .. Len(items) /\ \A j \in 1 .. Len(items) : PadsFollow(items, j)
    <2>1. items \in Seq(Items) /\ \A j \in 1 .. Len(items) : PadsFollow(items, j)
      BY DEF Formed
    <2> HIDE DEF Items
    <2> QED BY <2>1
  <1>2. l \in DOMAIN items /\ items[l].tok = ImagePad /\ l \in Nat /\ k - 1 = l /\ k = l + 1
    BY DEF PadNext
  <1>3. VisionStart # ImagePad
    BY VLMAssumption DEF VLMAssumption
  <1>4. g = GroupOf(items[l])
    OBVIOUS
  <1> HIDE DEF l, k
  <1>5. PadsFollow(items, l)
    BY <1>1, <1>2
  <1>6. g \in 0 .. N - 1
    BY <1>2, <1>4, <1>5 DEF PadsFollow
  <1>7. g < N - 1 => k \in DOMAIN items /\ items[k].tok = ImagePad /\ GroupOf(items[k]) = g + 1
    <2>1. l + 1 = k
      BY <1>2
    <2> QED BY <1>1, <1>2, <1>3, <1>4, <1>5, <2>1 DEF PadsFollow
  <1>8. ASSUME k \in DOMAIN items, items[k].tok = ImagePad PROVE g < N - 1
    <2>1. PadsFollow(items, k)
      BY <1>1, <1>8
    <2> DEFINE u == GroupOf(items[k])
               d == k - 1
    <2>2. u \in 0 .. N - 1 /\ (u = 0 => items[d].tok = VisionStart) /\ (u # 0 => GroupOf(items[d]) = u - 1)
      BY <1>8, <2>1 DEF PadsFollow
    <2>3. d = l
      BY <1>2
    <2>5. N \in Nat
      BY FrameFacts
    <2> HIDE DEF u, d, N
    <2>4. u # 0 /\ g = u - 1
      BY <1>2, <1>3, <1>4, <2>2, <2>3
    <2> QED BY <1>6, <2>2, <2>5, <2>4
  <1>9. PadNext(items, l) <=> k \in DOMAIN items /\ items[k].tok = ImagePad
    BY <1>2 DEF PadNext
  <1> QED BY <1>6, <1>7, <1>8, <1>9, Zenon DEF l, k, N

\* After any other token comes a pad token, the first one of an image, if and only if it
\* is a vision start.
LEMMA AfterText ==
    ASSUME NEW items, NEW images, Formed(items, images), NEW i \in Nat, i + 1 \in DOMAIN items,
           items[i + 1].tok # ImagePad
    PROVE  /\ PadNext(items, i + 1) <=> items[i + 1].tok = VisionStart
           /\ items[i + 1].tok = VisionStart => GroupOf(items[(i + 1) + 1]) = 0
  <1> DEFINE l == i + 1
             k == l + 1
  <1>1. DOMAIN items = 1 .. Len(items) /\ \A j \in 1 .. Len(items) : PadsFollow(items, j)
    <2>1. items \in Seq(Items) /\ \A j \in 1 .. Len(items) : PadsFollow(items, j)
      BY DEF Formed
    <2> HIDE DEF Items
    <2> QED BY <2>1
  <1>2. l \in DOMAIN items /\ items[l].tok # ImagePad /\ l \in Nat /\ k - 1 = l /\ k = l + 1
    OBVIOUS
  <1> HIDE DEF l, k
  <1>3. PadsFollow(items, l)
    BY <1>1, <1>2
  <1>4. items[l].tok = VisionStart =>
          k \in DOMAIN items /\ items[k].tok = ImagePad /\ GroupOf(items[k]) = 0
    <2>1. l + 1 = k
      BY <1>2
    <2> QED BY <1>1, <1>2, <1>3, <2>1 DEF PadsFollow
  <1>5. ASSUME k \in DOMAIN items, items[k].tok = ImagePad PROVE items[l].tok = VisionStart
    <2>1. PadsFollow(items, k)
      BY <1>1, <1>5
    <2> DEFINE d == k - 1
    <2>2. items[d].tok = VisionStart \/ items[d].tok = ImagePad
      BY <1>5, <2>1 DEF PadsFollow
    <2>3. d = l
      BY <1>2
    <2> HIDE DEF d
    <2> QED BY <1>2, <2>2, <2>3
  <1>6. PadNext(items, l) <=> k \in DOMAIN items /\ items[k].tok = ImagePad
    BY <1>2 DEF PadNext
  <1> QED BY <1>4, <1>5, <1>6, Zenon DEF l, k

LEMMA ScanStepPad ==
    ASSUME BundleFixed, NEW items, NEW images, Formed(items, images), NEW i \in Nat, PadNext(items, i),
           NEW s, ScanAt(items, images, s, i)
    PROVE  ScanAt(items, images, MRoPEStep(s, items[i + 1].tok, VisionStart, ImagePad), i + 1)
  <1> DEFINE z == MRoPEStep(s, items[i + 1].tok, VisionStart, ImagePad)
             g == GroupOf(items[i + 1])
             p == [d \in 1 .. 3 |-> s.box.at + BoxCell(ImageBox, g)[d]]
             st == s.st
             left == s.left
             pos == z.pos
  <1>1. /\ s \in Scans /\ Len(s.pos) = i /\ Len(left) = images - Count(Starts(items), i)
        /\ \A j \in 1 .. Len(left) : left[j] = ImageBox
    BY DEF ScanAt
  <1>2. PICK F : Scanned(items, s, F, i)
    BY DEF ScanAt
  <1>3. Filling(s, F, i, g)
    BY <1>2 DEF Scanned
  <1>4. items[i + 1].tok = ImagePad /\ i + 1 \in DOMAIN items
    BY DEF PadNext
  <1>5. g \in 0 .. NumGroups - 1 /\ s.box = [grid |-> ImageBox, at |-> F[i - g], used |-> g]
    BY <1>3 DEF Filling
  <1>6. s.box.grid = ImageBox /\ s.box.used = g /\ s.box.at = F[i - g]
    <2> HIDE DEF g
    <2> QED BY <1>5
  <1>7. g < ImageBox[1] * ImageBox[2] * ImageBox[3]
    <2> DEFINE h == grid[1]
               w == grid[2]
    <2>1. ImageBox[1] = 1 /\ ImageBox[2] = h /\ ImageBox[3] = w /\ NumGroups = h * w /\ h \in Nat /\ w \in Nat
      BY FrameFacts DEF NumGroups
    <2> HIDE DEF h, w, g
    <2>2. 1 * h * w = h * w /\ h * w \in Nat
      BY <2>1
    <2>3. ImageBox[1] * ImageBox[2] * ImageBox[3] = 1 * h * w
      BY <2>1
    <2> QED BY <1>5, <2>1, <2>2, <2>3
  <1>8. z = [pos |-> Append(s.pos, p), st |-> s.st, left |-> s.left,
             box |-> [grid |-> s.box.grid, at |-> s.box.at, used |-> s.box.used + 1]]
    <2> HIDE DEF g
    <2>1. s.box.used < s.box.grid[1] * s.box.grid[2] * s.box.grid[3]
      BY <1>6, <1>7
    <2>2. p = [d \in 1 .. 3 |-> s.box.at + BoxCell(s.box.grid, s.box.used)[d]]
      BY <1>6
    <2> HIDE DEF p
    <2>3. MRoPEStep(s, ImagePad, VisionStart, ImagePad)
            = [pos |-> Append(s.pos, p), st |-> s.st, left |-> s.left,
               box |-> [grid |-> s.box.grid, at |-> s.box.at, used |-> s.box.used + 1]]
      BY <1>1, <2>1, <2>2, FillStep
    <2> QED BY <1>4, <2>3
  <1>9. z \in Scans /\ Len(pos) = i + 1
    <2>1. z \in Scans /\ Len(z.pos) = Len(s.pos) + 1
      BY <1>1, StepScans
    <2> QED BY <1>1, <2>1
  <1> HIDE DEF z, g, p
  <1>10. /\ z.st = st /\ z.left = left /\ pos = Append(s.pos, p)
         /\ z.box = [grid |-> ImageBox, at |-> F[i - g], used |-> g + 1]
    BY <1>6, <1>8
  <1>11. p \in Positions
    <2>1. F[i - g] \in Nat
      <3>1. s.box.at \in Nat
        BY <1>1 DEF Scans, Boxes
      <3> QED BY <1>6, <3>1
    <2>2. g \in Nat
      BY <1>5
    <2>3. ASSUME NEW d \in 1 .. 3 PROVE s.box.at + BoxCell(ImageBox, g)[d] \in Nat
      <3>1. BoxCell(ImageBox, g)[d] \in Nat
        BY <2>2, CellNat
      <3> QED BY <1>6, <2>1, <3>1
    <2> QED BY <2>3 DEF p, Positions
  <1>12. pos[i + 1] = p /\ AlikeTo(pos, s.pos, i)
    <2>1. s.pos \in Seq(Positions)
      BY <1>1 DEF Scans
    <2> HIDE DEF Positions
    <2> DEFINE q == s.pos
    <2>2. /\ Append(q, p)[Len(q) + 1] = p
          /\ \A j \in 1 .. Len(q) : Append(q, p)[j] = q[j]
      <3> HIDE DEF q
      <3> QED BY <1>11, <2>1, AppendFacts DEF q
    <2> QED BY <1>1, <1>10, <2>2 DEF AlikeTo
  <1> HIDE DEF pos, st, left
  <1>13. PICK E : /\ Placed(ImageBox, items, pos, E, i + 1) /\ Steady(E, i + 1)
                  /\ g \in 0 .. NumGroups - 1 /\ g <= i
                  /\ \A j \in 0 .. i : E[j] = F[j]
                  /\ E[i - g] <= E[i + 1] /\ E[i + 1] <= st
                  /\ \A k \in 0 .. g : E[i - g] + CellRow(k) < E[i + 1] /\ E[i - g] + CellCol(k) < E[i + 1]
                  /\ g = NumGroups - 1 => E[i + 1] = st
    <2>1. g = GroupOf(items[i + 1]) /\ p = [d \in 1 .. 3 |-> s.box.at + BoxCell(ImageBox, g)[d]]
      BY DEF g, p
    <2> QED BY <1>1, <1>2, <1>12, <2>1, ScanPad DEF st
  <1>14. /\ g < NumGroups - 1 => PadNext(items, i + 1) /\ GroupOf(items[(i + 1) + 1]) = g + 1
         /\ ~ (g < NumGroups - 1) => ~ PadNext(items, i + 1)
    BY AfterPad DEF g
  <1>15. g \in Nat /\ NumGroups \in Nat /\ (i + 1) - (g + 1) = i - g /\ i - g \in 0 .. i
    BY <1>13, FrameFacts
  <1>16. ASSUME g < NumGroups - 1 PROVE Filling(z, E, i + 1, g + 1)
    <2>1. g + 1 \in 0 .. NumGroups - 1 /\ g + 1 <= i + 1 /\ \A k \in 0 .. (g + 1) - 1 : k \in 0 .. g
      BY <1>13, <1>15, <1>16
    <2>2. z.box = [grid |-> ImageBox, at |-> E[i - g], used |-> g + 1]
      BY <1>10, <1>13, <1>15
    <2>3. z.st = E[i - g] + PastBox(ImageBox)
      <3>1. st = F[i - g] + PastBox(ImageBox)
        BY <1>3 DEF Filling, st, g
      <3> QED BY <1>10, <1>13, <1>15, <3>1
    <2>4. E[i + 1] <= z.st
      BY <1>10, <1>13
    <2> QED BY <1>13, <1>15, <2>1, <2>2, <2>3, <2>4 DEF Filling
  <1>17. Scanned(items, z, E, i + 1)
    <2>1. CASE g < NumGroups - 1
      BY <1>13, <1>14, <1>16, <2>1 DEF Scanned, pos
    <2>2. CASE ~ (g < NumGroups - 1)
      <3>1. g = NumGroups - 1
        BY <1>13, <1>15, <2>2
      <3>2. z.st = E[i + 1]
        BY <1>10, <1>13, <3>1
      <3> QED BY <1>13, <1>14, <2>2, <3>2 DEF Scanned, pos
    <2> QED BY <2>1, <2>2
  <1>18. Count(Starts(items), i + 1) = Count(Starts(items), i)
    <2>1. i + 1 <= Len(items) /\ items[i + 1].tok # VisionStart
      <3>1. items \in Seq(Items) /\ VisionStart # ImagePad
        BY VLMAssumption DEF VLMAssumption, Formed
      <3> HIDE DEF Items
      <3> QED BY <1>4, <3>1
    <2> QED BY <2>1, StartsAhead
  <1>19. ScanAt(items, images, z, i + 1)
    BY <1>1, <1>9, <1>10, <1>17, <1>18 DEF ScanAt, left, pos
  <1> QED BY <1>19 DEF z

LEMMA ScanStepText ==
    ASSUME BundleFixed, NEW items, NEW images, Formed(items, images), NEW i \in Nat, i + 1 \in DOMAIN items,
           items[i + 1].tok # ImagePad, NEW s, ScanAt(items, images, s, i)
    PROVE  ScanAt(items, images, MRoPEStep(s, items[i + 1].tok, VisionStart, ImagePad), i + 1)
  <1> DEFINE tok == items[i + 1].tok
             z == MRoPEStep(s, tok, VisionStart, ImagePad)
             st == s.st
             left == s.left
             pos == z.pos
             begins == tok = VisionStart /\ left # <<>>
             C == Count(Starts(items), i)
  <1>1. /\ s \in Scans /\ Len(s.pos) = i /\ Len(left) = images - C
        /\ \A j \in 1 .. Len(left) : left[j] = ImageBox
    BY DEF ScanAt
  <1>2. PICK F : Scanned(items, s, F, i)
    BY DEF ScanAt
  <1>3. /\ s.pos \in Seq(Positions) /\ st \in Nat /\ left \in Seq(Nat \X Nat \X Nat)
    BY <1>1 DEF Scans
  <1>4. z \in Scans /\ Len(pos) = i + 1
    <2>1. z \in Scans /\ Len(z.pos) = Len(s.pos) + 1
      BY <1>1, StepScans
    <2> QED BY <1>1, <2>1
  <1>5. z = IF begins
              THEN [pos |-> Append(s.pos, <<st, st, st>>), st |-> st + 1 + PastBox(Head(left)),
                    left |-> Tail(left), box |-> [grid |-> Head(left), at |-> st + 1, used |-> 0]]
              ELSE [pos |-> Append(s.pos, <<st, st, st>>), st |-> st + 1 + 0, left |-> left, box |-> NoBox]
    BY <1>1, TextStep
  <1>6. /\ begins => /\ z.st = st + 1 + PastBox(Head(left)) /\ z.left = Tail(left)
                     /\ z.box = [grid |-> Head(left), at |-> st + 1, used |-> 0]
        /\ ~ begins => z.st = st + 1 /\ z.left = left
        /\ pos = Append(s.pos, <<st, st, st>>)
    <2> HIDE DEF z, st, left, begins
    <2>1. CASE begins
      BY <1>5, <2>1
    <2>2. CASE ~ begins
      BY <1>3, <1>5, <2>2
    <2> QED BY <2>1, <2>2
  <1>7. /\ i + 1 <= Len(items) /\ C \in Nat /\ images \in Nat
        /\ tok = VisionStart => Count(Starts(items), i + 1) = C + 1 /\ images - C \in Nat \ {0}
        /\ tok # VisionStart => Count(Starts(items), i + 1) = C
    <2>1. i + 1 <= Len(items)
      <3>1. items \in Seq(Items)
        BY DEF Formed
      <3> HIDE DEF Items
      <3> QED BY <3>1
    <2> QED BY <2>1, StartsAhead
  <1>8. /\ PadNext(items, i + 1) <=> tok = VisionStart
        /\ tok = VisionStart => GroupOf(items[(i + 1) + 1]) = 0
    BY AfterText
  <1> HIDE DEF z, C
  <1>9. pos[i + 1] = <<st, st, st>> /\ AlikeTo(pos, s.pos, i)
    <2> DEFINE q == s.pos
               p == <<st, st, st>>
    <2>1. p \in Positions
      BY <1>3 DEF Positions
    <2> HIDE DEF Positions, p
    <2>2. /\ Append(q, p)[Len(q) + 1] = p
          /\ \A j \in 1 .. Len(q) : Append(q, p)[j] = q[j]
      <3> HIDE DEF q
      <3> QED BY <1>3, <2>1, AppendFacts DEF q
    <2>3. pos = Append(q, p)
      BY <1>6 DEF p
    <2> QED BY <1>1, <2>2, <2>3 DEF AlikeTo, p
  <1> HIDE DEF pos, left, tok, begins
  <1>10. PICK E : Placed(ImageBox, items, pos, E, i + 1) /\ Steady(E, i + 1) /\ E[i + 1] = st + 1
    BY <1>1, <1>2, <1>9, ScanText DEF st, tok
  <1> HIDE DEF st
  <1>11. tok = VisionStart => begins /\ Len(left) \in Nat \ {0}
    <2>1. tok = VisionStart => Len(left) \in Nat \ {0}
      BY <1>1, <1>7
    <2>2. tok = VisionStart => left # <<>>
      BY <2>1
    <2> QED BY <2>1, <2>2 DEF begins
  <1>12. CASE tok = VisionStart
    <2>1. /\ Head(left) = ImageBox /\ Tail(left) \in Seq(Nat \X Nat \X Nat)
          /\ Len(Tail(left)) = Len(left) - 1 /\ \A j \in 1 .. Len(Tail(left)) : Tail(left)[j] = ImageBox
      <3>1. left # <<>> /\ Len(left) \in Nat \ {0} /\ 1 \in 1 .. Len(left)
        BY <1>11, <1>12
      <3>2. Head(left) = left[1] /\ Tail(left) \in Seq(Nat \X Nat \X Nat) /\ Len(Tail(left)) = Len(left) - 1
        BY <1>3, <3>1
      <3>3. \A j \in 1 .. Len(left) - 1 : Tail(left)[j] = left[j + 1] /\ j + 1 \in 1 .. Len(left)
        BY <1>3, <3>1
      <3> QED BY <1>1, <3>1, <3>2, <3>3
    <2>2. z.st = st + 1 + PastBox(ImageBox) /\ z.box = [grid |-> ImageBox, at |-> st + 1, used |-> 0]
      BY <1>6, <1>11, <1>12, <2>1
    <2>3. Len(z.left) = images - Count(Starts(items), i + 1) /\ \A j \in 1 .. Len(z.left) : z.left[j] = ImageBox
      <3> DEFINE l == Len(left)
      <3>1. l = images - C
        BY <1>1
      <3>2. Len(Tail(left)) = l - 1
        BY <2>1
      <3>3. Count(Starts(items), i + 1) = C + 1
        BY <1>7, <1>12
      <3> HIDE DEF l
      <3>4. l - 1 = images - (C + 1)
        BY <1>7, <3>1
      <3> QED BY <1>6, <1>11, <1>12, <2>1, <3>2, <3>3, <3>4
    <2>4. Filling(z, E, i + 1, 0)
      <3> DEFINE b == PastBox(ImageBox)
                 e == E[i + 1]
      <3>1. b \in Nat
        BY FrameFacts, PastBoxType
      <3>2. e = st + 1 /\ z.st = st + 1 + b /\ z.box = [grid |-> ImageBox, at |-> st + 1, used |-> 0]
        BY <1>10, <2>2
      <3>3. (i + 1) - 0 = i + 1 /\ 0 <= i + 1 /\ 0 \in 0 .. NumGroups - 1
        BY FrameFacts
      <3>4. \A k \in 0 .. 0 - 1 : FALSE
        OBVIOUS
      <3> HIDE DEF b, e
      <3>5. e <= e /\ e <= z.st /\ z.st = e + b
        BY <1>3, <3>1, <3>2 DEF st
      <3>6. z.box = [grid |-> ImageBox, at |-> e, used |-> 0]
        BY <3>2
      <3> QED BY <3>3, <3>4, <3>5, <3>6 DEF Filling, b, e
    <2>5. Scanned(items, z, E, i + 1)
      BY <1>8, <1>10, <1>12, <2>4 DEF Scanned, pos
    <2> QED BY <1>4, <2>3, <2>5 DEF ScanAt, pos, z, tok
  <1>13. CASE tok # VisionStart
    <2>1. z.st = st + 1 /\ z.left = left
      BY <1>6, <1>13 DEF begins
    <2>2. Scanned(items, z, E, i + 1)
      BY <1>8, <1>10, <1>13, <2>1 DEF Scanned, pos
    <2>3. Len(z.left) = images - Count(Starts(items), i + 1) /\ \A j \in 1 .. Len(z.left) : z.left[j] = ImageBox
      BY <1>1, <1>7, <1>13, <2>1
    <2> QED BY <1>4, <2>2, <2>3 DEF ScanAt, pos, z, tok
  <1> QED BY <1>12, <1>13

\* What a front is by the end of a scan.
LEMMA ScanStarts ==
    ASSUME BundleFixed, NEW items, NEW images, Formed(items, images),
           NEW grids \in Seq(Nat \X Nat \X Nat), Len(grids) = images,
           \A j \in 1 .. Len(grids) : grids[j] = ImageBox,
           NEW s, s = [pos |-> <<>>, st |-> 0, left |-> grids, box |-> NoBox]
    PROVE  ScanAt(items, images, s, 0)
  <1> DEFINE F == [i \in 0 .. 0 |-> 0]
  <1>1. s.pos = <<>> /\ s.st = 0 /\ s.left = grids /\ s.box = NoBox
    OBVIOUS
  <1>2. s \in Scans
    <2>1. NoBox \in Boxes
      BY DEF NoBox, Boxes
    <2>2. <<>> \in Seq(Positions) /\ 0 \in Nat
      OBVIOUS
    <2> HIDE DEF Positions, Boxes, NoBox
    <2> QED BY <2>1, <2>2 DEF Scans
  <1>3. Len(s.pos) = 0
    BY <1>1
  <1>4. Len(s.left) = images - Count(Starts(items), 0)
    <2>1. Count(Starts(items), 0) = 0 /\ images \in Nat
      BY CountFacts DEF Formed
    <2> QED BY <1>1, <2>1
  <1>5. ~ PadNext(items, 0)
    <2>1. items \in Seq(Items) /\ \A i \in 1 .. Len(items) : PadsFollow(items, i)
      BY DEF Formed
    <2>2. DOMAIN items = 1 .. Len(items) /\ Len(items) \in Nat
      <3> HIDE DEF Items
      <3> QED BY <2>1
    <2>3. ASSUME 1 \in 1 .. Len(items), items[1].tok = ImagePad PROVE FALSE
      <3>1. PadsFollow(items, 1)
        BY <2>1, <2>3
      <3>2. 1 - 1 \in 1 .. Len(items)
        BY <2>3, <3>1 DEF PadsFollow
      <3> QED BY <2>2, <3>2
    <2>4. 0 + 1 = 1
      OBVIOUS
    <2> QED BY <2>2, <2>3, <2>4 DEF PadNext
  <1>6. F \in [0 .. 0 -> Nat] /\ F[0] = 0
    OBVIOUS
  <1> HIDE DEF F
  <1>7. Placed(ImageBox, items, s.pos, F, 0) /\ Steady(F, 0)
    <2>1. \A i \in 1 .. 0 : FALSE
      OBVIOUS
    <2> QED BY <1>6, <2>1 DEF Placed, Fronts, Steady
  <1>8. Scanned(items, s, F, 0)
    BY <1>1, <1>5, <1>6, <1>7 DEF Scanned
  <1> QED BY <1>1, <1>2, <1>3, <1>4, <1>8 DEF ScanAt

\* Every token of a prompt is put in its place.
LEMMA PromptScanned ==
    ASSUME BundleFixed, NEW items, NEW images, Formed(items, images),
           NEW grids \in Seq(Nat \X Nat \X Nat), Len(grids) = images,
           \A j \in 1 .. Len(grids) : grids[j] = ImageBox,
           NEW P, P = ComputePositions(Ids(items), grids, VisionStart, ImagePad)
    PROVE  \E F : Placed(ImageBox, items, P, F, Len(items)) /\ Steady(F, Len(items))
  <1> DEFINE n == Len(items)
             ids == Ids(items)
  <1>1. n \in Nat /\ DOMAIN items = 1 .. n
    <2>1. items \in Seq(Items)
      BY DEF Formed
    <2> HIDE DEF Items
    <2> QED BY <2>1
  <1>2. Len(ids) = n /\ \A i \in 1 .. n : ids[i] = items[i].tok
    <2> HIDE DEF n
    <2> QED BY <1>1 DEF Ids
  <1> HIDE DEF ids, n
  <1>3. PICK s : /\ MRoPEStates(s, ids, grids, VisionStart, ImagePad)
                 /\ ComputePositions(ids, grids, VisionStart, ImagePad) = s[Len(ids)].pos
    <2>1. Len(ids) \in Nat
      BY <1>1, <1>2
    <2> QED BY <2>1, StatesOfPrompt
  <1>4. /\ s[0] = [pos |-> <<>>, st |-> 0, left |-> grids, box |-> NoBox]
        /\ \A i \in 1 .. n : s[i] = MRoPEStep(s[i - 1], items[i].tok, VisionStart, ImagePad)
    BY <1>2, <1>3 DEF MRoPEStates
  <1> DEFINE Good == {i \in Nat : i <= n => ScanAt(items, images, s[i], i)}
  <1>5. 0 \in Good
    BY <1>4, ScanStarts
  <1>6. ASSUME NEW i \in Nat, i \in Good PROVE i + 1 \in Good
    <2> SUFFICES ASSUME i + 1 <= n PROVE ScanAt(items, images, s[i + 1], i + 1)
      OBVIOUS
    <2>1. i + 1 \in 1 .. n /\ (i + 1) - 1 = i /\ i <= n
      BY <1>1
    <2>2. ScanAt(items, images, s[i], i)
      BY <1>6, <2>1
    <2>3. s[i + 1] = MRoPEStep(s[i], items[i + 1].tok, VisionStart, ImagePad)
      BY <1>4, <2>1
    <2>4. ScanAt(items, images, MRoPEStep(s[i], items[i + 1].tok, VisionStart, ImagePad), i + 1)
      <3> DEFINE z == s[i]
      <3>1. ScanAt(items, images, z, i)
        BY <2>2
      <3> HIDE DEF z
      <3>2. CASE items[i + 1].tok = ImagePad
        <4>1. PadNext(items, i)
          BY <1>1, <2>1, <3>2 DEF PadNext
        <4>2. ScanAt(items, images, MRoPEStep(z, items[i + 1].tok, VisionStart, ImagePad), i + 1)
          BY <3>1, <4>1, ScanStepPad
        <4> QED BY <4>2 DEF z
      <3>3. CASE items[i + 1].tok # ImagePad
        <4>1. i + 1 \in DOMAIN items
          BY <1>1, <2>1
        <4>2. ScanAt(items, images, MRoPEStep(z, items[i + 1].tok, VisionStart, ImagePad), i + 1)
          BY <3>1, <3>3, <4>1, ScanStepText
        <4> QED BY <4>2 DEF z
      <3> QED BY <3>2, <3>3
    <2> QED BY <2>3, <2>4
  <1> HIDE DEF Good
  <1>7. n \in Good
    BY <1>1, <1>5, <1>6, Induction
  <1>8. ScanAt(items, images, s[n], n)
    BY <1>1, <1>7 DEF Good
  <1>9. PICK F : Scanned(items, s[n], F, n)
    BY <1>8 DEF ScanAt
  <1>10. P = s[n].pos
    BY <1>2, <1>3 DEF ids
  <1> QED BY <1>9, <1>10 DEF Scanned, n
-----------------------------------------------------------------------------
(* How far the front is ahead of the token count.                          *)

LEMMA FrontsGrow ==
    ASSUME NEW P, NEW F, NEW n \in Nat, Fronts(P, F, n)
    PROVE  /\ \A i \in 0 .. n : F[i] \in Nat
           /\ \A j \in 0 .. n : \A i \in 0 .. j : F[i] <= F[j]
           /\ \A i \in 1 .. n : P[i][1] \in Nat /\ P[i][1] < F[i]
  <1>1. \A i \in 0 .. n : F[i] \in Nat
    BY DEF Fronts
  <1>2. ASSUME NEW i \in 1 .. n
        PROVE  P[i] \in Positions /\ i \in 0 .. n /\ i - 1 \in 0 .. n /\ F[i - 1] <= F[i] /\ 1 + Top(P[i]) <= F[i]
    <2> DEFINE e == F[i - 1]
               t == Top(P[i])
    <2>1. P[i] \in Positions /\ F[i] = Max2(e, 1 + t)
      BY DEF Fronts
    <2>2. i \in 0 .. n /\ i - 1 \in 0 .. n
      OBVIOUS
    <2>3. e \in Nat /\ t \in Nat
      BY <1>1, <2>1, <2>2, TopFacts
    <2> HIDE DEF e, t
    <2>4. e <= F[i] /\ 1 + t <= F[i]
      BY <2>1, <2>3 DEF Max2
    <2> QED BY <2>1, <2>2, <2>4 DEF e, t
  <1> DEFINE Good == {j \in Nat : j <= n => \A i \in 0 .. j : F[i] <= F[j]}
  <1>3. 0 \in Good
    <2>1. 0 \in 0 .. n
      OBVIOUS
    <2>2. F[0] \in Nat
      BY <1>1, <2>1
    <2> QED BY <2>2
  <1>4. ASSUME NEW j \in Nat, j \in Good PROVE j + 1 \in Good
    <2> SUFFICES ASSUME j + 1 <= n, NEW i \in 0 .. j + 1 PROVE F[i] <= F[j + 1]
      OBVIOUS
    <2>1. j + 1 \in 1 .. n /\ (j + 1) - 1 = j /\ j \in 0 .. n /\ j <= n /\ j + 1 \in 0 .. n /\ i \in 0 .. n
      OBVIOUS
    <2>2. F[j] <= F[j + 1]
      BY <1>2, <2>1
    <2>3. CASE i = j + 1
      BY <1>1, <2>1, <2>3
    <2>4. CASE i # j + 1
      <3>1. i \in 0 .. j
        BY <2>4
      <3>2. F[i] <= F[j]
        BY <1>4, <2>1, <3>1
      <3> DEFINE u == F[i]
                 v == F[j]
                 w == F[j + 1]
      <3>3. u \in Nat /\ v \in Nat /\ w \in Nat
        BY <1>1, <2>1
      <3> HIDE DEF u, v, w
      <3>4. u <= w
        BY <2>2, <3>2, <3>3 DEF u, v, w
      <3> QED BY <3>4 DEF u, w
    <2> QED BY <2>3, <2>4
  <1> HIDE DEF Good
  <1>5. \A j \in Nat : j \in Good
    BY <1>3, <1>4, Induction
  <1>6. ASSUME NEW i \in 1 .. n PROVE P[i][1] \in Nat /\ P[i][1] < F[i]
    <2> DEFINE t == Top(P[i])
               x == P[i][1]
               f == F[i]
    <2>1. t \in Nat /\ x \in Nat /\ x <= t
      BY <1>2, TopFacts
    <2>2. 1 + t <= f /\ f \in Nat
      BY <1>1, <1>2
    <2> HIDE DEF t, x, f
    <2>3. x < f
      BY <2>1, <2>2
    <2> QED BY <2>1, <2>3 DEF x, f
  <1> QED BY <1>1, <1>5, <1>6 DEF Good

\* A front that moved on by one with each token.
LEMMA SteadyCounts ==
    ASSUME NEW n \in Nat, NEW F, \A i \in 0 .. n : F[i] \in Nat, Steady(F, n), F[0] = 0, F[n] = n
    PROVE  \A j \in 0 .. n : F[j] = j
  <1> DEFINE Low == {j \in Nat : j <= n => F[j] <= j}
             High == {k \in Nat : k <= n => F[n - k] >= n - k}
  <1>1. \A i \in 1 .. n : F[i] <= F[i - 1] + 1
    BY DEF Steady
  <1>2. 0 \in Low
    OBVIOUS
  <1>3. ASSUME NEW j \in Nat, j \in Low PROVE j + 1 \in Low
    <2> SUFFICES ASSUME j + 1 <= n PROVE F[j + 1] <= j + 1
      OBVIOUS
    <2>1. j + 1 \in 1 .. n /\ (j + 1) - 1 = j /\ j \in 0 .. n /\ j + 1 \in 0 .. n /\ j <= n
      OBVIOUS
    <2>2. F[j + 1] <= F[j] + 1 /\ F[j] <= j /\ F[j] \in Nat /\ F[j + 1] \in Nat
      BY <1>1, <1>3, <2>1
    <2> DEFINE u == F[j]
               v == F[j + 1]
    <2> HIDE DEF u, v
    <2>3. v <= j + 1
      BY <2>2 DEF u, v
    <2> QED BY <2>3 DEF v
  <1>4. 0 \in High
    <2>1. n - 0 = n
      OBVIOUS
    <2> QED BY <2>1
  <1>5. ASSUME NEW k \in Nat, k \in High PROVE k + 1 \in High
    <2> SUFFICES ASSUME k + 1 <= n PROVE F[n - (k + 1)] >= n - (k + 1)
      OBVIOUS
    <2> DEFINE i == n - k
               l == n - (k + 1)
    <2>1. i \in 1 .. n /\ i - 1 = l /\ i \in 0 .. n /\ l \in 0 .. n /\ k <= n /\ i = l + 1
      OBVIOUS
    <2>2. F[i] >= i
      BY <1>5, <2>1
    <2> HIDE DEF i, l
    <2>3. F[i] <= F[l] + 1 /\ F[i] \in Nat /\ F[l] \in Nat
      BY <1>1, <2>1
    <2> DEFINE u == F[i]
               v == F[l]
    <2> HIDE DEF u, v
    <2>4. v >= l
      BY <2>1, <2>2, <2>3 DEF u, v
    <2> QED BY <2>4 DEF l, v
  <1> HIDE DEF Low, High
  <1>6. \A j \in Nat : j \in Low
    BY <1>2, <1>3, Induction
  <1>7. \A k \in Nat : k \in High
    BY <1>4, <1>5, Induction
  <1>8. ASSUME NEW j \in 0 .. n PROVE F[j] = j
    <2>1. j \in Nat /\ j <= n /\ n - j \in Nat /\ n - j <= n /\ n - (n - j) = j
      OBVIOUS
    <2>2. F[j] <= j
      BY <1>6, <2>1 DEF Low
    <2>3. F[n - (n - j)] >= n - (n - j)
      BY <1>7, <2>1 DEF High
    <2> DEFINE u == F[j]
    <2>4. u >= j /\ u <= j /\ u \in Nat
      BY <2>1, <2>2, <2>3
    <2> HIDE DEF u
    <2>5. u = j
      BY <2>4
    <2> QED BY <2>5 DEF u
  <1> QED BY <1>8

\* The delta of a prompt that ends in text is what its front is ahead of its length.
LEMMA DeltaIsLead ==
    ASSUME NEW items, NEW n \in Nat \ {0}, items[n].tok # ImagePad,
           NEW P \in Seq(Positions), Len(P) = n, NEW F, Placed(ImageBox, items, P, F, n)
    PROVE  PositionDelta(P) = F[n] - n
  <1> DEFINE T(i) == P[i][1]
             M == {P[i][1] : i \in DOMAIN P}
             m == F[n - 1]
  <1>1. Fronts(P, F, n) /\ n \in Nat /\ n \in 1 .. n /\ n - 1 \in 0 .. n /\ n \in 0 .. n
    BY DEF Placed
  <1>2. /\ \A i \in 0 .. n : F[i] \in Nat
        /\ \A i \in 1 .. n : T(i) \in Nat /\ T(i) < F[i]
    BY <1>1, FrontsGrow
  <1>3. P[n] = [d \in 1 .. 3 |-> m] /\ F[n] = Max2(m, 1 + Top(P[n])) /\ m \in Nat
    <2>1. InPlace(ImageBox, items, P, F, n)
      BY <1>1 DEF Placed
    <2>2. F[n] = Max2(m, 1 + Top(P[n]))
      BY <1>1 DEF Fronts
    <2> QED BY <1>1, <1>2, <2>1, <2>2 DEF InPlace
  <1>4. T(n) = m /\ Top(P[n]) = m
    <2>1. P[n][1] = m /\ P[n][2] = m /\ P[n][3] = m
      <3> HIDE DEF m
      <3> QED BY <1>3
    <2> QED BY <1>3, <2>1 DEF Top, Max2
  <1>5. F[n] = m + 1
    <2> HIDE DEF m
    <2> QED BY <1>3, <1>4 DEF Max2
  <1>6. ASSUME NEW i \in 1 .. n PROVE T(i) <= m
    <2>1. CASE i = n
      BY <1>3, <1>4, <2>1
    <2>2. CASE i # n
      <3>1. i \in 0 .. n - 1 /\ i \in 1 .. n /\ i \in 0 .. n
        BY <2>2
      <3>2. F[i] <= m
        BY <1>1, <3>1, FrontsGrow
      <3> DEFINE x == T(i)
                 f == F[i]
      <3>3. x \in Nat /\ x < f /\ f \in Nat /\ f <= m
        BY <1>2, <3>1, <3>2
      <3> HIDE DEF x, f, m
      <3>4. x <= m
        BY <1>3, <3>3
      <3> QED BY <3>4 DEF x, m
    <2> QED BY <2>1, <2>2
  <1>7. Max(M) = m
    <2>1. DOMAIN P = 1 .. n
      <3> HIDE DEF Positions
      <3> QED OBVIOUS
    <2>2. m \in M /\ \A y \in M : y \in Nat /\ m >= y
      <3>1. \A y \in M : \E i \in 1 .. n : y = T(i)
        BY <2>1
      <3>2. m \in M
        BY <1>1, <1>4, <2>1
      <3> HIDE DEF m, M, T
      <3> QED BY <1>2, <1>3, <1>6, <3>1, <3>2
    <2> HIDE DEF M, m
    <2>3. Max(M) = CHOOSE x \in M : \A y \in M : x >= y
      BY DEF Max
    <2>4. Max(M) \in M /\ Max(M) >= m
      BY <1>3, <2>2, <2>3
    <2> DEFINE x == Max(M)
    <2>5. x \in Nat /\ x >= m /\ m >= x
      BY <2>2, <2>4
    <2> HIDE DEF x
    <2>6. x = m
      BY <1>3, <2>5
    <2> QED BY <2>6 DEF x
  <1>8. P # <<>>
    BY EmptySeq
  <1>9. PositionDelta(P) = Max(M) + 1 - n
    BY <1>8 DEF PositionDelta
  <1> HIDE DEF M, m
  <1>10. m + 1 - n = F[n] - n
    <2> DEFINE f == F[n]
    <2>1. f = m + 1
      BY <1>5
    <2> HIDE DEF f
    <2>2. m + 1 - n = f - n
      BY <1>1, <1>3, <2>1
    <2> QED BY <2>2 DEF f
  <1> QED BY <1>7, <1>9, <1>10

\* A chat template puts text after the last image.
PromptsEndInText == \A shape \in Shapes : shape[Len(shape)] \notin Images

\* A prompt in its places, and what its positions are ahead of its length.
Measured(box, items, P, F) ==
    /\ P \in Seq(Positions) /\ Len(P) = Len(items)
    /\ Placed(box, items, P, F, Len(items)) /\ Steady(F, Len(items))
    /\ F[Len(items)] = Len(items) + PositionDelta(P)

LEMMA LastIsText ==
    ASSUME BundleFixed, PromptsEndInText, NEW shape \in Shapes,
           NEW items, items = Expand(shape), items \in Seq(Items)
    PROVE  Len(items) \in Nat \ {0} /\ items[Len(items)].tok # ImagePad
  <1> DEFINE k == Len(shape)
             x == shape[k]
             a == ItemsTo(shape, k - 1)
             b == Piece(x)
  <1>1. k \in Nat \ {0} /\ k - 1 \in Nat /\ (k - 1) + 1 = k /\ items = ItemsTo(shape, k) /\ x \notin Images
    BY WholePrompt DEF PromptsEndInText
  <1>2. x \in Text \cup Images /\ ItemsTo(shape, k) = a \o b /\ b \in Seq(Items) /\ a \in Seq(Items)
    <2>1. (k - 1) + 1 <= Len(shape)
      BY <1>1
    <2>2. /\ shape[(k - 1) + 1] \in Text \cup Images
          /\ ItemsTo(shape, (k - 1) + 1) = ItemsTo(shape, k - 1) \o Piece(shape[(k - 1) + 1])
          /\ Piece(shape[(k - 1) + 1]) \in Seq(Items) /\ ItemsTo(shape, k - 1) \in Seq(Items)
      BY <1>1, <2>1, OneMore
    <2> QED BY <1>1, <2>2
  <1>3. x \in Text /\ x # ImagePad
    BY <1>1, <1>2, VLMAssumption DEF VLMAssumption
  <1>4. b = <<[tok |-> x, means |-> x]>>
    BY <1>1 DEF Piece
  <1> HIDE DEF a, x, k, Items
  <1>5. Len(b) = 1 /\ b[1].tok = x
    BY <1>4
  <1> HIDE DEF b
  <1>6. Len(items) = Len(a) + 1 /\ items[Len(a) + 1] = b[1] /\ Len(a) \in Nat
    <2>1. /\ Len(a \o b) = Len(a) + Len(b)
          /\ \A i \in 1 .. Len(a) + Len(b) : (a \o b)[i] = IF i <= Len(a) THEN a[i] ELSE b[i - Len(a)]
      BY <1>2, ConcatProperties
    <2> DEFINE l == Len(a)
    <2>2. l \in Nat /\ l + 1 \in 1 .. l + 1 /\ ~ (l + 1 <= l) /\ (l + 1) - l = 1
      BY <1>2
    <2> HIDE DEF l
    <2>3. Len(a \o b) = l + 1 /\ (a \o b)[l + 1] = b[1]
      BY <1>5, <2>1, <2>2, Zenon DEF l
    <2>4. items = a \o b
      BY <1>1, <1>2
    <2> QED BY <2>2, <2>3, <2>4, Zenon DEF l
  <1> QED BY <1>3, <1>5, <1>6

LEMMA PromptMeasured ==
    ASSUME BundleFixed, PromptsEndInText, NEW shape \in Shapes
    PROVE  \E F : Measured(ImageBox, Expand(shape), PromptPositions(shape), F)
  <1> DEFINE items == Expand(shape)
             images == ImagesOf(shape)
             grids == [i \in DOMAIN images |-> <<1, grid[1], grid[2]>>]
             P == PromptPositions(shape)
             n == Len(items)
  <1>1. items \in Seq(Items) /\ images \in Seq(Images)
    BY PromptAligned DEF Aligned
  <1>2. P \in Seq(Positions) /\ Len(P) = n
    BY PromptPositionsType
  <1>3. Formed(items, Len(images))
    BY PromptFormed
  <1>4. n \in Nat \ {0} /\ items[n].tok # ImagePad
    BY <1>1, LastIsText
  <1>5. grids \in Seq(Nat \X Nat \X Nat) /\ Len(grids) = Len(images) /\ \A j \in 1 .. Len(grids) : grids[j] = ImageBox
    <2> DEFINE f == ImageBox
    <2>1. f \in Nat \X Nat \X Nat
      BY FrameFacts
    <2>2. grids = [i \in DOMAIN images |-> f]
      BY DEF ImageBox
    <2> HIDE DEF images, f, grids
    <2>3. DOMAIN images = 1 .. Len(images) /\ Len(images) \in Nat
      BY <1>1
    <2>4. grids = [i \in 1 .. Len(images) |-> f]
      BY <2>2, <2>3
    <2>5. grids \in Seq(Nat \X Nat \X Nat) /\ Len(grids) = Len(images) /\ \A j \in 1 .. Len(images) : grids[j] = f
      BY <2>1, <2>3, <2>4
    <2> QED BY <2>5 DEF f
  <1>6. P = ComputePositions(Ids(items), grids, VisionStart, ImagePad)
    BY DEF PromptPositions
  <1> HIDE DEF items, images, grids, P, n
  <1>7. PICK F : Placed(ImageBox, items, P, F, Len(items)) /\ Steady(F, Len(items))
    BY <1>3, <1>5, <1>6, PromptScanned
  <1>8. PositionDelta(P) = F[n] - n
    <2>1. Placed(ImageBox, items, P, F, n)
      BY <1>7 DEF n
    <2> QED BY <1>2, <1>4, <2>1, DeltaIsLead
  <1>9. F[n] = n + PositionDelta(P)
    <2>1. F[n] \in Nat
      <3>1. Fronts(P, F, n) /\ n \in Nat /\ n \in 0 .. n
        BY <1>4, <1>7 DEF Placed, n
      <3> QED BY <3>1, FrontsGrow
    <2> DEFINE f == F[n]
    <2> HIDE DEF f
    <2>2. f = n + (f - n)
      BY <1>4, <2>1 DEF f
    <2> QED BY <1>8, <2>2 DEF f
  <1>10. Measured(ImageBox, items, P, F)
    BY <1>2, <1>7, <1>9 DEF Measured, n
  <1> QED BY <1>10 DEF items, P
-----------------------------------------------------------------------------
(* A context whose tokens are in their places.                             *)

PosOf(inputs) == [i \in DOMAIN inputs |-> inputs[i].pos]

\* Its front is what decode steps and the next prompt count on from.
Settled(box, items, inputs, deltas) ==
    \E F : /\ Placed(box, items, PosOf(inputs), F, Len(items))
           /\ F[Len(items)] = Len(items) + deltas

\* A prompt of which a part is in the context, from at on, moved on by o.
UnderWay(box, items, inputs, own, rows, at, o, delta) ==
    \E P, E, F :
        /\ Measured(box, own, P, E) /\ delta = PositionDelta(P)
        /\ rows = [i \in DOMAIN P |-> [d \in 1 .. 3 |-> P[i][d] + o]]
        /\ at \in 0 .. Len(items) /\ Len(items) - at <= Len(own)
        /\ Placed(box, items, PosOf(inputs), F, Len(items))
        /\ LeadsBy(F, E, at, o, Len(items) - at)

LEMMA SettledEmpty ==
    ASSUME NEW box
    PROVE  Settled(box, <<>>, <<>>, 0)
  <1> DEFINE F == [i \in 0 .. 0 |-> 0]
  <1>1. F \in [0 .. 0 -> Nat] /\ F[0] = 0 /\ Len(<<>>) = 0
    OBVIOUS
  <1>2. 0 = 0 + 0 /\ \A i \in 1 .. 0 : FALSE
    OBVIOUS
  <1> HIDE DEF F
  <1>3. Placed(box, <<>>, PosOf(<<>>), F, 0)
    BY <1>1, <1>2 DEF Placed, Fronts
  <1> QED BY <1>1, <1>2, <1>3 DEF Settled

LEMMA SettledBegins ==
    ASSUME NEW box, NEW items \in Seq(Items), NEW inputs, NEW deltas \in Int, Settled(box, items, inputs, deltas),
           NEW own \in Seq(Items), NEW P, NEW E, Measured(box, own, P, E),
           NEW rows, NEW o, o = Len(items) + deltas,
           rows = [i \in DOMAIN P |-> [d \in 1 .. 3 |-> P[i][d] + o]]
    PROVE  UnderWay(box, items, inputs, own, rows, Len(items), o, PositionDelta(P))
  <1> DEFINE m == Len(items)
             k == Len(own)
  <1>1. PICK F : Placed(box, items, PosOf(inputs), F, m) /\ F[m] = m + deltas
    BY DEF Settled
  <1>2. m \in Nat /\ k \in Nat
    <2> HIDE DEF Items
    <2> QED OBVIOUS
  <1>3. E[0] = 0
    BY DEF Measured, Placed, Fronts
  <1>4. o \in Int /\ o = m + deltas
    BY <1>2
  <1> HIDE DEF m, k
  <1>5. m \in 0 .. m /\ m - m <= k /\ \A j \in 0 .. m - m : j = 0 /\ m + j = m
    BY <1>2
  <1>6. LeadsBy(F, E, m, o, m - m)
    <2>1. o + 0 = o
      BY <1>4
    <2> QED BY <1>1, <1>3, <1>4, <1>5, <2>1 DEF LeadsBy
  <1>7. UnderWay(box, items, inputs, own, rows, m, o, PositionDelta(P))
    BY <1>1, <1>5, <1>6 DEF UnderWay, m, k
  <1> QED BY <1>7 DEF m

\* The whole prompt is in.
LEMMA UnderWayDone ==
    ASSUME NEW box, NEW items \in Seq(Items), NEW inputs, NEW own \in Seq(Items), NEW rows, NEW at \in Nat,
           NEW deltas \in Int, NEW delta \in Int,
           UnderWay(box, items, inputs, own, rows, at, at + deltas - delta, delta),
           Len(items) - at = Len(own)
    PROVE  Settled(box, items, inputs, deltas)
  <1> DEFINE m == Len(items)
             n == Len(own)
             o == at + deltas - delta
  <1>1. PICK P, E, F :
           /\ Measured(box, own, P, E) /\ delta = PositionDelta(P)
           /\ Placed(box, items, PosOf(inputs), F, m)
           /\ \A k \in 0 .. m - at : F[at + k] = o + E[k]
    BY DEF UnderWay, LeadsBy
  <1>2. m \in Nat /\ n \in Nat /\ m - at = n
    <2> HIDE DEF Items
    <2> QED OBVIOUS
  <1>3. E[n] = n + delta
    BY <1>1 DEF Measured
  <1>4. F[m] = m + deltas
    <2> HIDE DEF m, n
    <2>1. n \in 0 .. m - at /\ at + n = m
      BY <1>2
    <2>2. F[m] = o + (n + delta)
      BY <1>1, <1>3, <2>1
    <2>3. o + (n + delta) = m + deltas
      BY <1>2
    <2> QED BY <2>2, <2>3
  <1> QED BY <1>1, <1>4 DEF Settled

\* A part of a prompt that counts as text does is as good.
LEMMA UnderWayInStep ==
    ASSUME NEW box, NEW items \in Seq(Items), NEW inputs, NEW own \in Seq(Items), NEW rows, NEW at \in Nat,
           NEW deltas \in Int, UnderWay(box, items, inputs, own, rows, at, at + deltas - 0, 0)
    PROVE  Settled(box, items, inputs, deltas)
  <1> DEFINE m == Len(items)
             n == Len(own)
             o == at + deltas - 0
  <1>1. PICK P, E, F :
           /\ Measured(box, own, P, E) /\ 0 = PositionDelta(P)
           /\ at \in 0 .. m /\ m - at <= n
           /\ Placed(box, items, PosOf(inputs), F, m)
           /\ \A k \in 0 .. m - at : F[at + k] = o + E[k]
    BY DEF UnderWay, LeadsBy
  <1>2. m \in Nat /\ n \in Nat
    <2> HIDE DEF Items
    <2> QED OBVIOUS
  <1>3. /\ Steady(E, n) /\ E[0] = 0 /\ E[n] = n + 0
        /\ \A i \in 0 .. n : E[i] \in Nat
    <2>1. Fronts(P, E, n)
      BY <1>1 DEF Measured, Placed
    <2> QED BY <1>1, <1>2, <2>1, FrontsGrow DEF Measured, Fronts
  <1> HIDE DEF m, n
  <1>4. \A j \in 0 .. n : E[j] = j
    <2>1. E[n] = n
      BY <1>2, <1>3
    <2> QED BY <1>2, <1>3, <2>1, SteadyCounts
  <1>5. F[m] = m + deltas
    <2> DEFINE k == m - at
    <2>1. k \in 0 .. m - at /\ k \in 0 .. n /\ at + k = m
      BY <1>1, <1>2
    <2>2. F[at + k] = o + E[k] /\ E[k] = k
      BY <1>1, <1>4, <2>1
    <2> HIDE DEF k
    <2>3. o + k = m + deltas
      BY <1>2, <2>1
    <2> QED BY <2>1, <2>2, <2>3
  <1> QED BY <1>1, <1>5 DEF Settled, m

\* Past the first m come the positions of these inputs.
Following(Q, inputs, m) == \A j \in 1 .. Len(inputs) : Q[m + j] = inputs[j].pos

LEMMA PosOfConcat ==
    ASSUME NEW x, NEW y, IsSequence(x), IsSequence(y)
    PROVE  AlikeTo(PosOf(x \o y), PosOf(x), Len(x)) /\ Following(PosOf(x \o y), y, Len(x))
  <1> DEFINE z == x \o y
             m == Len(x)
             n == Len(y)
  <1>1. /\ IsSequence(z) /\ Len(z) = m + n
        /\ (\A i \in 1 .. m : z[i] = x[i]) /\ (\A j \in 1 .. n : z[m + j] = y[j])
    BY SequenceConcat
  <1>2. DOMAIN x = 1 .. m /\ m \in Nat /\ n \in Nat
    BY DEF IsSequence
  <1>3. DOMAIN z = 1 .. m + n
    BY <1>1 DEF IsSequence
  <1> HIDE DEF z, m, n
  <1>4. ASSUME NEW i \in 1 .. m PROVE PosOf(z)[i] = PosOf(x)[i]
    <2>1. i \in DOMAIN z /\ i \in DOMAIN x
      BY <1>2, <1>3
    <2> QED BY <1>1, <2>1 DEF PosOf
  <1>5. ASSUME NEW j \in 1 .. n PROVE PosOf(z)[m + j] = y[j].pos
    <2>1. m + j \in DOMAIN z
      BY <1>2, <1>3
    <2> QED BY <1>1, <2>1 DEF PosOf
  <1> QED BY <1>4, <1>5 DEF z, m, n, AlikeTo, Following

\* A chunk of what a prompt is fed: its tokens and their staged rows, past the first k.
ChunkOf(own, rows, c, y, k, n) == \A j \in 1 .. n : c[j] = own[k + j] /\ y[j].pos = rows[k + j]

LEMMA UnderWayGrows ==
    ASSUME BundleFixed, NEW items \in Seq(Items), NEW inputs, IsSequence(inputs), Len(inputs) = Len(items),
           NEW own \in Seq(Items), NEW rows, NEW at \in Nat, NEW o \in Int, NEW delta,
           UnderWay(ImageBox, items, inputs, own, rows, at, o, delta),
           NEW n \in Nat, (Len(items) - at) + n <= Len(own),
           NEW c \in Seq(Items), Len(c) = n, NEW y, IsSequence(y), Len(y) = n,
           ChunkOf(own, rows, c, y, Len(items) - at, n)
    PROVE  UnderWay(ImageBox, items \o c, inputs \o y, own, rows, at, o, delta)
  <1> DEFINE m == Len(items)
             k == Len(own)
             more == items \o c
             Q == PosOf(inputs \o y)
             box == ImageBox
  <1>1. PICK P, E, F :
           /\ Measured(box, own, P, E) /\ delta = PositionDelta(P)
           /\ rows = [i \in DOMAIN P |-> [d \in 1 .. 3 |-> P[i][d] + o]]
           /\ at \in 0 .. m /\ m - at <= k
           /\ Placed(box, items, PosOf(inputs), F, m)
           /\ LeadsBy(F, E, at, o, m - at)
    BY DEF UnderWay
  <1>2. m \in Nat /\ k \in Nat /\ (m - at) + n <= k /\ m - at \in Nat
    <2>1. m \in Nat /\ k \in Nat
      <3> HIDE DEF Items
      <3> QED OBVIOUS
    <2> HIDE DEF Items
    <2> QED BY <1>1, <2>1
  <1>3. /\ Len(more) = m + n /\ (\A i \in 1 .. m : more[i] = items[i]) /\ \A j \in 1 .. n : more[m + j] = c[j]
    <2>1. IsSequence(items) /\ IsSequence(c)
      BY SequenceOf
    <2>2. Len(items \o c) = Len(items) + Len(c)
      BY <2>1, SequenceConcat
    <2>3. \A i \in 1 .. Len(items) : (items \o c)[i] = items[i]
      BY <2>1, SequenceConcat
    <2>4. \A j \in 1 .. Len(c) : (items \o c)[Len(items) + j] = c[j]
      BY <2>1, SequenceConcat
    <2> HIDE DEF more
    <2>5. more = items \o c /\ Len(c) = n
      BY DEF more
    <2> HIDE DEF m
    <2>6. m = Len(items)
      BY DEF m
    <2> QED BY <2>2, <2>3, <2>4, <2>5, <2>6
  <1>4. /\ \A i \in 1 .. m : Q[i] = PosOf(inputs)[i]
        /\ \A j \in 1 .. n : Q[m + j] = y[j].pos
    <2>1. AlikeTo(PosOf(inputs \o y), PosOf(inputs), Len(inputs)) /\ Following(PosOf(inputs \o y), y, Len(inputs))
      BY PosOfConcat
    <2> HIDE DEF m, Q
    <2>2. Len(inputs) = m
      BY DEF m
    <2> QED BY <2>1, <2>2 DEF Q, AlikeTo, Following
  <1>5. Placed(box, own, P, E, k) /\ P \in Seq(Positions) /\ Len(P) = k
    BY <1>1 DEF Measured
  <1>6. DOMAIN P = 1 .. k
    <2> HIDE DEF Positions
    <2> QED BY <1>5
  <1>7. \A j \in 1 .. n : c[j] = own[(m - at) + j] /\ y[j].pos = rows[(m - at) + j]
    BY DEF ChunkOf
  <1> HIDE DEF m, k, more, Q
  <1>8. ASSUME NEW j \in 1 .. n
        PROVE  more[m + j] = own[(m - at) + j] /\ Q[m + j] = [d \in 1 .. 3 |-> P[(m - at) + j][d] + o]
    <2>1. (m - at) + j \in DOMAIN P
      BY <1>2, <1>6
    <2>2. rows[(m - at) + j] = [d \in 1 .. 3 |-> P[(m - at) + j][d] + o]
      BY <1>1, <2>1
    <2> QED BY <1>3, <1>4, <1>7, <2>2
  <1>9. PICK G : Placed(box, more, Q, G, m + n) /\ LeadsBy(G, E, at, o, (m - at) + n)
    <2> DEFINE R == PosOf(inputs)
    <2>1. AlikeTo(more, items, m) /\ AlikeTo(Q, R, m)
      BY <1>3, <1>4 DEF AlikeTo
    <2>2. Continued(more, Q, own, P, m, m - at, n, o)
      BY <1>8 DEF Continued
    <2>3. Placed(box, items, R, F, m) /\ LeadsBy(F, E, at, o, m - at) /\ at \in 0 .. m
      BY <1>1
    <2> HIDE DEF R
    <2> QED BY <1>2, <1>5, <2>1, <2>2, <2>3, PlacedGrow
  <1>10. at \in 0 .. m + n /\ (m + n) - at <= k /\ (m + n) - at = (m - at) + n
    BY <1>1, <1>2
  <1>11. UnderWay(box, more, inputs \o y, own, rows, at, o, delta)
    <2> DEFINE l == Len(more)
    <2>1. l = m + n
      BY <1>3
    <2> HIDE DEF l
    <2>2. /\ at \in 0 .. l /\ l - at <= k /\ Placed(box, more, Q, G, l) /\ LeadsBy(G, E, at, o, l - at)
      BY <1>9, <1>10, <2>1
    <2> QED BY <1>1, <2>2, Zenon DEF UnderWay, Q, k, l
  <1> QED BY <1>11 DEF more

LEMMA SettledNext ==
    ASSUME BundleFixed, NEW items \in Seq(Items), NEW inputs, IsSequence(inputs), Len(inputs) = Len(items),
           NEW deltas \in Int, Settled(ImageBox, items, inputs, deltas),
           NEW item \in Items, item.tok # ImagePad,
           NEW input, input.pos = [d \in 1 .. 3 |-> Len(items) + deltas]
    PROVE  Settled(ImageBox, items \o <<item>>, inputs \o <<input>>, deltas)
  <1> DEFINE n == Len(items)
             box == ImageBox
             more == items \o <<item>>
             P == PosOf(inputs)
             Q == PosOf(inputs \o <<input>>)
             b == <<item>>
             y == <<input>>
  <1>1. PICK F : Placed(box, items, P, F, n) /\ F[n] = n + deltas
    BY DEF Settled
  <1>2. n \in Nat
    <2> HIDE DEF Items
    <2> QED OBVIOUS
  <1>3. b \in Seq(Items) /\ Len(b) = 1 /\ b[1] = item
    <2> HIDE DEF Items
    <2> QED OBVIOUS
  <1>4. IsSequence(y) /\ Len(y) = 1 /\ y[1] = input
    <2>1. y \in Seq({input})
      OBVIOUS
    <2> QED BY <2>1, SequenceOf
  <1> HIDE DEF b, y
  <1>5. Len(more) = n + 1 /\ (\A i \in 1 .. n : more[i] = items[i]) /\ more[n + 1] = item
    <2> HIDE DEF Items
    <2>1. more = Append(items, item)
      BY AppendIsConcat
    <2> HIDE DEF more
    <2> QED BY <2>1, AppendFacts
  <1>6. (\A i \in 1 .. n : Q[i] = P[i]) /\ Q[n + 1] = input.pos
    <2>1. Q = PosOf(inputs \o y)
      BY DEF y
    <2>2. /\ \A i \in 1 .. Len(inputs) : PosOf(inputs \o y)[i] = PosOf(inputs)[i]
          /\ \A j \in 1 .. Len(y) : PosOf(inputs \o y)[Len(inputs) + j] = y[j].pos
      BY <1>4, PosOfConcat DEF AlikeTo, Following
    <2>3. 1 \in 1 .. 1
      OBVIOUS
    <2> HIDE DEF Q, P
    <2> QED BY <1>4, <2>1, <2>2, <2>3 DEF P
  <1>7. Fronts(P, F, n) /\ F \in [0 .. n -> Nat] /\ F[n] \in Nat
    <2>1. Fronts(P, F, n)
      BY <1>1 DEF Placed
    <2>2. n \in 0 .. n
      BY <1>2
    <2> QED BY <2>1, <2>2 DEF Fronts
  <1> HIDE DEF Q, P, more, n
  <1>8. Q[n + 1] = [d \in 1 .. 3 |-> F[n]]
    BY <1>1, <1>6 DEF n
  <1>9. Q[n + 1] \in Positions
    BY <1>7, <1>8 DEF Positions
  <1>10. InPlace(box, more, Q, F, n + 1)
    <2>1. (n + 1) - 1 = n
      BY <1>2
    <2> QED BY <1>5, <1>8, <2>1 DEF InPlace
  <1>11. AlikeTo(more, items, n) /\ AlikeTo(Q, P, n)
    BY <1>5, <1>6 DEF AlikeTo
  <1> DEFINE G == Onward(F, n, Q[n + 1])
  <1>12. Placed(box, more, Q, G, n + 1)
    BY <1>1, <1>2, <1>9, <1>10, <1>11, PlacedNext
  <1>13. G[n + 1] = Max2(F[n], 1 + Top(Q[n + 1]))
    BY <1>1, <1>2, <1>9, <1>10, <1>11, PlacedNext
  <1>14. Top(Q[n + 1]) = F[n]
    <2>1. Q[n + 1][1] = F[n] /\ Q[n + 1][2] = F[n] /\ Q[n + 1][3] = F[n]
      BY <1>8
    <2> DEFINE f == F[n]
    <2>2. Top(Q[n + 1]) = Max2(f, Max2(f, f))
      BY <2>1 DEF Top
    <2> HIDE DEF f
    <2>3. Max2(f, Max2(f, f)) = f
      BY DEF Max2
    <2> QED BY <2>2, <2>3 DEF f
  <1> HIDE DEF G
  <1>15. G[n + 1] = (n + 1) + deltas
    <2> DEFINE f == F[n]
    <2>1. G[n + 1] = Max2(f, 1 + f) /\ f = n + deltas /\ f \in Nat
      BY <1>1, <1>7, <1>13, <1>14
    <2> HIDE DEF f
    <2>2. Max2(f, 1 + f) = (n + 1) + deltas
      BY <1>2, <2>1 DEF Max2
    <2> QED BY <2>1, <2>2
  <1>16. Settled(box, more, inputs \o <<input>>, deltas)
    BY <1>5, <1>12, <1>15 DEF Settled, Q
  <1> QED BY <1>16 DEF more

LEMMA UnderWayRows ==
    ASSUME NEW items, NEW inputs, NEW own \in Seq(Items), NEW rows, NEW at \in Nat, NEW o, NEW delta,
           UnderWay(ImageBox, items, inputs, own, rows, at, o, delta)
    PROVE  DOMAIN rows = 1 .. Len(own)
  <1>1. PICK P : P \in Seq(Positions) /\ Len(P) = Len(own) /\ rows = [i \in DOMAIN P |-> [d \in 1 .. 3 |-> P[i][d] + o]]
    BY DEF UnderWay, Measured
  <1>2. DOMAIN P = 1 .. Len(own)
    <2> HIDE DEF Positions
    <2> QED BY <1>1
  <1> QED BY <1>1, <1>2
-----------------------------------------------------------------------------
(* The invariant of the positions.                                         *)

\* The prompt that is being fed goes on from where the context was when it was staged.
PromptUnderWay ==
    /\ mrope.at = emb.at /\ req.delta \in Int
    /\ UnderWay(ImageBox, token_history, fed, req.items, mrope.rows, mrope.at,
                mrope.at + mrope.deltas - req.delta, req.delta)

ContextInPlace ==
    damage = {} =>
        /\ pc \in {"idle", "decode"} => Settled(ImageBox, token_history, fed, mrope.deltas)
        /\ pc \in {"fit", "chunk"} => PromptUnderWay

FileInPlace ==
    file # None /\ file.damage = {} => Settled(ImageBox, file.history, file.fed, file.deltas)

PositionsInv == ContextInPlace /\ FileInPlace

LEMMA InitPlaces == Init => PositionsInv
  <1> SUFFICES ASSUME Init PROVE PositionsInv
    OBVIOUS
  <1>1. /\ token_history = <<>> /\ fed = <<>> /\ pc = "idle" /\ file = None
        /\ mrope = [rows |-> <<>>, at |-> 0, deltas |-> 0]
    BY DEF Init
  <1>2. mrope.deltas = 0
    BY <1>1
  <1>3. Settled(ImageBox, <<>>, <<>>, 0)
    BY SettledEmpty
  <1> QED BY <1>1, <1>2, <1>3 DEF PositionsInv, ContextInPlace, FileInPlace

\* The frame is the bundle's.
LEMMA FileStays ==
    ASSUME PositionsInv, UNCHANGED <<bundle, file>>
    PROVE  FileInPlace' /\ ImageBox' = ImageBox
  <1>1. ImageBox' = ImageBox
    BY DEF bundle, ImageBox
  <1> QED BY <1>1 DEF PositionsInv, FileInPlace

\* Staging moves the prompt's own positions on to the front of the context.
LEMMA GeneratePlaces ==
    ASSUME BundleFixed, Feeding, PromptsEndInText, PositionsInv, NEW r \in Request, Generate(r)
    PROVE  PositionsInv'
  <1> DEFINE items == Expand(r.shape)
             P == PromptPositions(r.shape)
             pd == PositionDelta(P)
  <1>1. r.shape \in Shapes
    BY DEF Request
  <1>2. items \in Seq(Items)
    BY <1>1, PromptAligned DEF Aligned
  <1>3. pd \in Int
    BY <1>1, PromptPositionsType
  <1>4. PICK E : Measured(ImageBox, items, P, E)
    BY <1>1, PromptMeasured
  <1>5. /\ emb'.at = n_past
        /\ mrope' = [rows |-> [i \in DOMAIN P |-> [d \in 1 .. 3 |-> P[i][d] + PromptOrigin]],
                     at |-> n_past, deltas |-> mrope.deltas + pd]
        /\ req'.items = items /\ req'.delta = pd
        /\ pc = "idle" /\ pc' = "fit"
        /\ UNCHANGED <<bundle, token_history, fed, file, damage>>
    BY DEF Generate, PromptPositions, context
  <1> HIDE DEF items, P, pd
  <1>6. FileInPlace' /\ ImageBox' = ImageBox
    BY <1>5, FileStays
  <1>7. token_history \in Seq(Items) /\ n_past \in Nat /\ mrope.deltas \in Int
    BY TurnFacts DEF Feeding, Anchors
  <1>8. ASSUME damage = {} PROVE PromptUnderWay'
    <2> DEFINE rows == mrope'.rows
               o == PromptOrigin
    <2>1. Settled(ImageBox, token_history, fed, mrope.deltas)
      BY <1>5, <1>8 DEF PositionsInv, ContextInPlace
    <2>2. rows = [i \in DOMAIN P |-> [d \in 1 .. 3 |-> P[i][d] + o]] /\ mrope'.at = n_past /\ mrope'.deltas = mrope.deltas + pd
      BY <1>5
    <2>3. o = Len(token_history) + mrope.deltas
      BY DEF PromptOrigin, n_past
    <2> HIDE DEF rows, o
    <2>4. UnderWay(ImageBox, token_history, fed, items, rows, Len(token_history), o, PositionDelta(P))
      BY <1>2, <1>4, <1>7, <2>1, <2>2, <2>3, SettledBegins
    <2>5. mrope'.at + mrope'.deltas - req'.delta = o
      <3> DEFINE n == Len(token_history)
                 d == mrope.deltas
      <3>1. n \in Nat /\ d \in Int /\ mrope'.at = n /\ mrope'.deltas = d + pd /\ req'.delta = pd /\ o = n + d
        BY <1>5, <1>7, <2>2, <2>3 DEF n_past
      <3> HIDE DEF n, d
      <3>2. n + (d + pd) - pd = n + d
        BY <1>3, <3>1
      <3> QED BY <3>1, <3>2
    <2>6. mrope'.at = Len(token_history) /\ pd = PositionDelta(P)
      BY <2>2 DEF n_past, pd
    <2>7. UnderWay(ImageBox', token_history', fed', req'.items, mrope'.rows, mrope'.at,
                   mrope'.at + mrope'.deltas - req'.delta, req'.delta)
      BY <1>5, <1>6, <2>4, <2>5, <2>6 DEF rows
    <2> QED BY <1>3, <1>5, <2>2, <2>7 DEF PromptUnderWay
  <1>9. ContextInPlace'
    BY <1>5, <1>8 DEF ContextInPlace
  <1> QED BY <1>6, <1>9 DEF PositionsInv

\* An eviction moves what is behind it, and says so.
LEMMA EvictPlaces ==
    ASSUME PositionsInv, NEW n, NEW g, Evict(n, g)
    PROVE  PositionsInv'
  <1>1. damage' # {} /\ UNCHANGED <<bundle, file>>
    BY DEF Evict
  <1>2. FileInPlace'
    BY <1>1, FileStays
  <1> QED BY <1>1, <1>2 DEF PositionsInv, ContextInPlace

\* An exception leaves a part of the prompt behind: counted on as text is, or marked.
LEMMA UnwindPlaces ==
    ASSUME Feeding, PositionsInv, pc \in {"fit", "chunk"}, Unwind(FALSE)
    PROVE  PositionsInv'
  <1>1. /\ UNCHANGED <<bundle, token_history, fed, mrope, file>> /\ pc' = "idle"
        /\ damage' = IF req.delta = 0 THEN damage ELSE damage \cup {"abandoned"}
    BY DEF Unwind, Leave, context, providers
  <1>2. FileInPlace' /\ ImageBox' = ImageBox
    BY <1>1, FileStays
  <1>3. ASSUME damage' = {} PROVE Settled(ImageBox, token_history, fed, mrope.deltas)
    <2> DEFINE at == mrope.at
               deltas == mrope.deltas
               own == req.items
    <2>1. damage = {} /\ req.delta = 0
      BY <1>1, <1>3
    <2>2. UnderWay(ImageBox, token_history, fed, own, mrope.rows, at, at + deltas - 0, 0)
      BY <2>1 DEF PositionsInv, ContextInPlace, PromptUnderWay
    <2>3. token_history \in Seq(Items) /\ own \in Seq(Items) /\ at \in Nat /\ deltas \in Int
      BY VLMAssumption, TurnFacts DEF VLMAssumption, Feeding, Anchors, Stages
    <2> HIDE DEF at, deltas, own
    <2>4. Settled(ImageBox, token_history, fed, deltas)
      BY <2>2, <2>3, UnderWayInStep
    <2> QED BY <2>4 DEF deltas
  <1>4. ContextInPlace'
    BY <1>1, <1>2, <1>3 DEF ContextInPlace
  <1> QED BY <1>2, <1>4 DEF PositionsInv

\* An exception behind a prompt leaves what was fed in its places.
LEMMA UnwindBehindPlaces ==
    ASSUME PositionsInv, pc = "decode", Unwind(TRUE)
    PROVE  PositionsInv'
  <1>1. UNCHANGED <<bundle, token_history, fed, mrope, file, damage>> /\ pc' = "idle"
    BY DEF Unwind, Leave, context, providers
  <1>2. FileInPlace' /\ ImageBox' = ImageBox
    BY <1>1, FileStays
  <1>3. ContextInPlace'
    BY <1>1, <1>2 DEF PositionsInv, ContextInPlace
  <1> QED BY <1>2, <1>3 DEF PositionsInv

LEMMA FitPromptPlaces ==
    ASSUME Feeding, PositionsInv, FitPrompt
    PROVE  PositionsInv'
  <1>1. pc = "fit"
    BY DEF FitPrompt
  <1>2. CASE PromptFits /\ pc' = "chunk" /\ UNCHANGED <<bundle, context, providers, req, file, damage>>
    <2>1. UNCHANGED <<bundle, token_history, fed, emb, mrope, req, file, damage>>
      BY <1>2 DEF context, providers
    <2>2. FileInPlace' /\ ImageBox' = ImageBox
      BY <2>1, FileStays
    <2>3. PromptUnderWay => PromptUnderWay'
      BY <2>1, <2>2 DEF PromptUnderWay
    <2>4. ContextInPlace'
      BY <1>1, <1>2, <2>1, <2>3 DEF PositionsInv, ContextInPlace
    <2> QED BY <2>2, <2>4 DEF PositionsInv
  <1>3. CASE Evict(Len(req.items), "evict_prompt")
    BY <1>3, EvictPlaces
  <1>4. CASE Unwind(FALSE)
    BY <1>1, <1>4, UnwindPlaces
  <1> QED BY <1>2, <1>3, <1>4 DEF FitPrompt

\* Where an eviction has been, the positions are marked.
LEMMA EvictedPlaces ==
    ASSUME Feeding, PositionsInv, pc = "chunk", goal # "prompt"
    PROVE  damage # {}
  BY DEF Feeding, StagedForPrompt, InStep

LEMMA PromptEvictedPlaces ==
    ASSUME Feeding, PositionsInv, PromptEvicted
    PROVE  PositionsInv'
  <1>1. pc = "chunk" /\ damage # {}
    BY EvictedPlaces DEF PromptEvicted
  <1>2. CASE PromptFits /\ UNCHANGED <<bundle, file, damage>>
    <2>1. FileInPlace'
      BY <1>2, FileStays
    <2> QED BY <1>1, <1>2, <2>1 DEF PositionsInv, ContextInPlace
  <1>3. CASE Unwind(FALSE)
    BY <1>1, <1>3, UnwindPlaces
  <1> QED BY <1>2, <1>3 DEF PromptEvicted

LEMMA DecodeEvictedPlaces ==
    ASSUME Feeding, PositionsInv, DecodeEvicted
    PROVE  PositionsInv'
  <1>1. damage # {} /\ UNCHANGED <<bundle, file, damage>>
    BY EvictedPlaces DEF DecodeEvicted
  <1>2. FileInPlace'
    BY <1>1, FileStays
  <1> QED BY <1>1, <1>2 DEF PositionsInv, ContextInPlace

\* A chunk of the prompt is given the staged positions of its own tokens.
LEMMA ChunkPlaced ==
    ASSUME Feeding, InStep, PromptUnderWay, pc = "chunk",
           NEW n \in 1 .. Len(todo), NEW c, c = SubSeq(todo, 1, n),
           NEW y, \A j \in 1 .. n : y[j].pos = PrefillPosition(j)
    PROVE  /\ ChunkOf(req.items, mrope.rows, c, y, n_past - mrope.at, n)
           /\ (n_past - mrope.at) + n <= Len(req.items)
  <1> DEFINE own == req.items
             a == n_past - emb.at
             rows == mrope.rows
  <1>1. own \in Seq(Items) /\ rows # <<>>
    BY DEF Feeding, Stages
  <1>2. Len(own) \in Nat
    <2> HIDE DEF own, Items
    <2> QED BY <1>1
  <1>3. a \in 0 .. Len(own) /\ todo = SubSeq(own, a + 1, Len(own))
    BY DEF InStep
  <1>4. n_past \in Nat /\ emb.at \in Nat /\ mrope.at = emb.at
    BY TurnFacts DEF Feeding, Anchors, PromptUnderWay
  <1>5. DOMAIN rows = 1 .. Len(own)
    <2> DEFINE at == mrope.at
               o == mrope.at + mrope.deltas - req.delta
               delta == req.delta
    <2>1. UnderWay(ImageBox, token_history, fed, own, rows, at, o, delta) /\ at \in Nat
      BY <1>4 DEF PromptUnderWay
    <2> HIDE DEF own, rows, at, o, delta
    <2> QED BY <1>1, <2>1, UnderWayRows
  <1> HIDE DEF own, rows, Items
  <1>6. todo \in Seq(Items) /\ Len(todo) = Len(own) - a /\ \A i \in 1 .. Len(own) - a : todo[i] = own[a + i]
    BY <1>1, <1>3, Behind
  <1>7. \A j \in 1 .. n : c[j] = todo[j]
    <2>1. n \in Nat /\ 1 \in Nat \ {0} /\ n <= Len(todo) /\ 1 <= n
      BY <1>6
    <2> HIDE DEF a
    <2>2. \A i \in 1 .. n - 1 + 1 : SubSeq(todo, 1, n)[i] = todo[1 + i - 1]
      BY <1>6, <2>1, Slice
    <2> QED BY <2>1, <2>2
  <1>8. ASSUME NEW j \in 1 .. n PROVE c[j] = own[a + j] /\ y[j].pos = rows[a + j]
    <2>1. j \in 1 .. Len(own) - a /\ a + j \in 1 .. Len(own)
      BY SMTT(40), <1>2, <1>3, <1>6
    <2>2. LocalRow(mrope.at, j) = a + j
      BY <1>4 DEF LocalRow
    <2>3. PrefillPosition(j) = StagedRow(rows, mrope.at, j)
      BY <1>1, Zenon DEF PrefillPosition, rows
    <2>4. StagedRow(rows, mrope.at, j) = rows[a + j]
      BY <1>5, <2>1, <2>2, Zenon DEF StagedRow
    <2> QED BY <1>6, <1>7, <2>1, <2>3, <2>4
  <1>9. n_past - mrope.at = a
    BY <1>4
  <1>10. a + n <= Len(own)
    BY SMTT(40), <1>2, <1>3, <1>6
  <1> QED BY <1>8, <1>9, <1>10 DEF ChunkOf, own, rows

LEMMA PrefillChunkPlaces ==
    ASSUME BundleFixed, Feeding, PositionsInv, PrefillChunk
    PROVE  PositionsInv'
  <1> DEFINE n == Min2(Len(todo), SeqLenPrefill)
             c == SubSeq(todo, 1, n)
             y == [j \in 1 .. n |-> [emb  |-> PrefillEmbedding(c, j),
                                     pos  |-> PrefillPosition(j),
                                     deep |-> PrefillDeepstack(j)]]
  <1>1. /\ pc = "chunk" /\ todo # <<>> /\ pc' = "chunk"
        /\ token_history' = token_history \o c /\ fed' = fed \o y
        /\ UNCHANGED <<bundle, emb, mrope, req, file, damage>>
    BY DEF PrefillChunk, providers
  <1>2. todo \in Seq(Items) /\ Len(todo) \in Nat \ {0}
    <2>1. todo \in Seq(Items)
      BY <1>1 DEF Feeding, Stages
    <2> HIDE DEF Items
    <2> QED BY <1>1, <2>1, EmptySeq
  <1>3. n \in 1 .. Len(todo)
    BY <1>2, VLMAssumption DEF VLMAssumption, Min2
  <1>4. IsSequence(y) /\ Len(y) = n /\ \A j \in 1 .. n : y[j].pos = PrefillPosition(j)
    <2>1. n \in Nat /\ y = [j \in 1 .. n |-> y[j]]
      BY <1>3
    <2>2. \A j \in 1 .. n : y[j].pos = PrefillPosition(j)
      OBVIOUS
    <2> HIDE DEF y, n
    <2> QED BY <2>1, <2>2, MadeSequence
  <1> HIDE DEF n, y, c
  <1>5. c \in Seq(Items) /\ Len(c) = n
    <2> HIDE DEF Items
    <2>1. n \in Nat /\ 1 \in Nat \ {0} /\ n <= Len(todo) /\ 1 <= n
      BY <1>3
    <2>2. c \in Seq(Items) /\ Len(c) = IF 1 <= n THEN n - 1 + 1 ELSE 0
      BY <1>2, <2>1, Slice DEF c
    <2> QED BY <2>1, <2>2
  <1>6. FileInPlace' /\ ImageBox' = ImageBox
    BY <1>1, FileStays
  <1>7. ASSUME damage = {} PROVE PromptUnderWay'
    <2> DEFINE own == req.items
               rows == mrope.rows
               at == mrope.at
               delta == req.delta
               deltas == mrope.deltas
               o == at + deltas - delta
    <2>1. InStep /\ PromptUnderWay
      BY <1>1, <1>7 DEF Feeding, StagedForPrompt, PositionsInv, ContextInPlace
    <2>2. ChunkOf(own, rows, c, y, n_past - at, n) /\ (n_past - at) + n <= Len(own)
      BY <1>1, <1>3, <1>4, <2>1, ChunkPlaced DEF c
    <2>3. /\ at \in Nat /\ delta \in Int /\ deltas \in Int /\ own \in Seq(Items)
          /\ UnderWay(ImageBox, token_history, fed, own, rows, at, o, delta)
      BY <1>1, <2>1, VLMAssumption DEF VLMAssumption, Feeding, Anchors, Stages, PromptUnderWay
    <2>4. /\ token_history \in Seq(Items) /\ IsSequence(fed) /\ Len(fed) = Len(token_history)
          /\ n_past = Len(token_history)
      BY DEF Feeding, Contexts, ContextRight, n_past
    <2> HIDE DEF own, rows, at, delta, deltas
    <2>5. o \in Int
      BY <2>3
    <2> HIDE DEF o
    <2>6. ChunkOf(own, rows, c, y, Len(token_history) - at, n) /\ (Len(token_history) - at) + n <= Len(own) /\ n \in Nat
      BY <1>3, <2>2, <2>4
    <2>7. UnderWay(ImageBox, token_history \o c, fed \o y, own, rows, at, o, delta)
      BY <1>4, <1>5, <2>3, <2>4, <2>5, <2>6, UnderWayGrows
    <2> QED BY <1>1, <1>6, <2>1, <2>7 DEF PromptUnderWay, own, rows, at, delta, deltas, o
  <1>8. ContextInPlace'
    BY <1>1, <1>7 DEF ContextInPlace
  <1> QED BY <1>6, <1>8 DEF PositionsInv

LEMMA PromptDonePlaces ==
    ASSUME Feeding, PositionsInv, PromptDone
    PROVE  PositionsInv'
  <1>1. /\ pc = "chunk" /\ todo = <<>> /\ pc' = "decode"
        /\ UNCHANGED <<bundle, token_history, fed, mrope, file, damage>>
    BY DEF PromptDone, context, providers
  <1>2. FileInPlace' /\ ImageBox' = ImageBox
    BY <1>1, FileStays
  <1>3. ASSUME damage = {} PROVE Settled(ImageBox, token_history, fed, mrope.deltas)
    <2> DEFINE at == mrope.at
               deltas == mrope.deltas
               delta == req.delta
               own == req.items
               rows == mrope.rows
               a == n_past - emb.at
    <2>1. InStep /\ PromptUnderWay
      BY <1>1, <1>3 DEF Feeding, StagedForPrompt, PositionsInv, ContextInPlace
    <2>2. /\ at \in Nat /\ delta \in Int /\ deltas \in Int /\ own \in Seq(Items)
          /\ UnderWay(ImageBox, token_history, fed, own, rows, at, at + deltas - delta, delta)
      BY <1>1, <2>1, VLMAssumption DEF VLMAssumption, Feeding, Anchors, Stages, PromptUnderWay
    <2>3. a \in 0 .. Len(own) /\ todo = SubSeq(own, a + 1, Len(own))
      BY <1>1, <2>1 DEF InStep
    <2>4. token_history \in Seq(Items) /\ n_past = Len(token_history) /\ n_past \in Nat /\ emb.at = at
      BY <2>1, TurnFacts DEF n_past, PromptUnderWay
    <2>5. Len(token_history) - at = Len(own)
      <3> HIDE DEF own, at, a, Items
      <3>1. Len(todo) = Len(own) - a /\ Len(own) \in Nat
        BY <2>2, <2>3, Behind
      <3>2. Len(todo) = 0
        BY <1>1
      <3>3. a = Len(own)
        BY <2>3, <3>1, <3>2
      <3> QED BY <2>4, <3>3 DEF a
    <2> HIDE DEF at, deltas, delta, own, rows, a
    <2>6. Settled(ImageBox, token_history, fed, deltas)
      BY <2>2, <2>4, <2>5, UnderWayDone
    <2> QED BY <2>6 DEF deltas
  <1>4. ContextInPlace'
    BY <1>1, <1>2, <1>3 DEF ContextInPlace
  <1> QED BY <1>2, <1>4 DEF PositionsInv

LEMMA SequenceAppend ==
    ASSUME NEW s, IsSequence(s), NEW x
    PROVE  Append(s, x) = s \o <<x>>
  <1> DEFINE S == {s[i] : i \in DOMAIN s} \cup {x}
  <1>1. s \in Seq(S)
    <2>1. s \in Seq({s[i] : i \in DOMAIN s})
      BY DEF IsSequence
    <2>2. Len(s) \in Nat /\ DOMAIN s = 1 .. Len(s) /\ s = [i \in 1 .. Len(s) |-> s[i]]
      BY <2>1
    <2>3. \A i \in 1 .. Len(s) : s[i] \in S
      BY <2>2
    <2> HIDE DEF S
    <2> QED BY <2>2, <2>3
  <1>2. x \in S
    OBVIOUS
  <1> HIDE DEF S
  <1> QED BY <1>1, <1>2, AppendIsConcat

\* A decode step counts on from the front of the context.
LEMMA DecodePlaces ==
    ASSUME BundleFixed, Feeding, PositionsInv, Decode
    PROVE  PositionsInv'
  <1> DEFINE item == [tok |-> next_token, means |-> next_token]
             input == [emb |-> next_token, pos |-> CountedPosition(1), deep |-> None]
  <1>1. /\ pc = "decode" /\ pc' = "decode"
        /\ token_history' = Append(token_history, item) /\ fed' = Append(fed, input)
        /\ UNCHANGED <<bundle, mrope, file, damage>>
    BY DEF Decode, GoesOn, providers
  <1>2. next_token \in Text \cup Eos /\ next_token # ImagePad
    <2>1. next_token \in Text \cup Eos
      BY <1>1 DEF Feeding, Stages
    <2> QED BY <2>1, VLMAssumption DEF VLMAssumption
  <1>3. item \in Items /\ item.tok # ImagePad
    BY <1>2 DEF Items, Tokens
  <1>4. /\ token_history \in Seq(Items) /\ IsSequence(fed) /\ Len(fed) = Len(token_history)
        /\ n_past = Len(token_history) /\ n_past \in Nat /\ mrope.deltas \in Int
    BY TurnFacts DEF Feeding, Contexts, ContextRight, Anchors, n_past
  <1>5. input.pos = [d \in 1 .. 3 |-> Len(token_history) + mrope.deltas]
    <2> DEFINE m == n_past
               k == mrope.deltas
    <2>1. input.pos = [d \in 1 .. 3 |-> m + 1 - 1 + k]
      BY DEF CountedPosition
    <2>2. m \in Nat /\ k \in Int /\ m = Len(token_history)
      BY <1>4
    <2> HIDE DEF m, k, input
    <2>3. m + 1 - 1 + k = m + k
      BY <2>2
    <2>4. input.pos = [d \in 1 .. 3 |-> m + k]
      BY <2>1, <2>3, Zenon
    <2> QED BY <2>2, <2>4 DEF k
  <1> HIDE DEF item, input
  <1>6. token_history' = token_history \o <<item>> /\ fed' = fed \o <<input>>
    <2>1. token_history' = token_history \o <<item>>
      <3> HIDE DEF Items
      <3> QED BY <1>1, <1>3, <1>4, AppendIsConcat
    <2>2. fed' = fed \o <<input>>
      BY <1>1, <1>4, SequenceAppend
    <2> QED BY <2>1, <2>2
  <1>7. FileInPlace' /\ ImageBox' = ImageBox
    BY <1>1, FileStays
  <1>8. ASSUME damage = {} PROVE Settled(ImageBox, token_history', fed', mrope.deltas)
    <2> DEFINE deltas == mrope.deltas
    <2>1. Settled(ImageBox, token_history, fed, deltas)
      BY <1>1, <1>8 DEF PositionsInv, ContextInPlace
    <2>2. deltas \in Int /\ input.pos = [d \in 1 .. 3 |-> Len(token_history) + deltas]
      BY <1>4, <1>5
    <2> HIDE DEF deltas
    <2>3. Settled(ImageBox, token_history \o <<item>>, fed \o <<input>>, deltas)
      BY <1>3, <1>4, <2>1, <2>2, SettledNext
    <2> QED BY <1>6, <2>3 DEF deltas
  <1>9. ContextInPlace'
    BY <1>1, <1>7, <1>8 DEF ContextInPlace
  <1> QED BY <1>7, <1>9 DEF PositionsInv

LEMMA ReturnPlaces ==
    ASSUME PositionsInv, Return
    PROVE  PositionsInv'
  <1>1. /\ pc = "decode" /\ pc' = "idle"
        /\ mrope' = [mrope EXCEPT !.rows = <<>>, !.at = 0]
        /\ UNCHANGED <<bundle, token_history, fed, file, damage>>
    BY DEF Return, Leave, context
  <1>2. mrope'.deltas = mrope.deltas
    BY <1>1
  <1>3. FileInPlace' /\ ImageBox' = ImageBox
    BY <1>1, FileStays
  <1>4. ContextInPlace'
    BY <1>1, <1>2, <1>3 DEF PositionsInv, ContextInPlace
  <1> QED BY <1>3, <1>4 DEF PositionsInv

\* A conversation that starts over is in its places if the deltas start over too.
LEMMA ResetPlaces ==
    ASSUME BundleFixed, PositionsInv, ResetKVCache
    PROVE  PositionsInv'
  <1>1. /\ pc = "idle" /\ pc' = "idle" /\ token_history' = <<>> /\ fed' = <<>>
        /\ UNCHANGED <<bundle, file>>
    BY DEF ResetKVCache
  <1>2. damage' = {} => mrope'.deltas = 0
    BY DEF ResetKVCache, DeltasAfterReset, BundleFixed, Families
  <1>3. FileInPlace' /\ ImageBox' = ImageBox
    BY <1>1, FileStays
  <1>4. Settled(ImageBox, <<>>, <<>>, 0)
    BY SettledEmpty
  <1>5. ContextInPlace'
    BY <1>1, <1>2, <1>3, <1>4 DEF ContextInPlace
  <1> QED BY <1>3, <1>5 DEF PositionsInv

LEMMA SavePlaces ==
    ASSUME PositionsInv, SaveKVCache
    PROVE  PositionsInv'
  <1>1. /\ pc = "idle" /\ UNCHANGED <<bundle, token_history, fed, mrope, pc, damage>>
        /\ file' = [history |-> token_history, fed |-> fed, deltas |-> mrope.deltas, damage |-> damage]
    BY DEF SaveKVCache, context, providers
  <1>2. ImageBox' = ImageBox
    BY <1>1 DEF bundle, ImageBox
  <1>3. damage = {} => Settled(ImageBox, token_history, fed, mrope.deltas)
    BY <1>1 DEF PositionsInv, ContextInPlace
  <1>4. ContextInPlace'
    BY <1>1, <1>2, <1>3 DEF ContextInPlace
  <1>5. FileInPlace'
    <2>1. file'.history = token_history /\ file'.fed = fed /\ file'.deltas = mrope.deltas /\ file'.damage = damage
      BY <1>1
    <2> QED BY <1>2, <1>3, <2>1 DEF FileInPlace
  <1> QED BY <1>4, <1>5 DEF PositionsInv

LEMMA LoadPlaces ==
    ASSUME PositionsInv, LoadKVCache
    PROVE  PositionsInv'
  <1>1. /\ pc = "idle" /\ file # None /\ token_history' = file.history /\ fed' = file.fed
        /\ UNCHANGED <<bundle, mrope, pc, file>>
    BY DEF LoadKVCache, providers
  <1>2. damage' = {} => file.damage = {} /\ file.deltas = mrope.deltas
    BY DEF LoadKVCache
  <1>3. FileInPlace' /\ ImageBox' = ImageBox
    BY <1>1, FileStays
  <1>4. damage' = {} => Settled(ImageBox, file.history, file.fed, mrope.deltas)
    BY <1>1, <1>2 DEF PositionsInv, FileInPlace
  <1>5. ContextInPlace'
    BY <1>1, <1>3, <1>4 DEF ContextInPlace
  <1> QED BY <1>3, <1>5 DEF PositionsInv

LEMMA StutterPlaces ==
    ASSUME PositionsInv, UNCHANGED vars
    PROVE  PositionsInv'
  <1>1. UNCHANGED <<bundle, token_history, fed, emb, mrope, pc, req, file, damage>>
    BY DEF vars, bundle
  <1>2. FileInPlace' /\ ImageBox' = ImageBox
    BY <1>1, FileStays
  <1>3. PromptUnderWay => PromptUnderWay'
    BY <1>1, <1>2 DEF PromptUnderWay
  <1>4. ContextInPlace'
    BY <1>1, <1>2, <1>3 DEF PositionsInv, ContextInPlace
  <1> QED BY <1>2, <1>4 DEF PositionsInv

LEMMA PositionsInvariant == PromptsEndInText => (Spec => []PositionsInv)
  <1> SUFFICES ASSUME PromptsEndInText PROVE Spec => []PositionsInv
    OBVIOUS
  <1>1. VLMInv /\ PositionsInv /\ [Next]_vars => PositionsInv'
    <2> SUFFICES ASSUME BundleFixed, Feeding, PositionsInv, [Next]_vars PROVE PositionsInv'
      BY DEF VLMInv
    <2>1. CASE \E r \in Request : Generate(r)
      BY <2>1, GeneratePlaces
    <2>2. CASE FitPrompt
      BY <2>2, FitPromptPlaces
    <2>3. CASE PromptEvicted
      BY <2>3, PromptEvictedPlaces
    <2>4. CASE PrefillChunk
      BY <2>4, PrefillChunkPlaces
    <2>5. CASE PrefillFails
      BY <2>5, UnwindPlaces DEF PrefillFails
    <2>6. CASE PromptDone
      BY <2>6, PromptDonePlaces
    <2>7. CASE Decode
      BY <2>7, DecodePlaces
    <2>8. CASE DecodeFull
      <3>1. pc = "decode" /\ (Evict(1, "evict_decode") \/ Unwind(TRUE))
        BY <2>8 DEF DecodeFull, GoesOn
      <3> QED BY <3>1, EvictPlaces, UnwindBehindPlaces
    <2>9. CASE DecodeEvicted
      BY <2>9, DecodeEvictedPlaces
    <2>10. CASE DecodeFails
      BY <2>10, UnwindBehindPlaces DEF DecodeFails, GoesOn
    <2>11. CASE Return
      BY <2>11, ReturnPlaces
    <2>12. CASE ResetKVCache
      BY <2>12, ResetPlaces
    <2>13. CASE SaveKVCache
      BY <2>13, SavePlaces
    <2>14. CASE LoadKVCache
      BY <2>14, LoadPlaces
    <2>15. CASE UNCHANGED vars
      BY <2>15, StutterPlaces
    <2> QED BY <2>1, <2>2, <2>3, <2>4, <2>5, <2>6, <2>7, <2>8, <2>9, <2>10, <2>11, <2>12, <2>13,
               <2>14, <2>15 DEF Next
  <1> QED BY <1>1, VLMInvariant, InitPlaces, PTL DEF Spec
-----------------------------------------------------------------------------
(* What the property calls frontiers.                                      *)

LEMMA MaxIsTop ==
    ASSUME NEW p \in Positions
    PROVE  Max({p[d] : d \in 1 .. 3}) = Top(p)
  <1> DEFINE M == {p[d] : d \in 1 .. 3}
             t == Top(p)
  <1>1. /\ \A d \in 1 .. 3 : p[d] \in Nat /\ p[d] <= t
        /\ t \in Nat /\ t \in {p[1], p[2], p[3]}
    <2> DEFINE a == p[1]
               b == p[2]
               c == p[3]
    <2>1. a \in Nat /\ b \in Nat /\ c \in Nat /\ a <= t /\ b <= t /\ c <= t /\ t \in Nat
      BY TopFacts
    <2>2. t = Max2(a, Max2(b, c))
      BY DEF Top
    <2> HIDE DEF a, b, c, t
    <2>3. t \in {a, b, c}
      BY <2>1, <2>2 DEF Max2
    <2>4. \A d \in 1 .. 3 : d = 1 \/ d = 2 \/ d = 3
      OBVIOUS
    <2> QED BY <2>1, <2>3, <2>4 DEF a, b, c
  <1> HIDE DEF t
  <1>2. t \in M /\ \A y \in M : y \in Nat /\ t >= y
    <2>1. 1 \in 1 .. 3 /\ 2 \in 1 .. 3 /\ 3 \in 1 .. 3
      OBVIOUS
    <2>2. t \in M
      BY <1>1, <2>1
    <2>3. ASSUME NEW y \in M PROVE y \in Nat /\ t >= y
      BY <1>1
    <2> QED BY <2>2, <2>3
  <1> DEFINE x == Max(M)
  <1>3. x = CHOOSE z \in M : \A y \in M : z >= y
    BY DEF Max
  <1> HIDE DEF M, x
  <1>4. x \in M /\ \A y \in M : x >= y
    BY <1>2, <1>3
  <1>5. x = t
    BY <1>1, <1>2, <1>4
  <1> QED BY <1>5 DEF x, M, t

LEMMA FrontiersAreFronts ==
    ASSUME NEW F, n_past \in Nat, IsSequence(fed), Len(fed) = n_past, Fronts(PosOf(fed), F, n_past)
    PROVE  \A j \in 0 .. n_past : Frontiers[j + 1] = F[j]
  <1> DEFINE n == n_past
             top(i) == Max({fed[i].pos[d] : d \in 1 .. 3})
             grown(g, i) == Append(g, Max2(Last(g), 1 + top(i)))
             Is(f) == f = [i \in 0 .. n |-> IF i = 0 THEN <<0>> ELSE grown(f[i - 1], i)]
             s == CHOOSE f : Is(f)
             upto(i) == [j \in 1 .. i + 1 |-> F[j - 1]]
             h == [i \in 0 .. n |-> upto(i)]
  <1>1. Frontiers = s[n]
    BY DEF Frontiers
  <1>2. /\ n \in Nat /\ F \in [0 .. n -> Nat] /\ F[0] = 0
        /\ \A i \in 1 .. n : F[i] = Max2(F[i - 1], 1 + top(i))
    <2>1. ASSUME NEW i \in 1 .. n PROVE F[i] = Max2(F[i - 1], 1 + top(i))
      <3> DEFINE p == PosOf(fed)[i]
      <3>1. i \in DOMAIN fed
        BY DEF IsSequence
      <3>2. p = fed[i].pos
        BY <3>1 DEF PosOf
      <3>3. p \in Positions /\ F[i] = Max2(F[i - 1], 1 + Top(p))
        BY DEF Fronts
      <3>4. Max({p[d] : d \in 1 .. 3}) = Top(p)
        BY <3>3, MaxIsTop
      <3> HIDE DEF p
      <3> QED BY <3>2, <3>3, <3>4
    <2> QED BY <2>1 DEF Fronts
  <1> HIDE DEF n, top
  <1>3. ASSUME NEW i \in 1 .. n PROVE upto(i) = grown(upto(i - 1), i)
    <2> DEFINE g == upto(i - 1)
               x == F[i]
    <2>1. i - 1 \in Nat /\ (i - 1) + 1 = i /\ i \in Nat /\ i \in 1 .. i /\ \A j \in 1 .. i + 1 : j - 1 \in 0 .. n
      BY <1>2
    <2>2. \A j \in 0 .. n : F[j] \in Nat
      BY <1>2
    <2>3. g = [j \in 1 .. i |-> F[j - 1]]
      BY <2>1
    <2> HIDE DEF g, x
    <2>4. g \in Seq(Nat) /\ Len(g) = i
      <3>1. \A j \in 1 .. i : F[j - 1] \in Nat
        BY <2>1, <2>2
      <3> QED BY <2>1, <2>3, <3>1
    <2>5. Last(g) = F[i - 1]
      BY <2>1, <2>3, <2>4 DEF Last
    <2>6. grown(g, i) = Append(g, x)
      BY <1>2, <2>5 DEF x
    <2>7. x \in Nat
      BY <1>2 DEF x
    <2> DEFINE a == Append(g, x)
    <2>8. a \in Seq(Nat) /\ Len(a) = i + 1 /\ a[i + 1] = x /\ \A j \in 1 .. i : a[j] = g[j]
      BY <2>4, <2>7, AppendFacts
    <2> HIDE DEF a
    <2>9. \A j \in 1 .. i + 1 : a[j] = F[j - 1]
      <3> SUFFICES ASSUME NEW j \in 1 .. i + 1 PROVE a[j] = F[j - 1]
        OBVIOUS
      <3>1. CASE j = i + 1
        <4>1. (i + 1) - 1 = i
          BY <2>1
        <4> QED BY <2>8, <3>1, <4>1 DEF x
      <3>2. CASE j # i + 1
        <4>1. j \in 1 .. i
          BY <2>1, <3>2
        <4> QED BY <2>3, <2>8, <4>1
      <3> QED BY <3>1, <3>2
    <2>10. a = [j \in 1 .. i + 1 |-> a[j]]
      BY <2>1, <2>8
    <2>11. a = upto(i)
      BY <2>9, <2>10
    <2> QED BY <2>6, <2>11 DEF a, g
  <1>4. upto(0) = <<0>>
    <2> DEFINE z == <<0>>
    <2>1. \A j \in 1 .. 0 + 1 : F[j - 1] = 0
      <3>1. \A j \in 1 .. 0 + 1 : j - 1 = 0
        OBVIOUS
      <3> QED BY <1>2, <3>1
    <2>2. upto(0) = [j \in 1 .. 1 |-> 0]
      BY <2>1
    <2> QED BY <2>2
  <1> HIDE DEF upto, grown
  <1>5. Is(h)
    <2>1. \A i \in 0 .. n : h[i] = upto(i)
      OBVIOUS
    <2> HIDE DEF h
    <2>2. ASSUME NEW i \in 0 .. n PROVE upto(i) = IF i = 0 THEN <<0>> ELSE grown(h[i - 1], i)
      <3>1. CASE i = 0
        BY <1>4, <3>1
      <3>2. CASE i # 0
        <4>1. i \in 1 .. n /\ i - 1 \in 0 .. n
          BY <1>2, <3>2
        <4> QED BY <1>3, <2>1, <3>2, <4>1
      <3> QED BY <3>1, <3>2
    <2>3. h = [i \in 0 .. n |-> upto(i)]
      BY DEF h
    <2> QED BY <2>2, <2>3
  <1>6. Is(s)
    <2> HIDE DEF Is
    <2> QED BY <1>5
  <1> HIDE DEF s, h
  <1>7. s[0] = <<0>> /\ \A i \in 1 .. n : s[i] = grown(s[i - 1], i)
    <2>1. 0 \in 0 .. n /\ \A i \in 1 .. n : i \in 0 .. n /\ i # 0
      BY <1>2
    <2>2. \A i \in 0 .. n : s[i] = IF i = 0 THEN <<0>> ELSE grown(s[i - 1], i)
      BY <1>6, Zenon
    <2> QED BY <2>1, <2>2, Zenon
  <1> DEFINE Good == {i \in Nat : i <= n => s[i] = upto(i)}
  <1>8. 0 \in Good
    BY <1>4, <1>7
  <1>9. ASSUME NEW i \in Nat, i \in Good PROVE i + 1 \in Good
    <2> SUFFICES ASSUME i + 1 <= n PROVE s[i + 1] = upto(i + 1)
      OBVIOUS
    <2>1. i + 1 \in 1 .. n /\ (i + 1) - 1 = i /\ i <= n
      BY <1>2
    <2>2. s[i] = upto(i)
      BY <1>9, <2>1
    <2>3. s[i + 1] = grown(s[(i + 1) - 1], i + 1) /\ upto(i + 1) = grown(upto((i + 1) - 1), i + 1)
      BY <1>3, <1>7, <2>1
    <2> QED BY <2>1, <2>2, <2>3
  <1> HIDE DEF Good
  <1>10. n \in Good
    BY <1>2, <1>8, <1>9, Induction
  <1>11. Frontiers = upto(n)
    BY <1>1, <1>2, <1>10 DEF Good
  <1>12. ASSUME NEW j \in 0 .. n PROVE upto(n)[j + 1] = F[j]
    <2>1. j + 1 \in 1 .. n + 1 /\ (j + 1) - 1 = j
      BY <1>2
    <2> QED BY <2>1 DEF upto
  <1> QED BY <1>11, <1>12 DEF n

\* Tokens in their places are where the property wants them.
LEMMA PlacedContinue ==
    ASSUME NEW F, n_past \in Nat, IsSequence(fed), Len(fed) = n_past,
           Placed(ImageBox, token_history, PosOf(fed), F, n_past)
    PROVE  PositionsInPlace
  <1> DEFINE front == Frontiers
             n == n_past
  <1>1. Fronts(PosOf(fed), F, n)
    BY DEF Placed
  <1>2. \A j \in 0 .. n : front[j + 1] = F[j]
    BY <1>1, FrontiersAreFronts
  <1>3. DOMAIN fed = 1 .. n
    BY DEF IsSequence
  <1> HIDE DEF front
  <1>4. ASSUME NEW i \in 1 .. n
        PROVE  fed[i].pos =
                 IF token_history[i].tok = ImagePad
                   THEN [d \in 1 .. 3 |-> front[i - token_history[i].means[2]]
                                            + BoxCell(<<1, grid[1], grid[2]>>, token_history[i].means[2])[d]]
                   ELSE [d \in 1 .. 3 |-> front[i]]
    <2> DEFINE g == GroupOf(token_history[i])
               box == ImageBox
    <2>1. InPlace(box, token_history, PosOf(fed), F, i) /\ PosOf(fed)[i] = fed[i].pos
      BY <1>3 DEF Placed, PosOf
    <2>2. CASE token_history[i].tok = ImagePad
      <3>1. g \in 0 .. i - 1 /\ fed[i].pos = [d \in 1 .. 3 |-> F[i - 1 - g] + BoxCell(box, g)[d]]
        BY <2>1, <2>2, Zenon DEF InPlace
      <3> HIDE DEF g, box
      <3>2. i - 1 - g \in 0 .. n /\ (i - 1 - g) + 1 = i - g
        BY <3>1
      <3>3. front[i - g] = F[i - 1 - g]
        BY <1>2, <3>2
      <3>4. fed[i].pos = [d \in 1 .. 3 |-> front[i - g] + BoxCell(box, g)[d]]
        BY <3>1, <3>3
      <3> QED BY <2>2, <3>4, Zenon DEF g, box, GroupOf, ImageBox
    <2>3. CASE token_history[i].tok # ImagePad
      <3>1. fed[i].pos = [d \in 1 .. 3 |-> F[i - 1]]
        BY <2>1, <2>3, Zenon DEF InPlace
      <3>2. i - 1 \in 0 .. n /\ (i - 1) + 1 = i
        OBVIOUS
      <3>3. front[i] = F[i - 1]
        BY <1>2, <3>2
      <3>4. fed[i].pos = [d \in 1 .. 3 |-> front[i]]
        BY <3>1, <3>3
      <3> QED BY <2>3, <3>4, Zenon
    <2> QED BY <2>2, <2>3
  <1> QED BY <1>4, Zenon DEF PositionsInPlace, front

\* Until one of Harms has happened, over any number of turns, images, chunks and decode
\* steps, saves, loads, failing graphs, and text prompts that were rejected or failed, text
\* stands one past everything before it and an image in a box that begins there: the
\* positions of computeMRoPEPositions, staged with n_past and mrope_deltas_ added and sliced
\* by n_past, and those a decode step counts, n_past + mrope_deltas_, are one sequence.
\* Nothing is claimed once an image prompt was abandoned, Qwen2.5-VL reset after an image, a
\* cache loaded under other deltas, or tokens evicted: the code shifts or repeats positions
\* then.  A prompt must end in text, as a chat template's does: mrope_deltas_ goes by the
\* last temporal position, which an image at the end leaves short of its box.
THEOREM PositionsAreRight == PromptsEndInText => (Spec => []PositionsContinue)
  <1> SUFFICES ASSUME PromptsEndInText PROVE Spec => []PositionsContinue
    OBVIOUS
  <1>1. VLMInv /\ PositionsInv => PositionsContinue
    <2> SUFFICES ASSUME Feeding, PositionsInv, damage = {} PROVE PositionsInPlace
      BY DEF VLMInv, PositionsContinue
    <2>1. n_past \in Nat /\ n_past = Len(token_history) /\ IsSequence(fed) /\ Len(fed) = n_past
      BY TurnFacts DEF Feeding, Contexts, ContextRight, n_past
    <2>2. PICK F : Placed(ImageBox, token_history, PosOf(fed), F, n_past)
      <3>1. CASE pc \in {"idle", "decode"}
        BY <2>1, <3>1 DEF PositionsInv, ContextInPlace, Settled
      <3>2. CASE pc \in {"fit", "chunk"}
        BY <2>1, <3>2 DEF PositionsInv, ContextInPlace, PromptUnderWay, UnderWay
      <3> QED BY <3>1, <3>2 DEF Feeding, Stages
    <2> QED BY <2>1, <2>2, PlacedContinue
  <1> QED BY <1>1, VLMInvariant, PositionsInvariant, PTL
=============================================================================
