-------------------------- MODULE ReshapeKVProofs ---------------------------
(***************************************************************************)
(* reshapeKV is correct for every number of rows, every pair of row        *)
(* lengths, every number of valid tokens and every buffer.                 *)
(***************************************************************************)
EXTENDS ReshapeKV, TLAPS

\* Row r is as the caller wants it: its tokens moved, its end cleared or left.
RowDone(r) ==
    /\ \A i \in 0 .. copy_len - 1 : buf[r * new_kv + i] = buf0[r * old_kv + i]
    /\ \A i \in copy_len .. new_kv - 1 :
          buf[r * new_kv + i] = IF Expanding THEN Zero ELSE buf0[r * new_kv + i]

\* Expanding: the rows above `row' are done, and nothing below the end of `row'
\* at the new stride, nor behind the last row, has been touched.
ExpandInv ==
    Expanding =>
        /\ row < rows
        /\ \A a \in Addr : a < (row + 1) * new_kv => buf[a] = buf0[a]
        /\ \A a \in Addr : a >= rows * new_kv => buf[a] = buf0[a]
        /\ \A r \in row + 1 .. rows - 1 : RowDone(r)

\* Contracting: the rows below `row' are done, and nothing from the beginning of
\* `row' at the new stride on has been touched.
ContractInv ==
    new_kv < old_kv =>
        /\ row >= 0
        /\ \A a \in Addr : a >= row * new_kv => buf[a] = buf0[a]
        /\ \A r \in 0 .. row - 1 : RowDone(r)

SameInv == old_kv = new_kv => buf = buf0 /\ row = rows

\* The loop invariant of reshapeKV.
LoopInv == TypeOK /\ ExpandInv /\ ContractInv /\ SameInv

-----------------------------------------------------------------------------
(* Arithmetic of addresses.                                                *)

LEMMA ProductNat == ASSUME NEW a \in Nat, NEW b \in Nat PROVE a * b \in Nat
  OBVIOUS

LEMMA ProductMonotone ==
  ASSUME NEW a \in Nat, NEW b \in Nat, NEW c \in Nat, a <= b
  PROVE  a * c <= b * c
<1> DEFINE d == b - a
<1>1. d \in Nat /\ b = a + d
  OBVIOUS
<1>2. d * c \in Nat
  BY <1>1, ProductNat
<1>3. b * c = a * c + d * c
  BY <1>1, SMT
<1>4. a * c \in Nat
  BY ProductNat
<1> HIDE DEF d
<1> QED BY <1>2, <1>3, <1>4

\* A row ends where the next one begins.
LEMMA NextRow ==
  ASSUME NEW r \in Nat, NEW s \in Nat
  PROVE  (r + 1) * s = r * s + s
  BY SMT

\* A token of a row of the buffer has an address of the buffer.
LEMMA InBuffer ==
  ASSUME NEW r \in Nat, NEW s \in Nat, NEW i \in Nat,
         r < MaxRows, s <= MaxKV, i < s
  PROVE  /\ r * s + i \in Addr
         /\ r * s \in Nat
<1>0. MaxRows \in Nat /\ MaxKV \in Nat
  BY ReshapeAssumption
<1>1. r * s \in Nat /\ (r + 1) * s = r * s + s
  BY NextRow, ProductNat
<1>2. (r + 1) * s <= MaxRows * s
  BY <1>0, ProductMonotone
<1>3. MaxRows * s <= MaxRows * MaxKV
  <2>1. s * MaxRows <= MaxKV * MaxRows
    BY <1>0, ProductMonotone
  <2> QED BY <2>1, <1>0, SMT
<1>4. MaxRows * s \in Nat /\ MaxRows * MaxKV \in Nat
  BY <1>0, ProductNat
<1> QED BY <1>1, <1>2, <1>3, <1>4 DEF Addr, BufLen

LEMMA QuotientRemainder ==
  ASSUME NEW a \in Nat, NEW s \in Nat \ {0}
  PROVE  \E q \in Nat, t \in 0 .. s - 1 :
            q = a \div s /\ t = a % s /\ a = q * s + t
<1>1. a \div s \in Nat /\ a % s \in 0 .. s - 1
  BY SMT
<1>2. a = s * (a \div s) + (a % s)
  BY SMT
<1>3. s * (a \div s) = (a \div s) * s
  BY <1>1, SMT
<1> QED BY <1>1, <1>2, <1>3

LEMMA CopyLenBounds ==
  ASSUME TypeOK
  PROVE  copy_len \in Nat /\ copy_len <= old_kv /\ copy_len <= new_kv
  BY DEF TypeOK, copy_len, CopyLen, Min2

-----------------------------------------------------------------------------
LEMMA InitLoopInv == Init => LoopInv
<1> SUFFICES ASSUME Init PROVE LoopInv
  OBVIOUS
<1> USE ReshapeAssumption
<1>1. TypeOK
  BY DEF Init, TypeOK, Expanding
<1>2. ExpandInv
  BY <1>1 DEF Init, ExpandInv, Expanding, TypeOK
<1>3. ContractInv
  BY <1>1 DEF Init, ContractInv, Expanding, TypeOK
<1>4. SameInv
  BY DEF Init, SameInv
<1> QED BY <1>1, <1>2, <1>3, <1>4 DEF LoopInv

\* Moving one row and clearing its end, when expanding.
LEMMA ExpandStep == LoopInv /\ ExpandRow => LoopInv'
<1> SUFFICES ASSUME LoopInv, ExpandRow PROVE LoopInv'
  OBVIOUS
<1>0. /\ TypeOK /\ ExpandInv /\ Expanding /\ row >= 0
      /\ rows' = rows /\ old_kv' = old_kv /\ new_kv' = new_kv
      /\ n_valid' = n_valid /\ buf0' = buf0 /\ row' = row - 1
  BY DEF LoopInv, ExpandRow, args
<1>1. /\ row \in Nat /\ row < rows /\ rows \in Nat /\ rows <= MaxRows
      /\ old_kv \in Nat /\ new_kv \in Nat /\ old_kv < new_kv /\ new_kv <= MaxKV
      /\ buf \in [Addr -> Cell] /\ buf0 \in [Addr -> Cell]
      /\ MaxRows \in Nat /\ MaxKV \in Nat /\ Zero \in Cell
  BY <1>0, ReshapeAssumption DEF TypeOK, ExpandInv, Expanding
<1> DEFINE L == copy_len
<1>2. L \in Nat /\ L <= old_kv /\ L <= new_kv /\ copy_len' = L
  BY <1>0, CopyLenBounds DEF copy_len
<1>3. Expanding'
  BY <1>0 DEF Expanding
<1> HIDE DEF L
<1> DEFINE base == row * new_kv
<1>4. /\ base \in Nat /\ row * old_kv \in Nat /\ row * old_kv <= base
      /\ (row + 1) * new_kv = base + new_kv
  <2>1. old_kv * row <= new_kv * row
    BY <1>1, ProductMonotone
  <2> QED BY <2>1, <1>1, NextRow, ProductNat, SMT
<1>4a. row' * new_kv' = (row - 1) * new_kv /\ (row' + 1) * new_kv' = base
  BY <1>0, <1>1
<1> HIDE DEF base
<1>5. buf' = [a \in Addr |->
                IF base + L <= a /\ a < base + new_kv THEN Zero
                ELSE IF base <= a /\ a < base + L THEN buf[row * old_kv + (a - base)]
                ELSE buf[a]]
  BY DEF ExpandRow, Filled, Moved, base, L
<1>6. \A i \in 0 .. L - 1 : /\ row * old_kv + i \in Addr
                            /\ buf[row * old_kv + i] = buf0[row * old_kv + i]
  <2> SUFFICES ASSUME NEW i \in 0 .. L - 1
               PROVE  /\ row * old_kv + i \in Addr
                      /\ buf[row * old_kv + i] = buf0[row * old_kv + i]
    OBVIOUS
  <2>1. row * old_kv + i \in Addr
    <3>1. i \in Nat /\ i < old_kv /\ row < MaxRows /\ old_kv <= MaxKV
      BY <1>1, <1>2
    <3> QED BY <3>1, <1>1, InBuffer
  <2>2. row * old_kv + i < (row + 1) * new_kv
    BY <1>1, <1>2, <1>4
  <2> QED BY <2>1, <2>2, <1>0 DEF ExpandInv
<1>7. TypeOK'
  <2>1. ASSUME NEW a \in Addr
        PROVE  (IF base + L <= a /\ a < base + new_kv THEN Zero
                ELSE IF base <= a /\ a < base + L THEN buf[row * old_kv + (a - base)]
                ELSE buf[a]) \in Cell
    <3>1. CASE base <= a /\ a < base + L
      <4>1. a \in Nat /\ a - base \in 0 .. L - 1
        BY <3>1, <1>2, <1>4, <1>1 DEF Addr
      <4>2. row * old_kv + (a - base) \in Addr
        BY <4>1, <1>6
      <4> QED BY <4>1, <4>2, <3>1, <1>1, <1>2, <1>4
    <3>2. CASE ~(base <= a /\ a < base + L)
      BY <3>2, <1>1
    <3> QED BY <3>1, <3>2
  <2>2. buf' \in [Addr -> Cell]
    BY <2>1, <1>5
  <2> QED BY <2>2, <1>0, <1>1 DEF TypeOK
<1>8. \A a \in Addr : a < base => buf'[a] = buf0[a]
  <2> SUFFICES ASSUME NEW a \in Addr, a < base PROVE buf'[a] = buf0[a]
    OBVIOUS
  <2>1. a \in Nat
    BY <1>1, ProductNat DEF Addr, BufLen
  <2>2. buf'[a] = buf[a]
    BY <1>5, <2>1, <1>2, <1>4, <1>1
  <2>3. a < (row + 1) * new_kv
    BY <2>1, <1>4, <1>1
  <2> QED BY <2>2, <2>3, <1>0 DEF ExpandInv
<1>8a. \A a \in Addr : a >= rows * new_kv => buf'[a] = buf0[a]
  <2> SUFFICES ASSUME NEW a \in Addr, a >= rows * new_kv PROVE buf'[a] = buf0[a]
    OBVIOUS
  <2>1. a \in Nat
    BY <1>1, ProductNat DEF Addr, BufLen
  <2>2. (row + 1) * new_kv <= rows * new_kv /\ rows * new_kv \in Nat
    BY <1>1, ProductMonotone, ProductNat
  <2>3. a >= base + new_kv
    BY <2>1, <2>2, <1>1, <1>4
  <2>4. buf'[a] = buf[a]
    BY <1>5, <2>1, <2>3, <1>2, <1>4, <1>1
  <2> QED BY <2>4, <1>0 DEF ExpandInv
<1>9. \A r \in row .. rows - 1 : RowDone(r)'
  <2> SUFFICES ASSUME NEW r \in row .. rows - 1 PROVE RowDone(r)'
    OBVIOUS
  <2>0. r \in Nat /\ r < rows /\ \A i \in 0 .. new_kv - 1 : r * new_kv + i \in Addr
    <3>1. r \in Nat /\ r < rows /\ r < MaxRows
      BY <1>1
    <3>2. \A i \in 0 .. new_kv - 1 : i \in Nat /\ i < new_kv
      BY <1>1
    <3> QED BY <3>1, <3>2, <1>1, InBuffer
  <2>1. CASE r = row
    <3>1. ASSUME NEW i \in 0 .. L - 1
          PROVE  buf'[r * new_kv + i] = buf0[r * old_kv + i]
      <4>1. base + i \in Addr /\ base + i - base = i
        BY <2>0, <2>1, <1>1, <1>2, <1>4 DEF base
      <4>2. buf'[base + i] = buf[row * old_kv + i]
        BY <4>1, <1>5, <1>1, <1>2, <1>4
      <4> QED BY <4>2, <1>6, <2>1 DEF base
    <3>2. ASSUME NEW i \in L .. new_kv - 1 PROVE buf'[r * new_kv + i] = Zero
      <4>1. base + i \in Addr
        BY <2>0, <2>1, <1>1, <1>2 DEF base
      <4>2. buf'[base + i] = Zero
        BY <4>1, <1>5, <1>1, <1>2, <1>4
      <4> QED BY <4>2, <2>1 DEF base
    <3> QED BY <3>1, <3>2, <1>0, <1>2, <1>3 DEF RowDone, L
  <2>2. CASE r > row
    <3>1. RowDone(r)
      BY <2>2, <2>0, <1>0, <1>1 DEF ExpandInv
    <3>2. r * new_kv \in Nat /\ base + new_kv <= r * new_kv
      BY <2>0, <2>2, <1>1, <1>4, ProductMonotone, ProductNat
    <3>3. ASSUME NEW i \in 0 .. new_kv - 1
          PROVE  buf'[r * new_kv + i] = buf[r * new_kv + i]
      <4>1. r * new_kv + i \in Addr /\ ~(r * new_kv + i < base + new_kv)
        BY <3>2, <2>0, <1>1, <1>4
      <4>2. ~(r * new_kv + i < base + L)
        BY <4>1, <3>2, <1>1, <1>2, <1>4
      <4> QED BY <4>1, <4>2, <1>5
    <3>4. \A i \in 0 .. L - 1 : i \in 0 .. new_kv - 1
      BY <1>1, <1>2
    <3>5. \A i \in L .. new_kv - 1 : i \in 0 .. new_kv - 1
      BY <1>1, <1>2
    <3> QED BY <3>1, <3>3, <3>4, <3>5, <1>0, <1>2, <1>3 DEF RowDone, L
  <2> QED BY <2>1, <2>2, <1>1
<1>10. ExpandInv'
  <2>1. row' < rows'
    BY <1>0, <1>1
  <2>2. \A a \in Addr : a < (row' + 1) * new_kv' => buf'[a] = buf0'[a]
    BY <1>8, <1>4a, <1>0
  <2>3. row' + 1 = row /\ rows' - 1 = rows - 1
    BY <1>0, <1>1
  <2>4. \A a \in Addr : a >= rows' * new_kv' => buf'[a] = buf0'[a]
    BY <1>8a, <1>0
  <2> QED BY <2>1, <2>2, <2>3, <2>4, <1>9 DEF ExpandInv, Addr, BufLen
<1>11. ContractInv' /\ SameInv'
  BY <1>0, <1>1 DEF ContractInv, SameInv
<1> QED BY <1>7, <1>10, <1>11 DEF LoopInv

\* Moving one row, when contracting.
LEMMA ContractStep == LoopInv /\ ContractRow => LoopInv'
<1> SUFFICES ASSUME LoopInv, ContractRow PROVE LoopInv'
  OBVIOUS
<1>0. /\ TypeOK /\ ContractInv /\ new_kv < old_kv /\ row < rows
      /\ rows' = rows /\ old_kv' = old_kv /\ new_kv' = new_kv
      /\ n_valid' = n_valid /\ buf0' = buf0 /\ row' = row + 1
  BY DEF LoopInv, ContractRow, args
<1>1. /\ row \in Nat /\ rows \in Nat /\ rows <= MaxRows
      /\ old_kv \in Nat /\ new_kv \in Nat /\ old_kv <= MaxKV /\ new_kv <= MaxKV
      /\ buf \in [Addr -> Cell] /\ buf0 \in [Addr -> Cell]
      /\ MaxRows \in Nat /\ MaxKV \in Nat
  BY <1>0, ReshapeAssumption DEF TypeOK, ContractInv
<1> DEFINE L == copy_len
<1>2. L \in Nat /\ L <= old_kv /\ L <= new_kv /\ copy_len' = L
  BY <1>0, CopyLenBounds DEF copy_len
<1> HIDE DEF L
<1> DEFINE base == row * new_kv
<1>4. /\ base \in Nat /\ row * old_kv \in Nat /\ base <= row * old_kv
      /\ row' * new_kv' = base + new_kv
  <2>1. new_kv * row <= old_kv * row
    BY <1>0, <1>1, ProductMonotone
  <2>2. row' * new_kv' = base + new_kv
    BY <1>0, <1>1, NextRow
  <2> QED BY <2>1, <2>2, <1>1, ProductNat, SMT
<1> HIDE DEF base
<1>5. buf' = [a \in Addr |-> IF base <= a /\ a < base + L
                               THEN buf[row * old_kv + (a - base)] ELSE buf[a]]
  BY DEF ContractRow, Moved, base, L
<1>6. \A i \in 0 .. L - 1 : /\ row * old_kv + i \in Addr
                            /\ buf[row * old_kv + i] = buf0[row * old_kv + i]
  <2> SUFFICES ASSUME NEW i \in 0 .. L - 1
               PROVE  /\ row * old_kv + i \in Addr
                      /\ buf[row * old_kv + i] = buf0[row * old_kv + i]
    OBVIOUS
  <2>1. row * old_kv + i \in Addr
    <3>1. i \in Nat /\ i < old_kv /\ row < MaxRows
      BY <1>0, <1>1, <1>2
    <3> QED BY <3>1, <1>1, InBuffer
  <2>2. row * old_kv + i >= row * new_kv
    BY <1>1, <1>2, <1>4 DEF base
  <2> QED BY <2>1, <2>2, <1>0 DEF ContractInv
<1>7. TypeOK'
  <2>1. ASSUME NEW a \in Addr
        PROVE  (IF base <= a /\ a < base + L
                  THEN buf[row * old_kv + (a - base)] ELSE buf[a]) \in Cell
    <3>1. CASE base <= a /\ a < base + L
      <4>1. a \in Nat /\ a - base \in 0 .. L - 1
        BY <3>1, <1>2, <1>4, <1>1 DEF Addr
      <4>2. row * old_kv + (a - base) \in Addr
        BY <4>1, <1>6
      <4> QED BY <4>2, <3>1, <1>1
    <3>2. CASE ~(base <= a /\ a < base + L)
      BY <3>2, <1>1
    <3> QED BY <3>1, <3>2
  <2>2. buf' \in [Addr -> Cell]
    BY <2>1, <1>5
  <2> QED BY <2>2, <1>0, <1>1 DEF TypeOK
<1>8. \A a \in Addr : a >= base + new_kv => buf'[a] = buf0[a]
  <2> SUFFICES ASSUME NEW a \in Addr, a >= base + new_kv PROVE buf'[a] = buf0[a]
    OBVIOUS
  <2>1. a \in Nat
    BY <1>1, ProductNat DEF Addr, BufLen
  <2>2. buf'[a] = buf[a]
    BY <1>5, <2>1, <1>2, <1>4, <1>1
  <2>3. a >= row * new_kv
    BY <2>1, <1>4, <1>1 DEF base
  <2> QED BY <2>2, <2>3, <1>0 DEF ContractInv
<1>9. \A r \in 0 .. row : RowDone(r)'
  <2> SUFFICES ASSUME NEW r \in 0 .. row PROVE RowDone(r)'
    OBVIOUS
  <2>a. ~Expanding' /\ ~Expanding
    BY <1>0, <1>1 DEF Expanding
  <2>b. \A i \in 0 .. L - 1 : i \in 0 .. new_kv - 1
    BY <1>1, <1>2
  <2>c. \A i \in L .. new_kv - 1 : i \in 0 .. new_kv - 1
    BY <1>1, <1>2
  <2>0. r \in Nat /\ r < rows /\ \A i \in 0 .. new_kv - 1 : r * new_kv + i \in Addr
    <3>1. r \in Nat /\ r < rows /\ r < MaxRows
      BY <1>0, <1>1
    <3>2. \A i \in 0 .. new_kv - 1 : i \in Nat /\ i < new_kv
      BY <1>1
    <3> QED BY <3>1, <3>2, <1>1, InBuffer
  <2>1. CASE r = row
    <3>1. ASSUME NEW i \in 0 .. L - 1
          PROVE  buf'[r * new_kv + i] = buf0[r * old_kv + i]
      <4>1. base + i \in Addr /\ base + i - base = i
        BY <2>0, <2>1, <1>1, <1>2, <1>4 DEF base
      <4>2. buf'[base + i] = buf[row * old_kv + i]
        BY <4>1, <1>5, <1>1, <1>2, <1>4
      <4> QED BY <4>2, <1>6, <2>1 DEF base
    <3>2. ASSUME NEW i \in L .. new_kv - 1
          PROVE  buf'[r * new_kv + i] = buf0[r * new_kv + i]
      <4>1. base + i \in Addr /\ ~(base + i < base + L) /\ base + i >= base
        BY <2>0, <2>1, <2>c, <1>1, <1>2, <1>4 DEF base
      <4>2. buf'[base + i] = buf[base + i]
        BY <4>1, <1>5
      <4> QED BY <4>1, <4>2, <2>1, <1>0 DEF base, ContractInv
    <3> QED BY <3>1, <3>2, <2>a, <1>0, <1>2 DEF RowDone, L
  <2>2. CASE r < row
    <3>1. RowDone(r)
      BY <2>2, <2>0, <1>0, <1>1 DEF ContractInv
    <3>2. r * new_kv \in Nat /\ r * new_kv + new_kv <= base
      BY <2>0, <2>2, <1>1, NextRow, ProductMonotone, ProductNat DEF base
    <3>3. ASSUME NEW i \in 0 .. new_kv - 1
          PROVE  buf'[r * new_kv + i] = buf[r * new_kv + i]
      <4>1. r * new_kv + i \in Addr /\ ~(base <= r * new_kv + i)
        BY <3>2, <2>0, <1>1, <1>2, <1>4
      <4> QED BY <4>1, <1>5
    <3> QED BY <3>1, <3>3, <2>a, <2>b, <2>c, <1>0, <1>2 DEF RowDone, L
  <2> QED BY <2>1, <2>2, <1>1
<1>10. ContractInv'
  <2>1. row' >= 0
    BY <1>0, <1>1
  <2>2. \A a \in Addr : a >= row' * new_kv' => buf'[a] = buf0'[a]
    BY <1>8, <1>4, <1>0
  <2>3. row' - 1 = row
    BY <1>0, <1>1
  <2> QED BY <2>1, <2>2, <2>3, <1>9 DEF ContractInv, Addr, BufLen
<1>11. ExpandInv' /\ SameInv'
  BY <1>0, <1>1 DEF ExpandInv, SameInv, Expanding
<1> QED BY <1>7, <1>10, <1>11 DEF LoopInv

LEMMA NextLoopInv == LoopInv /\ [Next]_vars => LoopInv'
<1> SUFFICES ASSUME LoopInv, [Next]_vars PROVE LoopInv'
  OBVIOUS
<1>1. CASE ExpandRow
  BY <1>1, ExpandStep
<1>2. CASE ContractRow
  BY <1>2, ContractStep
<1>3. CASE UNCHANGED vars
  BY <1>3 DEF vars, LoopInv, TypeOK, ExpandInv, ContractInv, SameInv, RowDone,
              Expanding, copy_len
<1> QED BY <1>1, <1>2, <1>3 DEF Next, Return

LEMMA LoopInvSuffices == LoopInv => ValidTokensPreserved
<1> SUFFICES ASSUME LoopInv, Done, NEW r \in 0 .. rows - 1 PROVE RowDone(r)
  BY DEF ValidTokensPreserved, RowDone
<1>0. TypeOK /\ ExpandInv /\ ContractInv /\ SameInv
  BY DEF LoopInv
<1>1. CASE Expanding
  BY <1>0, <1>1 DEF Done, ExpandInv, TypeOK
<1>2. CASE new_kv < old_kv
  BY <1>0, <1>2 DEF Done, ContractInv, Expanding, TypeOK
<1>3. CASE old_kv = new_kv
  BY <1>0, <1>3 DEF SameInv, RowDone, Expanding, TypeOK
<1> QED BY <1>0, <1>1, <1>2, <1>3 DEF Expanding, TypeOK

LEMMA LoopInvRestrides == LoopInv => ComputesRestride
<1> SUFFICES ASSUME LoopInv, Done
             PROVE  buf = Restride(buf0, rows, old_kv, new_kv, n_valid, Zero)
  BY DEF ComputesRestride
<1>0. TypeOK /\ ExpandInv /\ ContractInv /\ SameInv
  BY DEF LoopInv
<1>1. CASE old_kv = new_kv
  BY <1>0, <1>1 DEF SameInv, Restride
<1>2. CASE old_kv # new_kv
  <2>0. /\ rows \in Nat /\ old_kv \in Nat /\ new_kv \in Nat \ {0}
        /\ buf \in [Addr -> Cell] /\ buf0 \in [Addr -> Cell]
        /\ MaxRows \in Nat /\ MaxKV \in Nat /\ copy_len \in Nat
        /\ (Expanding <=> new_kv > old_kv)
    BY <1>0, ReshapeAssumption, CopyLenBounds DEF TypeOK, Expanding
  <2>1. \A r \in 0 .. rows - 1 : RowDone(r)
    BY <1>0, <1>2 DEF Done, ExpandInv, ContractInv, Expanding, TypeOK
  <2>2. \A a \in Addr : a >= rows * new_kv => buf[a] = buf0[a]
    BY <1>0, <1>2 DEF Done, ExpandInv, ContractInv, Expanding, TypeOK
  <2>3. ASSUME NEW a \in Addr
        PROVE  buf[a] = IF a \div new_kv >= rows THEN buf0[a]
                        ELSE IF a % new_kv < copy_len
                          THEN buf0[(a \div new_kv) * old_kv + (a % new_kv)]
                        ELSE IF new_kv > old_kv THEN Zero ELSE buf0[a]
    <3>1. a \in Nat
      BY <2>0, ProductNat DEF Addr, BufLen
    <3>2. PICK q \in Nat, t \in 0 .. new_kv - 1 :
             q = a \div new_kv /\ t = a % new_kv /\ a = q * new_kv + t
      BY <3>1, <2>0, QuotientRemainder
    <3>3. CASE q >= rows
      <4>1. rows * new_kv <= q * new_kv /\ rows * new_kv \in Nat /\ q * new_kv \in Nat
        BY <3>3, <2>0, ProductMonotone, ProductNat
      <4>2. a >= rows * new_kv
        BY <4>1, <3>2, <2>0
      <4> QED BY <4>2, <3>2, <3>3, <2>2
    <3>4. CASE q < rows
      <4>1. RowDone(q)
        BY <3>4, <2>0, <2>1
      <4>2. CASE t < copy_len
        <5>1. t \in 0 .. copy_len - 1
          BY <4>2, <2>0
        <5>2. buf[a] = buf0[q * old_kv + t]
          BY <5>1, <4>1, <3>2 DEF RowDone
        <5>3. ~(q >= rows)
          BY <3>4, <2>0
        <5> QED BY <5>2, <5>3, <4>2, <3>2
      <4>3. CASE ~(t < copy_len)
        <5>1. t \in copy_len .. new_kv - 1
          BY <4>3, <2>0
        <5>2. buf[a] = IF Expanding THEN Zero ELSE buf0[a]
          BY <5>1, <4>1, <3>2 DEF RowDone
        <5>3. ~(q >= rows)
          BY <3>4, <2>0
        <5> QED BY <5>2, <5>3, <4>3, <3>2, <2>0
      <4> QED BY <4>2, <4>3
    <3> QED BY <3>3, <3>4, <2>0
  <2> DEFINE f == [a \in Addr |->
                     IF a \div new_kv >= rows THEN buf0[a]
                     ELSE IF a % new_kv < copy_len
                       THEN buf0[(a \div new_kv) * old_kv + (a % new_kv)]
                     ELSE IF new_kv > old_kv THEN Zero ELSE buf0[a]]
  <2>4. Restride(buf0, rows, old_kv, new_kv, n_valid, Zero) = f
    BY <1>2, <2>0 DEF Restride, copy_len
  <2>5. buf = f
    BY <2>3, <2>0
  <2> QED BY <2>4, <2>5
<1> QED BY <1>1, <1>2

\* reshapeKV's loop variable and buffer stay in range: every address it reads or
\* writes lies in the buffer.
THEOREM ReshapeTypeCorrect == Spec => []TypeOK
<1>1. LoopInv => TypeOK
  BY DEF LoopInv
<1> QED BY <1>1, InitLoopInv, NextLoopInv, PTL DEF Spec

\* reshapeKV loses no valid token of any row, whatever the lengths, the number of
\* rows and the contents.
THEOREM ReshapePreservesTokens == Spec => []ValidTokensPreserved
  BY InitLoopInv, NextLoopInv, LoopInvSuffices, PTL DEF Spec

\* The loops of reshapeKV compute exactly the one-step Restride that LLMModel
\* uses, so nothing is lost by treating a restride as atomic there.
THEOREM ReshapeComputesRestride == Spec => []ComputesRestride
  BY InitLoopInv, NextLoopInv, LoopInvRestrides, PTL DEF Spec
=============================================================================
