----------------------------- MODULE ReshapeKV ------------------------------
(***************************************************************************)
(* LLMModel::reshapeKV, one memmove (and fill) at a time.  The buffer is   *)
(* restrided in place: rows of old_kv_len tokens become rows of new_kv_len *)
(* tokens, of which the first n_valid are worth keeping.  Expanding walks  *)
(* the rows backward, contracting forward; the point of the module is that *)
(* no row is overwritten before it has been moved.  Key and value tensors  *)
(* run the same loop over different row counts and cell sizes.             *)
(***************************************************************************)
EXTENDS KVBuffer

CONSTANTS
    MaxRows,    \* largest n_rows (key) or n_heads (value)
    MaxKV,      \* largest kv_len of any variant: the buffer is sized for it
    Zero,       \* the encoded zero
    Cell,       \* what a cell may hold
    Contents    \* the buffers reshapeKV may be called on

BufLen == MaxRows * MaxKV
Addr == 0 .. BufLen - 1

ASSUME ReshapeAssumption ==
    /\ MaxRows \in Nat
    /\ MaxKV \in Nat \ {0}
    /\ Zero \in Cell
    /\ Contents \subseteq [Addr -> Cell]

VARIABLES
    rows, old_kv, new_kv, n_valid,  \* the arguments of the call
    buf0,                           \* the buffer at the call (history variable)
    buf,                            \* the buffer
    row                             \* the loop variable, the next row to move

args == <<rows, old_kv, new_kv, n_valid, buf0>>
vars == <<rows, old_kv, new_kv, n_valid, buf0, buf, row>>

Expanding == new_kv > old_kv
copy_len == CopyLen(old_kv, new_kv, n_valid)

\* reshapeKV is called; equal lengths return at once.
Init ==
    /\ rows \in 0 .. MaxRows
    /\ old_kv \in 1 .. MaxKV
    /\ new_kv \in 1 .. MaxKV
    /\ n_valid \in 0 .. MaxKV + 1
    /\ buf0 \in Contents
    /\ buf = buf0
    /\ row = IF old_kv = new_kv THEN rows ELSE IF Expanding THEN rows - 1 ELSE 0

\* memmove(buf + r * new, buf + r * old, copy_len): the source is read as a whole
\* before the destination is written.
Moved(b, r) ==
    [a \in Addr |-> IF r * new_kv <= a /\ a < r * new_kv + copy_len
                      THEN b[r * old_kv + (a - r * new_kv)] ELSE b[a]]

\* fillEncodedZero on the rest of row r.
Filled(b, r) ==
    [a \in Addr |-> IF r * new_kv + copy_len <= a /\ a < r * new_kv + new_kv
                      THEN Zero ELSE b[a]]

\* Mutant: the expanding loop does not clear the rest of the row.
ExpandRowNoFill ==
    /\ Expanding /\ row >= 0
    /\ buf' = Moved(buf, row)
    /\ row' = row - 1
    /\ UNCHANGED args

\* Mutant: an unsigned loop variable never goes below zero and wraps around.
ExpandRowTooFar ==
    /\ Expanding /\ row >= -1
    /\ buf' = Filled(Moved(buf, row), row)
    /\ row' = row - 1
    /\ UNCHANGED args

\* for (row = n_rows - 1; row >= 0; --row)
ExpandRow ==
    /\ Expanding /\ row >= 0
    /\ buf' = Filled(Moved(buf, row), row)
    /\ row' = row - 1
    /\ UNCHANGED args

\* Mutant: contracting walks the rows backward, as expanding does, and so
\* overwrites the end of a row that is still to be moved.
ContractRowBackward ==
    /\ new_kv < old_kv /\ row < rows
    /\ buf' = Moved(buf, rows - 1 - row)
    /\ row' = row + 1
    /\ UNCHANGED args

\* for (row = 0; row < n_rows; ++row)
ContractRow ==
    /\ new_kv < old_kv /\ row < rows
    /\ buf' = Moved(buf, row)
    /\ row' = row + 1
    /\ UNCHANGED args

Done == IF Expanding THEN row = -1 ELSE row = rows

\* reshapeKV has returned; nothing more happens to this call.
Return == Done /\ UNCHANGED vars

Next == ExpandRow \/ ContractRow \/ Return

Spec == Init /\ [][Next]_vars
-----------------------------------------------------------------------------
\* The arguments, the buffer and the loop variable of reshapeKV stay in range.
TypeOK ==
    /\ rows \in 0 .. MaxRows
    /\ old_kv \in 1 .. MaxKV
    /\ new_kv \in 1 .. MaxKV
    /\ n_valid \in Nat
    /\ buf0 \in [Addr -> Cell]
    /\ buf \in [Addr -> Cell]
    /\ row \in -1 .. rows

\* When reshapeKV returns, every row holds its first copy_len tokens at the new
\* stride, and an expansion has zeroed the rest of the row: moving one row never
\* clobbered another that was still to be moved.
ValidTokensPreserved ==
    Done => \A r \in 0 .. rows - 1 :
              /\ \A i \in 0 .. copy_len - 1 : buf[r * new_kv + i] = buf0[r * old_kv + i]
              /\ Expanding => \A i \in copy_len .. new_kv - 1 : buf[r * new_kv + i] = Zero

\* The loops compute the one-step definition the other modules use, the cells no
\* row is moved to included.
ComputesRestride ==
    Done => buf = Restride(buf0, rows, old_kv, new_kv, n_valid, Zero)
=============================================================================
