------------------------------ MODULE KVBuffer ------------------------------
(***************************************************************************)
(* The layout of one KV-cache tensor.  A tensor of `rows' rows (key: heads *)
(* times head_dim, value: heads) is a flat buffer in which token i of row  *)
(* r lives at address r * stride + i; stride is the kv_len of the graph    *)
(* variant that reads it, context length minus sequence length.  All       *)
(* variants of a shard share the buffer, so changing the variant means     *)
(* changing the stride in place.  A buffer is a function from addresses to *)
(* cells, one cell per token and row.                                      *)
(***************************************************************************)
EXTENDS MinMax

\* reshapeKV: "never read past old_kv_len or write past new_kv_len".
CopyLen(old, new, n_valid) == Min2(n_valid, Min2(old, new))

\* What LLMModel::reshapeKV leaves in the buffer.  Expanding moves the first
\* copy_len tokens of every row and zero-fills the rest of the row; contracting
\* moves them and leaves every other cell as it was.  Module ReshapeKV shows that
\* the loops of the code compute this.
Restride(buf, rows, old, new, n_valid, zero) ==
    LET copy_len == CopyLen(old, new, n_valid)
        row(a) == a \div new
        tok(a) == a % new
    IN  IF old = new
          THEN buf
          ELSE [a \in DOMAIN buf |->
                  IF row(a) >= rows THEN buf[a]
                  ELSE IF tok(a) < copy_len THEN buf[row(a) * old + tok(a)]
                  ELSE IF new > old THEN zero
                  ELSE buf[a]]

\* What LLMModel::copyKV leaves in the destination: token k of source row r goes
\* to address r * stride + off + k, rows in ascending order and with no bound
\* check.  src[r, k] is the source; `a' is written last by the highest row that
\* reaches it.  A write past the end of the buffer is outside the model.
CopyTokens(buf, rows, stride, off, n, src) ==
    LET row(a) == Min2((a - off) \div stride, rows - 1)
        tok(a) == a - off - row(a) * stride
    IN  [a \in DOMAIN buf |->
           IF a >= off /\ tok(a) < n THEN src[row(a), tok(a)] ELSE buf[a]]

\* copyKV stays inside the rows it writes.
FitsRow(stride, off, n) == off + n <= stride
=============================================================================
