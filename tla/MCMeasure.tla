----------------------------- MODULE MCMeasure -----------------------------
(* Model checking of the metrics on small geometries.                      *)
EXTENDS Measure

Geom(ch, bg, ba, cols, rows, line) ==
    [channels |-> ch, bank_groups |-> bg, banks_per_group |-> ba, row_bytes |-> 4 * cols,
     burst_bytes |-> 4, rows_per_bank |-> rows, cacheline_bytes |-> 4 * line]

\* A token of one burst (4 bytes), or of two.
Token(n) == [kv_heads |-> n, head_dim |-> 1, dtype_bytes |-> 2]

Setup(g, n, sch, bt, w, pool, tok) ==
    [geom |-> g, shape |-> Token(n), scheme |-> sch, block_tokens |-> bt, window |-> w,
     pool |-> pool, tokens |-> tok]

\* One channel, two banks, two columns, two rows: every table of up to five
\* blocks of one burst.  Two channels with blocks of several bursts, three rows,
\* a column split by the cacheline map.  Four channels, so that the
\* pseudo-channel is not the whole channel number.
MCSetups ==
    {Setup(Geom(1, 1, 2, 2, 2, 1), 1, s, 1, 2, 8, 5) : s \in SCHEMES}
    \cup {Setup(Geom(2, 1, 2, 2, 2, 1), 1, s, 2, w, 8, 6) : s \in SCHEMES, w \in {2, 3}}
    \cup {Setup(Geom(2, 2, 1, 4, 2, 2), 2, s, 2, 3, 8, 5) : s \in SCHEMES}
    \cup {Setup(Geom(4, 1, 2, 2, 2, 1), 1, s, 4, 2, 8, 9) : s \in SCHEMES}
=============================================================================
