------------------------------ MODULE Geometry ------------------------------
(***************************************************************************)
(* DRAM geometry and model shape, pimkv/config.py, and the alignment frame *)
(* pimkv/run.py derives from them.  A geometry and a shape are records     *)
(* with the fields of the dataclasses DramGeometry and ModelShape.  An     *)
(* operator that the code guards with a ValueError comes with the          *)
(* condition under which it does not raise.                                *)
(***************************************************************************)
EXTENDS Integers, FiniteSetsExt

MaxExponent == 30            \* sizes are powers of two up to 2^30

ceil_div(x, y) == (x + y - 1) \div y

is_pow2(x) == \E k \in 0 .. MaxExponent : x = 2^k

\* __post_init__ accepts the geometry.
ValidGeometry(g) ==
    /\ \A x \in {g.channels, g.bank_groups, g.banks_per_group, g.row_bytes,
                 g.burst_bytes, g.rows_per_bank, g.cacheline_bytes} : is_pow2(x)
    /\ g.row_bytes % g.burst_bytes = 0
    /\ g.cacheline_bytes % g.burst_bytes = 0

banks_per_channel(g) == g.bank_groups * g.banks_per_group
cols_per_row(g) == g.row_bytes \div g.burst_bytes
rowgroup_bytes(g) == g.row_bytes * banks_per_channel(g)

\* capacity_bytes // burst_bytes; a row is a whole number of bursts.
total_bursts(g) ==
    g.channels * banks_per_channel(g) * g.rows_per_bank * cols_per_row(g)

kv_bytes_per_token(s) == 2 * s.kv_heads * s.head_dim * s.dtype_bytes

-----------------------------------------------------------------------------
(* Presets *)

HBM3_PIM ==
    [channels |-> 32, bank_groups |-> 4, banks_per_group |-> 4, row_bytes |-> 1024,
     burst_bytes |-> 32, rows_per_bank |-> 16384, cacheline_bytes |-> 64]

GDDR6_PIM ==
    [channels |-> 8, bank_groups |-> 4, banks_per_group |-> 4, row_bytes |-> 2048,
     burst_bytes |-> 32, rows_per_bank |-> 16384, cacheline_bytes |-> 64]

Shape(heads) == [kv_heads |-> heads, head_dim |-> 128, dtype_bytes |-> 2]
LLAMA_GQA_8KV == Shape(8)
MQA_1KV == Shape(1)
MHA_32KV == Shape(32)

DRAM_PRESETS == {HBM3_PIM, GDDR6_PIM}
MODEL_PRESETS == {LLAMA_GQA_8KV, MQA_1KV, MHA_32KV}

-----------------------------------------------------------------------------
(* Derived quantities *)

\* shard_kv does not raise ...
Shardable(g, s, n) == n = 1 \/ (g.channels % n = 0 /\ s.kv_heads % n = 0)

\* ... and returns the geometry and the shape one shard sees.
shard_kv(g, s, n) ==
    [geom  |-> [g EXCEPT !.channels = @ \div n],
     shape |-> [s EXCEPT !.kv_heads = @ \div n]]

derive_block_tokens(g, s, rowgroups, spread) ==
    LET bytes == rowgroups * rowgroup_bytes(g) * (IF spread THEN g.channels ELSE 1)
    IN  Max({1, ceil_div(bytes, kv_bytes_per_token(s))})

frame_bytes(g) == rowgroup_bytes(g) * g.channels
block_bytes(s, bt) == bt * kv_bytes_per_token(s)

\* frame_blocks_for does not raise: blocks and frames nest ...
Framed(g, s, bt) ==
    IF block_bytes(s, bt) >= frame_bytes(g)
    THEN block_bytes(s, bt) % frame_bytes(g) = 0
    ELSE frame_bytes(g) % block_bytes(s, bt) = 0

\* ... and it returns the blocks of a frame.
frame_blocks_for(g, s, bt) ==
    IF block_bytes(s, bt) >= frame_bytes(g) THEN 1
    ELSE frame_bytes(g) \div block_bytes(s, bt)

-----------------------------------------------------------------------------
\* Facts about the presets, evaluated by TLC: they are accepted, the block
\* size for HBM3 and the GQA shape is 128 tokens as the docstring computes,
\* and neither the derived block nor the frame changes under sharding ("the
\* per-channel block slice is invariant under proportional sharding").
ASSUME PresetFacts ==
    /\ \A g \in DRAM_PRESETS : ValidGeometry(g)
    /\ derive_block_tokens(HBM3_PIM, LLAMA_GQA_8KV, 1, TRUE) = 128
    /\ \A g \in DRAM_PRESETS, s \in MODEL_PRESETS, n \in {1, 2, 4, 8} :
          Shardable(g, s, n) =>
              LET sh == shard_kv(g, s, n)
              IN  /\ ValidGeometry(sh.geom)
                  /\ derive_block_tokens(sh.geom, sh.shape, 1, TRUE)
                         = derive_block_tokens(g, s, 1, TRUE)
                  /\ \A bt \in {8, 16, 32, 128} :
                        /\ Framed(sh.geom, sh.shape, bt) <=> Framed(g, s, bt)
                        /\ frame_blocks_for(sh.geom, sh.shape, bt)
                               = frame_blocks_for(g, s, bt)
=============================================================================
