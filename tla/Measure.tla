------------------------------- MODULE Measure -------------------------------
(***************************************************************************)
(* Metric sampling, pimkv/sim.py measure_seq, of one sequence as it grows, *)
(* and the traces written for the same sequence.  Whatever the allocator   *)
(* does, a table is a list of distinct blocks of the pool that grows by    *)
(* one block when its tokens no longer fit; so the next block is any block *)
(* not yet in the table.  The sequence is measured in every state.         *)
(***************************************************************************)
EXTENDS Traces

CONSTANT
    Setups   \* what a run may be configured with: geom, shape, scheme,
             \* block_tokens, window, pool (its blocks), and tokens, the bound
             \* on the length of the sequence

\* The sizes are positive; simulate checks that tokens are whole bursts and that
\* the pool fits the geometry, frame_blocks_for that blocks and frames nest.
ASSUME SetupsAssumption ==
    \A s \in Setups :
        /\ {s.shape.kv_heads, s.shape.head_dim, s.shape.dtype_bytes,
            s.block_tokens, s.pool, s.window, s.tokens} \subseteq Nat \ {0}
        /\ ValidGeometry(s.geom)
        /\ s.scheme \in SCHEMES /\ FieldsCover(s.geom, s.scheme)
        /\ kv_bytes_per_token(s.shape) % s.geom.burst_bytes = 0
        /\ s.pool * block_bytes(s.shape, s.block_tokens)
               <= total_bursts(s.geom) * s.geom.burst_bytes
        /\ Framed(s.geom, s.shape, s.block_tokens)

VARIABLES
    setup,    \* the configuration of the run
    table,    \* the block table of the sequence
    length    \* its tokens

vars == <<setup, table, length>>

Pool == 0 .. setup.pool - 1

Init ==
    /\ setup \in Setups
    /\ length = 1
    /\ \E b \in Pool : table = <<b>>

\* The table is full: the next token needs a block.
need == length + 1 > Len(table) * setup.block_tokens

decode ==
    /\ length < setup.tokens
    /\ length' = length + 1
    /\ IF need THEN \E b \in Pool \ ToSet(table) : table' = Append(table, b)
               ELSE table' = table
    /\ UNCHANGED setup

Next == decode

Spec == Init /\ [][Next]_vars

\* A measured table lists distinct blocks of the pool, as many as its tokens
\* need and no more, so every burst enumerate_bursts looks up is in it.
TableCovers ==
    /\ setup \in Setups
    /\ length \in 1 .. setup.tokens
    /\ table \in Seq(Pool)
    /\ \A i, j \in DOMAIN table : table[i] = table[j] => i = j
    /\ (Len(table) - 1) * setup.block_tokens < length
    /\ length <= Len(table) * setup.block_tokens

-----------------------------------------------------------------------------
(* measure_seq *)

am == address_map(setup.geom, setup.scheme)
bursts == enumerate_bursts(am, setup.shape, setup.block_tokens, table, length)
perch == PerChannel(bursts)
bpb == setup.block_tokens * (kv_bytes_per_token(setup.shape) \div setup.geom.burst_bytes)
frame_blocks == frame_blocks_for(setup.geom, setup.shape, setup.block_tokens)
banks == banks_per_channel(setup.geom)

\* The counters behind blk_adj, same_frame and frame_spread.  The code divides
\* them and reports NaN for a quotient that means nothing: no pairs, or a frame
\* of one block.
placement_diagnostics(t, fb) ==
    [pairs |-> Len(t) - 1,
     adj |-> Cardinality({i \in 2 .. Len(t) : t[i] = t[i - 1] + 1}),
     same |-> Cardinality({i \in 2 .. Len(t) : t[i] \div fb = t[i - 1] \div fb}),
     frames |-> Cardinality({b \div fb : b \in ToSet(t)}),
     least |-> ceil_div(Len(t), fb)]

\* The row measure_seq reports for the bursts pc of the channels, for one
\* coalescing mode.
measure_seq(pc, mode) ==
    LET s == sequence_metrics(pc, setup.geom, setup.window, mode)
        kv_bytes == length * kv_bytes_per_token(setup.shape)
    IN  [metrics |-> s,
         m4 |-> decode_latency(kv_bytes, effective_bandwidth(setup.geom, s)),
         diagnostics |-> placement_diagnostics(table, frame_blocks)]

-----------------------------------------------------------------------------
(* Properties *)

\* The block of the i-th burst.
BlockOf(i) == table[((i - 1) \div bpb) + 1]

\* The least number of all-bank commands that read the bursts of a window: the
\* classes of a colouring in which "two bursts can share a command iff they
\* are ... at the same row index, and in different banks".
LeastCommands(win) ==
    LET legal == {f \in [DOMAIN win -> DOMAIN win] :
                    \A i, j \in DOMAIN win :
                        i < j /\ f[i] = f[j] =>
                            win[i].row = win[j].row /\ win[i].bank # win[j].bank}
    IN  Min({Cardinality({f[i] : i \in DOMAIN win}) : f \in legal})

\* The command count M2 is computed from is the best any schedule can do that
\* reorders within a window only: counting the busiest bank of each row is
\* neither optimistic nor pessimistic, for every table and every map.
CommandsMinimal ==
    LET pc == perch
    IN  \A c \in DOMAIN pc :
            coalesce_window(pc[c], setup.window, banks).cmds =
                LET ws == Windows(pc[c], setup.window)
                IN  SumFunctionOnSet([k \in DOMAIN ws |-> LeastCommands(ws[k])], DOMAIN ws)

StreamHits(s) == Cardinality({i \in 2 .. Len(s) : s[i].row = s[i - 1].row})

\* The stream replayed in AttAcc is the one the metrics count: as many
\* commands, each at a burst of the channel, and the same hits in order; with
\* reordering the hits differ by at most one per window after the second, in
\* either direction.
StreamAgrees ==
    LET pc == perch
    IN  \A c \in DOMAIN pc, mode \in {"window", "inorder"} :
            LET counted == coalesce_channel(pc[c], setup.window, mode, banks)
                stream == coalesce_channel_stream(pc[c], setup.window, mode, banks)
                diff == counted.hits - StreamHits(stream)
                slack == IF mode = "inorder" THEN 0
                         ELSE Max({0, ceil_div(Len(pc[c]), setup.window) - 2})
            IN  /\ Len(stream) = counted.cmds
                /\ - slack <= diff /\ diff <= slack
                /\ \A i \in DOMAIN stream : \E j \in DOMAIN pc[c] :
                      pc[c][j].row = stream[i].row /\ pc[c][j].col = stream[i].col

\* The rows a list of bursts lies in, and the row misses it costs.
RowsRead(s) == {s[i].row : i \in DOMAIN s}
Misses(s) == LET c == coalesce_window(s, setup.window, banks) IN c.cmds - c.hits

\* The frame the pim-aware allocator packs is what the all-bank row state sees:
\* under the host maps the row of a burst is the number of the frame its block is
\* in, so a channel pays at least one miss per frame it reads and, for a sequence
\* packed into one frame, exactly one; the diagnostics count those frames and
\* never fewer than a packed table needs.
FrameIsRow ==
    LET pc == perch
        bs == bursts
        d == placement_diagnostics(table, frame_blocks)
        frame(i) == BlockOf(i) \div frame_blocks
    IN  /\ setup.scheme # "pim-friendly"
        /\ block_bytes(setup.shape, setup.block_tokens) <= frame_bytes(setup.geom)
        =>
            /\ \A i \in DOMAIN bs : bs[i].row = frame(i)
            /\ \A c \in DOMAIN pc : Misses(pc[c]) >= Cardinality(RowsRead(pc[c]))
            /\ d.frames = 1 => \A c \in DOMAIN pc : Misses(pc[c]) = 1
            /\ d.frames >= d.least

\* Reordering never costs a row miss, and a command only where a window cuts
\* one: "inorder" is the pessimistic case up to one column access per window
\* boundary of each channel.  (Binding perch, here and below, evaluates it once.)
InorderPessimistic ==
    \A pc \in {perch} :
    LET cuts == SumFunctionOnSet([c \in DOMAIN pc |-> ceil_div(Len(pc[c]), setup.window) - 1],
                                 DOMAIN pc)
        win == measure_seq(pc, "window").m4
        ord == measure_seq(pc, "inorder").m4
    IN  /\ \A c \in DOMAIN pc :
              LET o == coalesce_inorder(pc[c]) IN Misses(pc[c]) <= o.cmds - o.hits
        /\ win.den = ord.den
        /\ win.num * setup.geom.channels
               <= ord.num * setup.geom.channels + cuts * DEFAULT_TIMING.tccd_ab * win.den

\* The Ramulator trace says where the sequence lies: the coordinates of a burst
\* lead back to its linear index, and no two lines name the same cell, so no
\* burst is read twice or overlaps another one.
CellsDistinct ==
    LET amap == am
        bs == bursts
        lines == ramulator_trace(bs)
    IN  /\ \A i \in DOMAIN bs : inverse(amap, bs[i]) = BlockOf(i) * bpb + ((i - 1) % bpb)
        /\ \A i, j \in DOMAIN bs : i # j => lines[i] # lines[j]

\* Each channel of AttAcc, slicing the addresses with its own mapper, receives its
\* own commands in the order they were coalesced, on the one rank there is.
TraceReplays ==
    \A pc \in {perch} :
    \A cmds \in {attacc_trace(command_stream(pc, banks, setup.window, "window"))} :
        LET decoded == [i \in DOMAIN cmds |-> attacc_decode(cmds[i])]
        IN  \A c \in DOMAIN pc :
                LET want == coalesce_channel_stream(pc[c], setup.window, "window", banks)
                IN  SelectSeq(decoded, LAMBDA d : d.ch = c)
                      = [i \in DOMAIN want |-> [ch |-> c, ra |-> 0, bank |-> 0,
                                               row |-> want[i].row, col |-> want[i].col]]
=============================================================================
