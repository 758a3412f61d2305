------------------------------- MODULE Traces -------------------------------
(***************************************************************************)
(* The traces two external DRAM simulators replay: pimkv/ramulator.py      *)
(* writes one read per burst, pimkv/attacc.py one all-bank MAC per         *)
(* command.  A line of a trace is the tuple of numbers it holds.           *)
(***************************************************************************)
EXTENDS AddrMap, PimModel

\* The bursts of a sequence in token order, mapped to DRAM.
enumerate_bursts(am, shape, bt, table, length) ==
    LET bpt == kv_bytes_per_token(shape) \div am.geom.burst_bytes
        bpb == bt * bpt
        phys(lb) == table[(lb \div bpb) + 1] * bpb + (lb % bpb)
    IN  [i \in 1 .. length * bpt |-> map(am, phys(i - 1))]

\* What a channel receives of them, in the same order: bursts[ch == c].
OfChannel(bursts, c) ==
    LET f[i \in 0 .. Len(bursts)] ==
            IF i = 0 THEN << >>
            ELSE LET b == bursts[i]
                 IN  IF b.ch = c THEN Append(f[i - 1], b) ELSE f[i - 1]
    IN  f[Len(bursts)]

PerChannel(bursts) == [c \in {bursts[i].ch : i \in DOMAIN bursts} |-> OfChannel(bursts, c)]

-----------------------------------------------------------------------------
(* Ramulator 2 *)

HBM3_PSEUDOCHANNELS == 2
HBM3_COLS_PER_BURST == 8

\* R ch,pc,sid,bg,ba,row,col: decoded coordinates, passed through.
ramulator_trace(bursts) ==
    [i \in DOMAIN bursts |->
        LET b == bursts[i]
        IN  <<b.ch \div HBM3_PSEUDOCHANNELS, b.ch % HBM3_PSEUDOCHANNELS, 0,
              b.bg, b.ba, b.row, b.col * HBM3_COLS_PER_BURST>>]

-----------------------------------------------------------------------------
(* AttAcc *)

\* Level widths of HBM3_8Gb_2R with 16 channels, and where each level starts.
BITS == [ch |-> 4, pch |-> 1, ra |-> 1, bg |-> 2, ba |-> 2, ro |-> 14, co |-> 5]
SH_CO == 0
SH_RO == BITS.co
SH_BA == SH_RO + BITS.ro
SH_BG == SH_BA + BITS.ba
SH_RA == SH_BG + BITS.bg

\* Mutant: the rank, of which there are two, has no bit.
PchAtRank == SH_RA

SH_PCH == SH_RA + BITS.ra
SH_CH == SH_PCH + BITS.pch
TX_OFFSET == 5

\* The byte address of a coordinate; the fields do not overlap, so | is +.
pim_address(ch, bank, row, col) ==
    ((ch \div 2) * 2^SH_CH + (ch % 2) * 2^SH_PCH
     + (bank \div 4) * 2^SH_BG + (bank % 4) * 2^SH_BA
     + row * 2^SH_RO + col * 2^SH_CO) * 2^TX_OFFSET

\* The commands of all channels, round robin over the channels.
command_stream(perch, B, w, mode) ==
    LET cmds == [c \in DOMAIN perch |-> coalesce_channel_stream(perch[c], w, mode, B)]
        chans(i) == SetToSortSeq({c \in DOMAIN cmds : i <= Len(cmds[c])}, <)
        round(i) == [k \in DOMAIN chans(i) |->
                        LET c == chans(i)[k]
                        IN  [ch |-> c, row |-> cmds[c][i].row, col |-> cmds[c][i].col]]
    IN  FlattenSeq([i \in 1 .. Max({Len(cmds[c]) : c \in DOMAIN cmds}) |-> round(i)])

\* PIM_MAC_AB <address>, always with bank 0.
attacc_trace(cmds) ==
    [i \in DOMAIN cmds |-> pim_address(cmds[i].ch, 0, cmds[i].row, cmds[i].col)]

\* AttAcc's mapper (HBM3PIMMap, external): "the byte address is shifted right by
\* log2(tx_bytes)=5 and then sliced from the LSB"; a channel of the map is a
\* pseudo-channel of a channel.
HBM3PIMMap == <<<<"co", 5>>, <<"ro", 14>>, <<"ba", 2>>, <<"bg", 2>>, <<"ra", 1>>,
                <<"pch", 1>>, <<"ch", 4>>>>

attacc_decode(addr) ==
    LET level(c) == CHOOSE k \in DOMAIN HBM3PIMMap : HBM3PIMMap[k][1] = c
        slice(c) == (addr \div 2^(5 + shift(HBM3PIMMap, level(c)))) % 2^HBM3PIMMap[level(c)][2]
    IN  [ch |-> 2 * slice("ch") + slice("pch"), ra |-> slice("ra"),
         bank |-> 4 * slice("bg") + slice("ba"), row |-> slice("ro"), col |-> slice("co")]
=============================================================================
