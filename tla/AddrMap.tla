------------------------------- MODULE AddrMap -------------------------------
(***************************************************************************)
(* The physical address map, pimkv/addrmap.py: the linear index of a burst *)
(* is cut into bit fields, from the least significant bit up, and each     *)
(* field is a piece of a DRAM coordinate.  A coordinate may be cut in two  *)
(* (the column bits of the cacheline map).                                 *)
(***************************************************************************)
EXTENDS Geometry, Sequences

SCHEMES == {"host-centric", "host-cacheline", "pim-friendly"}

bits(n) == CHOOSE k \in 0 .. MaxExponent : 2^k = n

\* The layout, as <<coordinate, number of bits>> from LSB to MSB.
scheme_fields(g, scheme) ==
    LET ch == bits(g.channels)
        bg == bits(g.bank_groups)
        ba == bits(g.banks_per_group)
        ro == bits(g.rows_per_bank)
        co == bits(cols_per_row(g))
        co_lo == Min({bits(g.cacheline_bytes \div g.burst_bytes), co})
    IN  CASE scheme = "host-centric" ->
                 <<<<"co", co>>, <<"ch", ch>>, <<"ba", ba>>, <<"bg", bg>>, <<"ro", ro>>>>
          [] scheme = "host-cacheline" ->
                 <<<<"co", co_lo>>, <<"ch", ch>>, <<"ba", ba>>, <<"bg", bg>>,
                   <<"co", co - co_lo>>, <<"ro", ro>>>>
          [] scheme = "pim-friendly" ->
                 <<<<"ba", ba>>, <<"bg", bg>>, <<"co", co>>, <<"ro", ro>>, <<"ch", ch>>>>

Width(f, S) == SumFunctionOnSet([k \in S |-> f[k][2]], S)

\* What AddrMap.__init__ asserts: the fields cover the region exactly.
FieldsCover(g, scheme) ==
    LET f == scheme_fields(g, scheme) IN 2^Width(f, DOMAIN f) = total_bursts(g)

\* Where field k starts in the linear index.
shift(f, k) == Width(f, 1 .. k - 1)

\* Mutant: every piece of a coordinate starts at its lowest bit.
InFieldShiftLost(f, k) == 0

\* Where it starts in its coordinate: above the earlier pieces of it.
in_field_shift(f, k) == Width(f, {j \in 1 .. k - 1 : f[j][1] = f[k][1]})

\* The object AddrMap.__init__ builds.
address_map(g, scheme) == [geom |-> g, fields |-> scheme_fields(g, scheme)]

\* Linear burst index -> DRAM coordinates; bank is the flat bank index.
map(am, lin) ==
    LET f == am.fields
        chunk(k) == (lin \div 2^shift(f, k)) % 2^f[k][2]
        pieces(c) == {k \in DOMAIN f : f[k][1] = c}
        out(c) == SumFunctionOnSet([k \in pieces(c) |-> chunk(k) * 2^in_field_shift(f, k)],
                                   pieces(c))
    IN  [ch |-> out("ch"), bg |-> out("bg"), ba |-> out("ba"),
         bank |-> out("bg") * am.geom.banks_per_group + out("ba"),
         row |-> out("ro"), col |-> out("co")]

\* DRAM coordinates -> linear burst index.
inverse(am, m) ==
    LET f == am.fields
        val(c) == CASE c = "ch" -> m.ch [] c = "bg" -> m.bg [] c = "ba" -> m.ba
                    [] c = "ro" -> m.row [] c = "co" -> m.col
        chunk(k) == (val(f[k][1]) \div 2^in_field_shift(f, k)) % 2^f[k][2]
    IN  SumFunctionOnSet([k \in DOMAIN f |-> chunk(k) * 2^shift(f, k)], DOMAIN f)
=============================================================================
