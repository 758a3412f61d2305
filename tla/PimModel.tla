------------------------------ MODULE PimModel ------------------------------
(***************************************************************************)
(* The PIM execution model, pimkv/pimmodel.py: the bursts one channel      *)
(* receives, in token order, are coalesced into all-bank commands.  A      *)
(* burst is a record with a bank, a row and a col.  The code has the       *)
(* coalescing twice, once counting (coalesce_channel, all reported         *)
(* metrics) and once listing the commands (coalesce_channel_stream, the    *)
(* trace replayed in AttAcc); both are here.                               *)
(***************************************************************************)
EXTENDS Geometry, Sequences, SequencesExt

NoRow == -1                  \* nothing is open yet

\* The consecutive windows of w bursts; the last may be shorter.
Windows(s, w) ==
    [i \in 1 .. ceil_div(Len(s), w) |-> SubSeq(s, (i - 1) * w + 1, Min({i * w, Len(s)}))]

\* Bursts are grouped by a key that sorts them by row, then by bank.
key(b, B) == b.row * B + b.bank
ukey(win, B) == {key(win[i], B) : i \in DOMAIN win}
cnt(win, B, q) == Cardinality({i \in DOMAIN win : key(win[i], B) = q})

\* Mutant: a segment starts at the last key of a row.
SegLate(win, B) ==
    LET after(q) == {p \in ukey(win, B) : p > q}
    IN  {q \in ukey(win, B) : after(q) = {} \/ Min(after(q)) \div B # q \div B}

\* The keys at which the row groups start: in the sorted list, the row differs
\* from the row of the key before.
seg(win, B) ==
    LET before(q) == {p \in ukey(win, B) : p < q}
    IN  {q \in ukey(win, B) : before(q) = {} \/ Max(before(q)) \div B # q \div B}

\* The commands of the group that starts at q: the bursts of its busiest bank,
\* over the keys up to the start of the next group.
m(win, B, q) ==
    LET next == {z \in seg(win, B) : z > q}
        reach == {p \in ukey(win, B) : q <= p /\ \A z \in next : p < z}
    IN  Max({cnt(win, B, p) : p \in reach})

\* Mutant: the open row is forgotten between windows.
CarryLost(ws, k) == NoRow

\* The row taken to be open when window k starts.
carry(ws, k) == IF k = 1 THEN NoRow ELSE Last(ws[k - 1]).row

\* The commands of a window: it is reordered, so each row is opened once.
window_cmds(win, B) ==
    LET starts == seg(win, B)
    IN  SumFunctionOnSet([q \in starts |-> m(win, B, q)], starts)

\* One miss for each row group, but for that of the open row, if it is there.
window_misses(win, B, open) ==
    LET starts == seg(win, B)
    IN  Cardinality(starts) - (IF open \in {q \div B : q \in starts} THEN 1 ELSE 0)

\* coalesce_channel, mode "window", with B banks.
coalesce_window(s, w, B) ==
    LET ws == Windows(s, w)
        cmds == [k \in DOMAIN ws |-> window_cmds(ws[k], B)]
        misses == [k \in DOMAIN ws |-> window_misses(ws[k], B, carry(ws, k))]
        n == SumFunctionOnSet(cmds, DOMAIN ws)
    IN  [cmds |-> n, hits |-> n - SumFunctionOnSet(misses, DOMAIN ws)]

\* Mutant: a command takes two bursts of one bank.
InorderBankRepeats(c, b) == b.row # c.row

\* A burst that cannot join the current command.
closes(c, b) == b.row # c.row \/ b.bank \in c.banks

\* The locals of _coalesce_inorder before the first burst.
no_cmd == [cmds |-> 0, hits |-> 0, open |-> NoRow, row |-> NoRow, banks |-> {}]

\* Issue the current command, if there is one.
issue_cmd(c) ==
    IF c.row = NoRow THEN c
    ELSE [c EXCEPT !.cmds = @ + 1,
                   !.hits = @ + (IF c.row = c.open THEN 1 ELSE 0),
                   !.open = c.row]

\* A burst joins the current command or starts the next one.  A command that is
\* full has every bank, so the next burst always repeats one: the code's third
\* test is implied.
take(c, b) ==
    IF closes(c, b) THEN [issue_cmd(c) EXCEPT !.row = b.row, !.banks = {b.bank}]
                    ELSE [c EXCEPT !.banks = @ \cup {b.bank}]

\* _coalesce_inorder: the locals after each burst.
coalesce_inorder(s) ==
    LET f[i \in 0 .. Len(s)] == IF i = 0 THEN no_cmd ELSE take(f[i - 1], s[i])
        end == issue_cmd(f[Len(s)])
    IN  [cmds |-> end.cmds, hits |-> end.hits]

coalesce_channel(s, w, mode, B) ==
    IF mode = "inorder" THEN coalesce_inorder(s) ELSE coalesce_window(s, w, B)

-----------------------------------------------------------------------------
(* The command stream *)

\* coalesce_channel_stream, mode "inorder": a command has the column of its
\* first burst.
stream_inorder(s) ==
    LET issue(c) == IF c.row = NoRow THEN c.out ELSE Append(c.out, [row |-> c.row, col |-> c.col])
        next(c, b) == IF closes(c, b)
                      THEN [out |-> issue(c), row |-> b.row, col |-> b.col, banks |-> {b.bank}]
                      ELSE [c EXCEPT !.banks = @ \cup {b.bank}]
    IN  issue(FoldLeft(next, [out |-> << >>, row |-> NoRow, col |-> 0, banks |-> {}], s))

\* The column a row group is replayed with: that of the first burst of its key.
group_col(win, B, q) == win[Min({i \in DOMAIN win : key(win[i], B) = q})].col

\* Mutant: the row groups of a window are issued in ascending order.
OrderAscending(win, B, open) == SetToSortSeq(seg(win, B), <)

\* The order in which the row groups are issued: ascending, but the group of
\* the last burst goes last, and then that of the carried-in row first.
emission(win, B, open) ==
    LET of(l, r) == SelectSeq(l, LAMBDA q : q \div B = r)
        others(l, r) == SelectSeq(l, LAMBDA q : q \div B # r)
        asc == SetToSortSeq(seg(win, B), <)
        last == Last(win).row
        moved == others(asc, last) \o of(asc, last)
    IN  of(moved, open) \o others(moved, open)

\* coalesce_channel_stream, mode "window".
stream_window(s, w, B) ==
    LET ws == Windows(s, w)
        group(win, q) == [j \in 1 .. m(win, B, q) |->
                             [row |-> q \div B, col |-> group_col(win, B, q)]]
        issued(k) == LET e == emission(ws[k], B, carry(ws, k))
                     IN  FlattenSeq([i \in DOMAIN e |-> group(ws[k], e[i])])
    IN  FlattenSeq([k \in DOMAIN ws |-> issued(k)])

coalesce_channel_stream(s, w, mode, B) ==
    IF mode = "inorder" THEN stream_inorder(s) ELSE stream_window(s, w, B)

-----------------------------------------------------------------------------
(* Metrics of a sequence; perch: channel -> its bursts *)

\* sequence_metrics: the counters M1 and M2 are quotients of.
sequence_metrics(perch, g, w, mode) ==
    LET chans == DOMAIN perch
        counted == [c \in chans |-> coalesce_channel(perch[c], w, mode, banks_per_channel(g))]
    IN  [bursts |-> SumFunctionOnSet([c \in chans |-> Len(perch[c])], chans),
         cmds   |-> SumFunctionOnSet([c \in chans |-> counted[c].cmds], chans),
         hits   |-> SumFunctionOnSet([c \in chans |-> counted[c].hits], chans)]

\* DEFAULT_TIMING, in tenths of a nanosecond.
DEFAULT_TIMING == [tccd_ab |-> 43, trc |-> 450]

\* M3 as an exact fraction: BW_ideal * M2 * (tCCD_ab / mean command time), where
\* the banks, the commands and tCCD_ab cancel.
effective_bandwidth(g, s) ==
    [num |-> g.channels * g.burst_bytes * s.bursts,
     den |-> s.hits * DEFAULT_TIMING.tccd_ab + (s.cmds - s.hits) * DEFAULT_TIMING.trc]

\* M4 = kv_bytes / M3.
decode_latency(kv_bytes, bw) == [num |-> kv_bytes * bw.den, den |-> bw.num]
=============================================================================
