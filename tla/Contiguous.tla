----------------------------- MODULE Contiguous -----------------------------
(***************************************************************************)
(* ContiguousOracle of pimkv/allocator.py: every sequence gets one span of *)
(* consecutive blocks, reserved in full at admission, first fit over the   *)
(* free extents.  It overrides every path of KVAllocator, so it is a       *)
(* module of its own.                                                      *)
(*                                                                         *)
(* A span belongs to one sequence, so a reference count is 1 or absent:    *)
(* live is the set of counted blocks.  Only the difference of the totals   *)
(* of allocated and freed blocks is kept.  The simulator drops the scratch *)
(* of a sequence and then releases it: closing is the sequence between     *)
(* these two calls, and no other call comes in between.                    *)
(***************************************************************************)
EXTENDS Integers, Sequences, FiniteSets, FiniteSetsExt, Functions

CONSTANTS
    NumBlocks,  \* num_blocks
    Seqs,       \* sequence ids
    Null        \* not a sequence id

ASSUME ContiguousAssumption ==
    NumBlocks \in Nat \ {0} /\ IsFiniteSet(Seqs) /\ Null \notin Seqs

VARIABLES
    extents,    \* the free extents [start, size]
    spans,      \* seq id -> its span [start, size]
    tables,     \* seq id -> its block table
    reserved,   \* seq id -> the unconsumed tail of its span
    scratch,    \* seq id -> the scratch region its caller took
    live,       \* keys of refcount
    balance,    \* allocated_total - freed_total
    closing     \* the sequence whose scratch was dropped, Null if none

cvars == <<extents, spans, tables, reserved, scratch, live, balance, closing>>

Block == 0 .. NumBlocks - 1
Extent(start, size) == [start |-> start, size |-> size]
End(e) == e.start + e.size
BlocksOf(e) == e.start .. End(e) - 1
Elems(l) == {l[i] : i \in DOMAIN l}

Put(d, k, v) == [x \in DOMAIN d \cup {k} |-> IF x = k THEN v ELSE d[x]]
Pop(d, k) == [x \in DOMAIN d \ {k} |-> d[x]]

num_free ==
    SumFunctionOnSet([e \in extents |-> e.size], extents)
    + SumFunctionOnSet([s \in DOMAIN reserved |-> Len(reserved[s])], DOMAIN reserved)

CInit ==
    /\ extents = {Extent(0, NumBlocks)}
    /\ spans = << >>
    /\ tables = << >>
    /\ reserved = << >>
    /\ scratch = << >>
    /\ live = {}
    /\ balance = 0
    /\ closing = Null

\* The lowest extent that holds n blocks.
Fits(n) == {e \in extents : e.size >= n}
FirstFit(n) == CHOOSE e \in Fits(n) : \A g \in Fits(n) : e.start <= g.start

\* The extents without the first n blocks of e.
Take(e, n) ==
    (extents \ {e}) \cup IF e.size = n THEN {} ELSE {Extent(e.start + n, e.size - n)}

\* admit and admit_shared (which copies the shared prefix): n_prompt blocks now,
\* the rest of n_total reserved.  Without an extent of that size the call
\* fails (AdmissionFailure) and changes nothing.
admit(s, n_prompt, n_total) ==
    LET e == FirstFit(n_total)
        block(i) == e.start + i - 1
    IN  /\ closing = Null
        /\ s \notin DOMAIN tables
        /\ Fits(n_total) # {}
        /\ extents' = Take(e, n_total)
        /\ spans' = Put(spans, s, Extent(e.start, n_total))
        /\ tables' = Put(tables, s, [i \in 1 .. n_prompt |-> block(i)])
        /\ reserved' = Put(reserved, s,
                           [i \in 1 .. n_total - n_prompt |-> block(n_prompt + i)])
        /\ scratch' = Put(scratch, s, << >>)
        /\ live' = live \cup {block(i) : i \in 1 .. n_prompt}
        /\ balance' = balance + n_prompt
        /\ UNCHANGED closing

\* Mutant: the block is taken from the end of the reservation.
AppendFromEnd(s) ==
    /\ closing = Null
    /\ s \in DOMAIN tables
    /\ reserved[s] # << >>
    /\ LET b == reserved[s][Len(reserved[s])]
       IN  /\ tables' = [tables EXCEPT ![s] = Append(@, b)]
           /\ live' = live \cup {b}
    /\ reserved' = [reserved EXCEPT ![s] = SubSeq(@, 1, Len(@) - 1)]
    /\ balance' = balance + 1
    /\ UNCHANGED <<extents, spans, scratch, closing>>

append_block(s) ==
    /\ closing = Null
    /\ s \in DOMAIN tables
    /\ reserved[s] # << >>
    /\ tables' = [tables EXCEPT ![s] = Append(@, Head(reserved[s]))]
    /\ live' = live \cup {Head(reserved[s])}
    /\ reserved' = [reserved EXCEPT ![s] = Tail(@)]
    /\ balance' = balance + 1
    /\ UNCHANGED <<extents, spans, scratch, closing>>

\* The last n reserved blocks become the scratch region.
take_scratch(s, n) ==
    LET r == reserved[s]
        taken == SubSeq(r, Len(r) - n + 1, Len(r))
    IN  /\ closing = Null
        /\ s \in DOMAIN tables
        /\ scratch[s] = << >>
        /\ Len(reserved[s]) >= n
        /\ scratch' = [scratch EXCEPT ![s] = taken]
        /\ reserved' = [reserved EXCEPT ![s] = SubSeq(@, 1, Len(@) - n)]
        /\ live' = live \cup Elems(taken)
        /\ balance' = balance + n
        /\ UNCHANGED <<extents, spans, tables, closing>>

\* unref_blocks(scratch): the blocks are not free before the span comes back.
unref_blocks(s) ==
    /\ closing = Null
    /\ s \in DOMAIN tables
    /\ scratch[s] # << >>
    /\ live' = live \ Elems(scratch[s])
    /\ balance' = balance - Len(scratch[s])
    /\ scratch' = [scratch EXCEPT ![s] = << >>]
    /\ closing' = s
    /\ UNCHANGED <<extents, spans, tables, reserved>>

Starts(E) == {e.start : e \in E}
Ends(E) == {End(e) : e \in E}

\* Mutant: extents are sorted but not merged.
NotMerged(E) == E

\* Extents that touch become one.
Merged(E) ==
    {Extent(s, Min({x \in Ends(E) \ Starts(E) : x > s}) - s) : s \in Starts(E) \ Ends(E)}

\* The whole span, whatever was consumed of it, goes back to the extents: the
\* scratch region at its end with it, which release does not look at.
release(s) ==
    /\ live' = live \ Elems(tables[s])
    /\ balance' = balance - Len(tables[s])
    /\ extents' = Merged(extents \cup {spans[s]})
    /\ tables' = Pop(tables, s)
    /\ reserved' = Pop(reserved, s)
    /\ spans' = Pop(spans, s)

\* Mutant: a finished sequence is released with its scratch region.
DropHoldingScratch(s) ==
    /\ s \in DOMAIN tables
    /\ closing \in {Null, s}
    /\ release(s)
    /\ scratch' = Pop(scratch, s)
    /\ closing' = Null

\* The simulator finishes or preempts a sequence: what it took as scratch was
\* dropped first.
drop(s) ==
    /\ s \in DOMAIN tables
    /\ scratch[s] = << >>
    /\ closing \in {Null, s}
    /\ release(s)
    /\ scratch' = Pop(scratch, s)
    /\ closing' = Null

CNext ==
    \/ \E s \in Seqs, n_total \in 1 .. NumBlocks : \E n_prompt \in 1 .. n_total :
          admit(s, n_prompt, n_total)
    \/ \E s \in Seqs : append_block(s)
    \/ \E s \in Seqs, n \in 1 .. NumBlocks : take_scratch(s, n)
    \/ \E s \in Seqs : unref_blocks(s)
    \/ \E s \in Seqs : drop(s)

CSpec == CInit /\ [][CNext]_cvars

-----------------------------------------------------------------------------
(* Properties *)

CTypeOK ==
    /\ \A e \in extents : e.start \in Block /\ e.size \in 1 .. NumBlocks
    /\ DOMAIN tables \subseteq Seqs
    /\ DOMAIN spans = DOMAIN tables
    /\ DOMAIN reserved = DOMAIN tables
    /\ DOMAIN scratch = DOMAIN tables
    /\ \A s \in DOMAIN tables : {tables[s], reserved[s], scratch[s]} \subseteq Seq(Block)
    /\ live \subseteq Block
    /\ balance \in 0 .. NumBlocks
    /\ closing \in Seqs \cup {Null}

\* The extents and the spans tile the pool: no block is in two of them, none is
\* lost, and no two extents touch, so a released pool is one extent again and
\* an admission only fails when no run of free blocks is long enough.
Tiling ==
    /\ CTypeOK
    /\ \A b \in Block :
          Cardinality({e \in extents : b \in BlocksOf(e)})
          + Cardinality({s \in DOMAIN spans : b \in BlocksOf(spans[s])}) = 1
    /\ Starts(extents) \cap Ends(extents) = {}

\* "each sequence occupies one physically contiguous span": table, reservation
\* and scratch follow one another in it without a gap, so that the table stays
\* contiguous however the sequence grows.
SpanLayout ==
    \A s \in DOMAIN tables \ {closing} :
        tables[s] \o reserved[s] \o scratch[s]
            = [i \in 1 .. spans[s].size |-> spans[s].start + i - 1]

\* Validation gate 5 (assert_conservation), between the calls of the simulator
\* that belong together: the counted blocks are those of the tables and the
\* scratch regions, and the other blocks of the pool are free.
SpanGateFive ==
    /\ balance = Cardinality(live)
    /\ closing = Null => Cardinality(live) + num_free = NumBlocks
=============================================================================
