------------------------------ MODULE PimAware ------------------------------
(***************************************************************************)
(* The alignment-preserving policy of pimkv/allocator.py.  The pool is     *)
(* carved into frames of G blocks.  A sequence fills its current frame at  *)
(* ascending offsets (frame affinity); an admission plans its frames up    *)
(* front (bestfit); speculative branches draw from an affinity domain of   *)
(* their own; a release may compact sparsely occupied frames.              *)
(*                                                                         *)
(* compact() runs inside release: it is the loop of steps compact_next,    *)
(* one block each, and no call starts while it is in progress.  The        *)
(* report-only counters blocks_copied and compactions are left out.        *)
(***************************************************************************)
EXTENDS KVAllocator, FiniteSetsExt

CONSTANTS
    G,                 \* blocks_per_frame
    Options,           \* the options of the constructor: segregate_scratch,
                       \* plan ("bestfit" or "greedy") and compact_below, in
                       \* percent of a frame (0: disabled)
    MaxCopies          \* bound: copies of a frame in empty_frames at which no
                       \* call that drops references starts

ASSUME FrameAssumption == G \in Nat \ {0} /\ NumBlocks % G = 0
ASSUME OptionsAssumption ==
    /\ \A o \in Options : /\ o.segregate_scratch \in BOOLEAN
                          /\ o.plan \in {"bestfit", "greedy"}
                          /\ o.compact_below \in Nat
    /\ MaxCopies \in Nat

VARIABLES
    opts,          \* the options of this allocator
    frame_free,    \* frame_free[f]: the free offsets of frame f (a min-heap)
    empty_frames,  \* empty_frames[f]: how many copies of f the heap holds
    affinity,      \* affinity domain -> current frame
    plans,         \* affinity domain -> frames reserved for it, in order
    nfree,         \* _nfree
    donors,        \* the frames the compaction in progress empties
    migrate        \* the blocks of the donors it has not looked at yet

placement == <<frame_free, empty_frames, affinity, plans, nfree>>
compaction == <<donors, migrate>>
pimvars == <<vars, opts, placement, compaction>>

n_frames == NumBlocks \div G
Frame == 0 .. n_frames - 1
Offset == 0 .. G - 1
ScratchKey == "scratch"
Key == Seqs \cup {ScratchKey}

FrameOf(b) == b \div G
OffsetOf(b) == b % G
BlockAt(f, off) == f * G + off

freeCount(f) == Cardinality(frame_free[f])
used(f) == G - freeCount(f)
FullyFree(f) == freeCount(f) = G
Full(f) == frame_free[f] = {}

PimInit ==
    /\ Init
    /\ opts \in Options
    /\ frame_free = [f \in Frame |-> Offset]
    /\ empty_frames = [f \in Frame |-> 1]
    /\ affinity = << >>
    /\ plans = << >>
    /\ nfree = NumBlocks
    /\ donors = {}
    /\ migrate = {}

-----------------------------------------------------------------------------
(* _plan_frames *)

\* The order of the plan: more free slots first, lower index on ties.  Empty
\* frames, which have the most free slots, come before the partial ones.
Before(f, g) ==
    \/ freeCount(f) > freeCount(g)
    \/ freeCount(f) = freeCount(g) /\ f < g

FreeIn(S) == {b \in Block : FrameOf(b) \in S /\ OffsetOf(b) \in frame_free[FrameOf(b)]}
Capacity(S) == Cardinality(FreeIn(S))

\* Mutant: the plan stops one slot short.
ChosenShort(n) ==
    {f \in Frame : frame_free[f] # {} /\ Capacity({g \in Frame : Before(g, f)}) < n - 1}

\* Frames are taken in that order while the capacity collected is below n.
Chosen(n) ==
    {f \in Frame : frame_free[f] # {} /\ Capacity({g \in Frame : Before(g, f)}) < n}

InPlanOrder(S) ==
    [i \in 1 .. Cardinality(S) |->
        CHOOSE f \in S : Cardinality({g \in S : Before(g, f)}) = i - 1]

\* The plan of k after an admission of n blocks asked for one.
plan_frames(k, n) ==
    plans' = IF opts.plan = "bestfit" /\ n > 0 /\ Capacity(Frame) >= n
             THEN Put(plans, k, InPlanOrder(Chosen(n)))
             ELSE plans

-----------------------------------------------------------------------------
(* _pick_frame, _alloc_one, _free_one *)

\* The first frame of k's plan that still has a free slot, if any.
Planned(k) ==
    IF k \in DOMAIN plans
    THEN {i \in DOMAIN plans[k] : frame_free[plans[k][i]] # {}}
    ELSE {}

pick_planned(k, f) ==
    /\ Planned(k) # {}
    /\ LET i == Min(Planned(k))
       IN  /\ f = plans[k][i]
           /\ plans' = [plans EXCEPT ![k] = SubSeq(@, i, Len(@))]
    /\ UNCHANGED <<affinity, empty_frames>>

Affine(k) == k \in DOMAIN affinity /\ frame_free[affinity[k]] # {}

pick_affine(k, f) ==
    /\ Planned(k) = {}
    /\ Affine(k)
    /\ f = affinity[k]
    /\ plans' = Pop(plans, k)
    /\ UNCHANGED <<affinity, empty_frames>>

\* The frames a pop of the heap still finds empty.
HeapEmpties == {f \in Frame : empty_frames[f] > 0 /\ FullyFree(f)}

\* Stale entries below the lowest such frame are popped on the way.
pick_empty(k, f) ==
    /\ Planned(k) = {}
    /\ ~ Affine(k)
    /\ HeapEmpties # {}
    /\ f = Min(HeapEmpties)
    /\ plans' = Pop(plans, k)
    /\ affinity' = Put(affinity, k, f)
    /\ empty_frames' = [g \in Frame |-> IF g < f THEN 0
                                        ELSE IF g = f THEN empty_frames[g] - 1
                                        ELSE empty_frames[g]]

\* No entry is left: the frame with the most free slots.
pick_fallback(k, f) ==
    /\ Planned(k) = {}
    /\ ~ Affine(k)
    /\ HeapEmpties = {}
    /\ frame_free[f] # {}
    /\ \A g \in Frame : g # f => Before(f, g)
    /\ plans' = Pop(plans, k)
    /\ affinity' = Put(affinity, k, f)
    /\ empty_frames' = [g \in Frame |-> 0]

pick_frame(k, f) ==
    \/ pick_planned(k, f)
    \/ pick_affine(k, f)
    \/ pick_empty(k, f)
    \/ pick_fallback(k, f)

AllocOne(k, f, b) ==
    /\ pick_frame(k, f)
    /\ b = BlockAt(f, Min(frame_free[f]))
    /\ frame_free' = [frame_free EXCEPT ![f] = @ \ {Min(@)}]
    /\ nfree' = nfree - 1

\* A free slot comes back to its frame; a frame that is whole again is pushed.
GiveBack(ff, b) == [ff EXCEPT ![FrameOf(b)] = @ \cup {OffsetOf(b)}]

\* Mutant: a frame that is whole again is not pushed on the heap.
PushForgotten(ff, f) == empty_frames

PushIfWhole(ff, f) ==
    IF Cardinality(ff[f]) = G THEN [empty_frames EXCEPT ![f] = @ + 1] ELSE empty_frames

FreeOne(b) ==
    /\ frame_free' = GiveBack(frame_free, b)
    /\ nfree' = nfree + 1
    /\ empty_frames' = PushIfWhole(GiveBack(frame_free, b), FrameOf(b))

-----------------------------------------------------------------------------
(* Calls *)

Idle == migrate = {}

\* The heap keeps the entries of frames that plans and compaction took blocks
\* from, so it grows with every frame that becomes whole again (MaxCopies).
MayDrop == \A f \in Frame : empty_frames[f] < MaxCopies

pim_admit(s, n) ==
    /\ Idle
    /\ admit(s, n, nfree)
    /\ plan_frames(s, n)
    /\ UNCHANGED <<frame_free, empty_frames, affinity, nfree, opts,
                   compaction>>

pim_admit_shared(s, shared, n) ==
    /\ Idle
    /\ admit_shared(s, shared, n, nfree)
    /\ plan_frames(s, n)
    /\ UNCHANGED <<frame_free, empty_frames, affinity, nfree, opts,
                   compaction>>

\* An admission of an id that has a table is refused with ValueError, but its
\* plan has been replaced by then.
pim_admit_refused(s, n) ==
    /\ Idle
    /\ call = "none"
    /\ s \in DOMAIN tables
    /\ plan_frames(s, n)
    /\ UNCHANGED <<vars, frame_free, empty_frames, affinity, nfree, opts,
                   compaction>>

pim_alloc_scratch(s, x, n) ==
    /\ Idle
    /\ alloc_scratch(s, x, n, nfree)
    /\ UNCHANGED <<placement, opts, compaction>>

\* The affinity domain of the call in progress.
CallKey == IF call = "scratch" /\ opts.segregate_scratch THEN ScratchKey ELSE cur

pim_alloc_next ==
    \E f \in Frame, b \in Block :
        /\ alloc_next(b)
        /\ AllocOne(CallKey, f, b)
        /\ UNCHANGED <<opts, compaction>>

pim_append_block(s) ==
    /\ Idle
    /\ \E f \in Frame, b \in Block :
          /\ append_block(s, b, nfree)
          /\ AllocOne(s, f, b)
    /\ UNCHANGED <<opts, compaction>>

pim_unref_next ==
    /\ unref_next
    /\ IF refcount[Head(todo)] = 1
       THEN FreeOne(Head(todo))
       ELSE UNCHANGED <<frame_free, nfree, empty_frames>>
    /\ UNCHANGED <<affinity, plans, opts, compaction>>

\* The donors of a compaction: occupied, but below the threshold.
Sparse == {f \in Frame : 0 < used(f) /\ 100 * used(f) < opts.compact_below * G}

Occupied(F) == {b \in Block : FrameOf(b) \in F /\ OffsetOf(b) \notin frame_free[FrameOf(b)]}

\* The end of a call that drops references.  release also forgets the plan and
\* the affinity of the sequence and, if enabled, starts a compaction.
pim_unref_return ==
    /\ unref_return
    /\ IF call = "release"
       THEN /\ affinity' = Pop(affinity, cur)
            /\ plans' = Pop(plans, cur)
            /\ migrate' = Occupied(Sparse)
            /\ donors' = Sparse
       ELSE UNCHANGED <<affinity, plans, compaction>>
    /\ UNCHANGED <<opts, frame_free, empty_frames, nfree>>

-----------------------------------------------------------------------------
(* compact *)

\* Mutant: a donor is a target like any other frame.
TargetsAny == {g \in Frame : frame_free[g] # {}}

\* Where a block of a donor may go, and the fullest such frame.
Targets == {g \in Frame \ donors : frame_free[g] # {}}

\* Mutant: the search keeps the emptiest frame.
Emptiest == CHOOSE g \in Targets :
              \A h \in Targets \ {g} : \/ used(g) < used(h)
                                       \/ used(g) = used(h) /\ g < h

Fullest == CHOOSE g \in Targets :
              \A h \in Targets \ {g} : \/ used(g) > used(h)
                                       \/ used(g) = used(h) /\ g < h

\* Mutant: the slot the block leaves is not given back.
CompactLeaks(b) ==
    LET nb == BlockAt(Fullest, Min(frame_free[Fullest]))
    IN  /\ InTable(b)
        /\ Targets # {}
        /\ relocate(b, nb)
        /\ frame_free' = [frame_free EXCEPT ![Fullest] = @ \ {Min(@)}]
        /\ UNCHANGED <<affinity, plans, nfree, empty_frames>>

\* Mutant: a scratch block is moved under the caller that holds it.
CompactMovesScratch(b) ==
    LET nb == BlockAt(Fullest, Min(frame_free[Fullest]))
        ff == GiveBack([frame_free EXCEPT ![Fullest] = @ \ {Min(@)}], b)
    IN  /\ Targets # {}
        /\ relocate(b, nb)
        /\ frame_free' = ff
        /\ empty_frames' = PushIfWhole(ff, FrameOf(b))
        /\ UNCHANGED <<affinity, plans, nfree>>

\* A block some table refers to is copied to the fullest frame.
compact_move(b) ==
    LET nb == BlockAt(Fullest, Min(frame_free[Fullest]))
        ff == GiveBack([frame_free EXCEPT ![Fullest] = @ \ {Min(@)}], b)
    IN  /\ InTable(b)
        /\ Targets # {}
        /\ relocate(b, nb)
        /\ frame_free' = ff
        /\ empty_frames' = PushIfWhole(ff, FrameOf(b))
        /\ UNCHANGED <<affinity, plans, nfree>>

\* A scratch block, or one that fits nowhere, stays.
compact_skip(b) ==
    /\ ~ InTable(b) \/ Targets = {}
    /\ UNCHANGED <<vars, placement>>

compact_next ==
    /\ migrate # {}
    /\ compact_move(Min(migrate)) \/ compact_skip(Min(migrate))
    /\ migrate' = migrate \ {Min(migrate)}
    /\ donors' = IF migrate' = {} THEN {} ELSE donors
    /\ UNCHANGED opts

-----------------------------------------------------------------------------

\* Calls that leave the placement alone.
PlacementFree ==
    /\ \/ Idle /\ \E p, c \in Seqs : fork(p, c)
       \/ Idle /\ MayDrop /\ \E x \in Slot : unref_blocks(x)
       \/ Idle /\ MayDrop /\ \E s \in Seqs : release(s)
       \/ /\ Idle /\ MayDrop
          /\ \E s \in Seqs, replace_tail \in BOOLEAN, x \in Slot, keep \in 1 .. MaxNew :
                spec_round_adopt(s, replace_tail, x, keep)
       \/ admit_return
       \/ scratch_return
       \/ \E x \in Slot : adopt_next(x)
    /\ UNCHANGED <<placement, opts, compaction>>

PimNext ==
    \/ \E s \in Seqs, n \in 1 .. MaxNew : pim_admit(s, n)
    \/ \E s, p \in Seqs, n \in 0 .. MaxNew :
          p \in DOMAIN tables /\ pim_admit_shared(s, tables[p], n)
    \/ \E s \in Seqs, n \in 1 .. MaxNew : pim_admit_refused(s, n)
    \/ \E s \in Seqs, x \in Slot, n \in 1 .. MaxNew : pim_alloc_scratch(s, x, n)
    \/ pim_alloc_next
    \/ \E s \in Seqs : pim_append_block(s)
    \/ pim_unref_next
    \/ pim_unref_return
    \/ compact_next
    \/ PlacementFree

PimSpec == PimInit /\ [][PimNext]_pimvars

-----------------------------------------------------------------------------
(* Properties.  PimSpec also implements KVAllocator's Spec, compaction      *)
(* included.                                                                *)

PimTypeOK ==
    /\ opts \in Options
    /\ frame_free \in [Frame -> SUBSET Offset]
    /\ empty_frames \in [Frame -> Nat]
    /\ DOMAIN affinity \subseteq Key
    /\ affinity \in [DOMAIN affinity -> Frame]
    /\ DOMAIN plans \subseteq Key
    /\ plans \in [DOMAIN plans -> Seq(Frame)]
    /\ nfree \in 0 .. NumBlocks
    /\ donors \subseteq Frame
    /\ migrate \subseteq Block

\* The free offsets of the frames are exactly the blocks that are not live,
\* and _nfree counts them: the counter is never recomputed, so an allocation,
\* a free or a move that forgot it would let admissions overcommit the pool.
FramesExact ==
    /\ PimTypeOK
    /\ \A b \in Block : OffsetOf(b) \in frame_free[FrameOf(b)] <=> b \in Free
    /\ nfree = Cardinality(Free)

\* Every whole frame has an entry in the heap of empty frames.  Plans and
\* compaction take blocks from a frame without popping its entry, and pops
\* throw stale entries away, so an entry could get lost: the frame would
\* never again be claimed as an empty one.
EmptyListed == \A f \in Frame : FullyFree(f) => empty_frames[f] > 0

\* A bestfit admission is served from its plan to the last block: the frames
\* reserved when it began still have room for what it has left to allocate.
PlanServes ==
    opts.plan = "bestfit" /\ call = "admit" /\ left > 0 =>
        /\ cur \in DOMAIN plans
        /\ Capacity(Elems(plans[cur])) >= left

\* The plan takes the fewest frames that can hold the admission.
PlanMinimal ==
    \A n \in 1 .. nfree : \A S \in SUBSET Frame :
        Capacity(S) >= n => Cardinality(Chosen(n)) <= Cardinality(S)

\* When a compaction ends, a donor keeps only blocks no table refers to (the
\* scratch lists in the hands of a caller), unless every other frame is full.
DonorsCleared ==
    [][(migrate # {} /\ migrate' = {}) =>
          \A b \in live' :
              FrameOf(b) \in donors =>
                  ~ InTable(b)' \/ \A g \in Frame \ donors : frame_free'[g] = {}]_pimvars

\* Compaction gathers: it accepts an empty frame, but leaves one sparse, as the
\* next compaction would find it, only when no other frame it could have used
\* has room.  So it never spreads the blocks of the donors over several frames
\* that would have to be emptied again.
CompactionGathers ==
    [][migrate # {} =>
          \A g, h \in Frame \ donors :
              (g \in Sparse' /\ ~ Full(g)' /\ g # h /\ used(h)' > 0) => Full(h)']_pimvars

=============================================================================
