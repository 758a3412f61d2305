--------------------------- MODULE PimAware_proofs ---------------------------
(***************************************************************************)
(* Proofs about the pim-aware policy: the frames account for every free    *)
(* block, whole frames stay listed, the policy (compaction included)       *)
(* implements the allocator with the weakest policy, admissions are served *)
(* from their plan, plans are minimal and compaction clears its donors.    *)
(* Then the pinned prefix cache on top of it, for an allocator constructed *)
(* without compaction (compact_below = 0, the default of the sweep); with  *)
(* compaction its properties are false.                                    *)
(***************************************************************************)
EXTENDS PrefixCache, KVAllocator_proofs, Counting_proofs

USE NumBlocksAssumption, SeqsAssumption, BoundsAssumption, FrameAssumption,
    OptionsAssumption

-----------------------------------------------------------------------------
(* Blocks, frames and offsets *)

\* A block is an offset in a frame, and the other way round (divmod by
\* blocks_per_frame).
LEMMA FrameBlock ==
  /\ \A b \in Block : /\ FrameOf(b) \in Frame /\ OffsetOf(b) \in Offset
                      /\ BlockAt(FrameOf(b), OffsetOf(b)) = b
  /\ \A f \in Frame, o \in Offset : /\ BlockAt(f, o) \in Block
                                    /\ FrameOf(BlockAt(f, o)) = f
                                    /\ OffsetOf(BlockAt(f, o)) = o
<1>1. ASSUME NEW b \in 0 .. NumBlocks - 1
      PROVE  b \div G \in 0 .. (NumBlocks \div G) - 1
  OBVIOUS
<1>2. ASSUME NEW b \in Nat
      PROVE  b % G \in 0 .. G - 1 /\ (b \div G) * G + (b % G) = b
  OBVIOUS
<1>3. ASSUME NEW f \in 0 .. (NumBlocks \div G) - 1, NEW o \in 0 .. G - 1
      PROVE  f * G + o \in 0 .. NumBlocks - 1
  OBVIOUS
<1>4. ASSUME NEW f \in Nat, NEW o \in 0 .. G - 1
      PROVE  (f * G + o) \div G = f /\ (f * G + o) % G = o
  OBVIOUS
<1>5. \A b \in Block : b \in Nat
  BY DEF Block
<1>6. \A f \in Frame : f \in Nat
  BY DEF Frame
<1> QED
  BY <1>1, <1>2, <1>3, <1>4, <1>5, <1>6, Zenon
     DEF Block, Frame, Offset, FrameOf, OffsetOf, BlockAt, n_frames

\* The heaps hold small finite sets: len() of one is a count, its top exists.
LEMMA OffsetSets ==
  /\ IsFiniteSet(Offset) /\ Cardinality(Offset) = G
  /\ \A S \in SUBSET Offset :
        /\ IsFiniteSet(S) /\ Cardinality(S) \in 0 .. G
        /\ Cardinality(S) = G => S = Offset
        /\ S # {} => Min(S) \in S /\ Min(S) \in Offset
  /\ Offset # {}
<1>1. IsFiniteSet(Offset) /\ Cardinality(Offset) = G
  BY FS_Interval DEF Offset
<1>2. ASSUME NEW S \in SUBSET Offset
      PROVE  /\ IsFiniteSet(S) /\ Cardinality(S) \in 0 .. G
             /\ Cardinality(S) = G => S = Offset
             /\ S # {} => Min(S) \in S /\ Min(S) \in Offset
  <2>1. IsFiniteSet(S) /\ Cardinality(S) <= G /\ (Cardinality(S) = G => S = Offset)
    BY <1>1, FS_Subset
  <2>2. Cardinality(S) \in Nat
    BY <2>1, FS_CardinalityType
  <2>3. S # {} => Min(S) \in S
    <3>1. S \subseteq Nat
      BY DEF Offset
    <3> QED
      BY <3>1, NatMin
  <2> QED
    BY <2>1, <2>2, <2>3
<1>3. 0 \in Offset
  BY DEF Offset
<1> QED
  BY <1>1, <1>2, <1>3

\* What FramesExact says of a frame and an offset.
LEMMA SlotFree ==
  ASSUME FramesExact, NEW f \in Frame, NEW o \in Offset
  PROVE  o \in frame_free[f] <=> BlockAt(f, o) \in Free
  BY FrameBlock DEF FramesExact

\* Free blocks are finite in number; one joins or leaves them at a time.
LEMMA FreeFinite ==
  IsFiniteSet(Free) /\ Cardinality(Free) \in 0 .. NumBlocks
<1>1. IsFiniteSet(Block) /\ Cardinality(Block) = NumBlocks
  BY FS_Interval DEF Block
<1>2. Free \in SUBSET Block
  BY DEF Free
<1> QED
  BY <1>1, <1>2, FS_Subset, FS_CardinalityType

-----------------------------------------------------------------------------
(* _pick_frame, _alloc_one and _free_one *)

\* The frame _pick_frame returns has a free slot, and the plan, affinity and
\* heap entries stay what they are for.
LEMMA PickFrame ==
  ASSUME PimTypeOK, NEW k \in Key, NEW f \in Frame, pick_frame(k, f)
  PROVE  /\ frame_free[f] # {}
         /\ DOMAIN affinity' \subseteq Key /\ affinity' \in [DOMAIN affinity' -> Frame]
         /\ DOMAIN plans' \subseteq Key /\ plans' \in [DOMAIN plans' -> Seq(Frame)]
         /\ empty_frames' \in [Frame -> Nat]
<1> USE DEF PimTypeOK
<1>0. \A S \in SUBSET Nat : S # {} => Min(S) \in S
  BY NatMin
<1>p. /\ DOMAIN Pop(plans, k) \subseteq Key
      /\ Pop(plans, k) \in [DOMAIN Pop(plans, k) -> Seq(Frame)]
  BY DEF Pop
<1>a. /\ DOMAIN Put(affinity, k, f) \subseteq Key
      /\ Put(affinity, k, f) \in [DOMAIN Put(affinity, k, f) -> Frame]
  BY DEF Put
<1>1. CASE pick_planned(k, f)
  <2>1. k \in DOMAIN plans /\ Planned(k) # {}
    BY <1>1 DEF pick_planned, Planned
  <2>2. plans[k] \in Seq(Frame)
    BY <2>1
  <2>3. Planned(k) \subseteq DOMAIN plans[k] /\ DOMAIN plans[k] = 1 .. Len(plans[k])
    BY <2>1, <2>2 DEF Planned
  <2>4. Planned(k) \subseteq Nat
    BY <2>2, <2>3
  <2>5. PICK i : i = Min(Planned(k))
    OBVIOUS
  <2>6. i \in Planned(k) /\ i \in 1 .. Len(plans[k])
    BY <1>0, <2>1, <2>3, <2>4, <2>5
  <2>7. frame_free[plans[k][i]] # {}
    BY <2>1, <2>6 DEF Planned
  <2>8. f = plans[k][i] /\ plans' = [plans EXCEPT ![k] = SubSeq(@, i, Len(@))]
    BY <1>1, <2>5 DEF pick_planned
  <2>9. SubSeq(plans[k], i, Len(plans[k])) \in Seq(Frame)
    BY <2>2, <2>6
  <2>10. DOMAIN plans' = DOMAIN plans /\ plans' \in [DOMAIN plans -> Seq(Frame)]
    BY <2>1, <2>8, <2>9
  <2>11. UNCHANGED <<affinity, empty_frames>>
    BY <1>1 DEF pick_planned
  <2> QED
    BY <2>7, <2>8, <2>10, <2>11
<1>2. CASE pick_affine(k, f)
  BY <1>2, <1>p DEF pick_affine, Affine
<1>3. CASE pick_empty(k, f)
  <2>1. HeapEmpties \subseteq Nat /\ HeapEmpties # {}
    BY <1>3 DEF pick_empty, HeapEmpties, Frame
  <2>2. f \in HeapEmpties
    BY <1>0, <1>3, <2>1 DEF pick_empty
  <2>3. empty_frames[f] > 0 /\ freeCount(f) = G
    BY <2>2 DEF HeapEmpties, FullyFree
  <2>4. frame_free[f] # {}
    BY <2>3, FS_EmptySet DEF freeCount
  <2>5. empty_frames' \in [Frame -> Nat]
    BY <1>3, <2>3 DEF pick_empty
  <2> QED
    BY <1>3, <1>p, <1>a, <2>4, <2>5 DEF pick_empty
<1>4. CASE pick_fallback(k, f)
  BY <1>4, <1>p, <1>a DEF pick_fallback
<1> QED
  BY <1>1, <1>2, <1>3, <1>4 DEF pick_frame

\* The block in the lowest free slot of frame f, and the heaps without it.
Lowest(f) == BlockAt(f, Min(frame_free[f]))
Taken(f) == [frame_free EXCEPT ![f] = @ \ {Min(@)}]

\* The heaps without the lowest slot of frame f account for one block less.
LEMMA TakeExact ==
  ASSUME FramesExact, NEW f \in Frame, frame_free[f] # {}
  PROVE  /\ Lowest(f) \in Free /\ FrameOf(Lowest(f)) = f
         /\ Taken(f) \in [Frame -> SUBSET Offset]
         /\ \A c \in Block : OffsetOf(c) \in Taken(f)[FrameOf(c)] <=> c \in Free \ {Lowest(f)}
         /\ \A g \in Frame : g # f => Taken(f)[g] = frame_free[g]
         /\ Cardinality(Taken(f)[f]) # G
<1> DEFINE b == Lowest(f)
           ff == Taken(f)
<1> USE DEF Lowest, Taken
<1>1. frame_free \in [Frame -> SUBSET Offset]
  BY DEF FramesExact, PimTypeOK
<1>2. PICK o \in Offset : o = Min(frame_free[f]) /\ o \in frame_free[f]
  BY <1>1, OffsetSets
<1>3. b = BlockAt(f, o) /\ FrameOf(b) = f /\ OffsetOf(b) = o
  BY <1>2, FrameBlock
<1>4. b \in Free
  BY <1>2, <1>3, SlotFree
<1>5. /\ ff \in [Frame -> SUBSET Offset] /\ ff[f] = frame_free[f] \ {o}
      /\ \A g \in Frame : g # f => ff[g] = frame_free[g]
  BY <1>1, <1>2
<1>6. ASSUME NEW c \in Block
      PROVE  OffsetOf(c) \in ff[FrameOf(c)] <=> c \in Free \ {b}
  <2>1. FrameOf(c) \in Frame /\ OffsetOf(c) \in Offset
        /\ c = BlockAt(FrameOf(c), OffsetOf(c))
    BY FrameBlock
  <2>2. OffsetOf(c) \in frame_free[FrameOf(c)] <=> c \in Free
    BY DEF FramesExact
  <2>3. FrameOf(c) = f /\ OffsetOf(c) = o <=> c = b
    BY <1>3, <2>1
  <2>4. CASE FrameOf(c) = f
    BY <1>5, <2>2, <2>3, <2>4
  <2>5. CASE FrameOf(c) # f
    BY <1>5, <2>1, <2>2, <2>3, <2>5
  <2> QED
    BY <2>4, <2>5
<1>7. Cardinality(ff[f]) # G
  <2>1. IsFiniteSet(frame_free[f]) /\ Cardinality(frame_free[f]) \in 0 .. G
    BY <1>1, OffsetSets
  <2>2. Cardinality(frame_free[f] \ {o}) = Cardinality(frame_free[f]) - 1
    BY <1>2, <2>1, FS_RemoveElement
  <2>3. Cardinality(ff[f]) = Cardinality(frame_free[f]) - 1
    BY <1>5, <2>2, Zenon
  <2> QED
    BY <2>1, <2>3
<1> QED
  BY <1>3, <1>4, <1>5, <1>6, <1>7, Zenon

\* _alloc_one hands out a free block, and the frames account for it.
LEMMA AllocFrames ==
  ASSUME FramesExact, EmptyListed, NEW k \in Key, NEW f \in Frame, NEW b \in Block,
         AllocOne(k, f, b), Alloc(b), UNCHANGED <<opts, compaction>>
  PROVE  b \in Free /\ FramesExact' /\ EmptyListed'
<1>0. PimTypeOK
  BY DEF FramesExact
<1>1. /\ pick_frame(k, f) /\ b = BlockAt(f, Min(frame_free[f]))
      /\ frame_free' = [frame_free EXCEPT ![f] = @ \ {Min(@)}]
      /\ nfree' = nfree - 1
  BY DEF AllocOne
<1>2. /\ frame_free[f] # {}
      /\ DOMAIN affinity' \subseteq Key /\ affinity' \in [DOMAIN affinity' -> Frame]
      /\ DOMAIN plans' \subseteq Key /\ plans' \in [DOMAIN plans' -> Seq(Frame)]
      /\ empty_frames' \in [Frame -> Nat]
  BY <1>0, <1>1, PickFrame
<1>3. /\ b \in Free /\ FrameOf(b) = f
      /\ frame_free' \in [Frame -> SUBSET Offset]
      /\ \A c \in Block : OffsetOf(c) \in frame_free'[FrameOf(c)] <=> c \in Free \ {b}
      /\ \A g \in Frame : g # f => frame_free'[g] = frame_free[g]
      /\ Cardinality(frame_free'[f]) # G
  <2>1. b = Lowest(f) /\ frame_free' = Taken(f)
    BY <1>1 DEF Lowest, Taken
  <2> QED
    BY <1>2, <2>1, TakeExact
<1>4. Free' = Free \ {b}
  BY DEF Alloc, Put, Free, live
<1>5. Cardinality(Free') = Cardinality(Free) - 1
  BY <1>3, <1>4, FreeFinite, FS_RemoveElement
<1>6. nfree' = Cardinality(Free') /\ nfree' \in 0 .. NumBlocks
  <2>1. nfree = Cardinality(Free)
    BY DEF FramesExact
  <2>2. Cardinality(Free) # 0
    BY <1>3, FreeFinite, FS_EmptySet
  <2> QED
    BY <1>1, <1>5, <2>1, <2>2, FreeFinite
<1>7. PimTypeOK'
  BY <1>0, <1>2, <1>3, <1>6 DEF PimTypeOK, compaction
<1>8. FramesExact'
  BY <1>3, <1>4, <1>6, <1>7 DEF FramesExact
<1>9. ~ FullyFree(f)'
  BY <1>3 DEF FullyFree, freeCount
<1>10. ASSUME NEW g \in Frame, g # f, FullyFree(g)' PROVE empty_frames'[g] > 0
  <2>1. FullyFree(g) /\ empty_frames[g] > 0
    BY <1>3, <1>10 DEF FullyFree, freeCount, EmptyListed
  <2>2. g \in HeapEmpties
    BY <2>1 DEF HeapEmpties
  <2>3. CASE pick_empty(k, f)
    <3>1. HeapEmpties \subseteq Nat /\ HeapEmpties # {}
      BY <2>2 DEF HeapEmpties, Frame
    <3>2. f <= g
      BY <2>2, <2>3, <3>1, NatMin DEF pick_empty
    <3>3. ~ (g < f)
      BY <3>2 DEF Frame
    <3> QED
      BY <1>10, <2>1, <2>3, <3>3 DEF pick_empty
  <2>4. CASE pick_fallback(k, f)
    BY <2>2, <2>4 DEF pick_fallback
  <2>5. CASE pick_planned(k, f) \/ pick_affine(k, f)
    BY <2>1, <2>5 DEF pick_planned, pick_affine
  <2> QED
    BY <1>1, <2>3, <2>4, <2>5 DEF pick_frame
<1>11. EmptyListed'
  BY <1>9, <1>10 DEF EmptyListed
<1> QED
  BY <1>3, <1>8, <1>11

\* _free_one gives a block back to its frame, and pushes a frame that is whole.
\* The claim is about any heaps ff, as compact() first takes a slot elsewhere.
LEMMA GiveBackExact ==
  ASSUME NEW ff \in [Frame -> SUBSET Offset], NEW F, NEW b \in Block,
         \A c \in Block : OffsetOf(c) \in ff[FrameOf(c)] <=> c \in F
  PROVE  /\ GiveBack(ff, b) \in [Frame -> SUBSET Offset]
         /\ \A c \in Block :
               OffsetOf(c) \in GiveBack(ff, b)[FrameOf(c)] <=> c \in F \cup {b}
         /\ \A g \in Frame : g # FrameOf(b) => GiveBack(ff, b)[g] = ff[g]
<1>1. FrameOf(b) \in Frame /\ OffsetOf(b) \in Offset
  BY FrameBlock
<1>2. /\ GiveBack(ff, b)[FrameOf(b)] = ff[FrameOf(b)] \cup {OffsetOf(b)}
      /\ \A g \in Frame : g # FrameOf(b) => GiveBack(ff, b)[g] = ff[g]
      /\ GiveBack(ff, b) \in [Frame -> SUBSET Offset]
  BY <1>1 DEF GiveBack
<1>3. ASSUME NEW c \in Block
      PROVE  OffsetOf(c) \in GiveBack(ff, b)[FrameOf(c)] <=> c \in F \cup {b}
  <2>1. FrameOf(c) \in Frame /\ c = BlockAt(FrameOf(c), OffsetOf(c))
        /\ b = BlockAt(FrameOf(b), OffsetOf(b))
    BY FrameBlock
  <2>2. FrameOf(c) = FrameOf(b) /\ OffsetOf(c) = OffsetOf(b) <=> c = b
    BY <2>1
  <2>3. CASE FrameOf(c) = FrameOf(b)
    BY <1>2, <2>2, <2>3
  <2>4. CASE FrameOf(c) # FrameOf(b)
    BY <1>2, <2>1, <2>2, <2>4
  <2> QED
    BY <2>3, <2>4
<1> QED
  BY <1>2, <1>3

\* A frame that becomes whole is pushed; the other entries stay.
LEMMA PushKeeps ==
  ASSUME PimTypeOK, EmptyListed, NEW ff \in [Frame -> SUBSET Offset], NEW h \in Frame,
         frame_free' = ff, empty_frames' = PushIfWhole(ff, h),
         \A g \in Frame : g # h /\ Cardinality(ff[g]) = G => FullyFree(g)
  PROVE  empty_frames' \in [Frame -> Nat] /\ EmptyListed'
<1>1. empty_frames \in [Frame -> Nat]
  BY DEF PimTypeOK
<1>2. empty_frames' \in [Frame -> Nat]
  BY <1>1 DEF PushIfWhole
<1>3. ASSUME NEW g \in Frame, FullyFree(g)' PROVE empty_frames'[g] > 0
  <2>1. Cardinality(ff[g]) = G
    BY <1>3 DEF FullyFree, freeCount
  <2>2. CASE g = h
    BY <1>1, <2>1, <2>2 DEF PushIfWhole
  <2>3. CASE g # h
    <3>1. empty_frames[g] > 0
      BY <2>1, <2>3 DEF EmptyListed
    <3> QED
      BY <1>1, <2>3, <3>1 DEF PushIfWhole
  <2> QED
    BY <2>2, <2>3
<1> QED
  BY <1>2, <1>3 DEF EmptyListed

-----------------------------------------------------------------------------
(* compact *)

\* What holds between two steps of compact(): it runs inside release, so no
\* call is in progress; it only looks at blocks of donors; and what it left
\* behind in a donor is not in a table, or fitted nowhere.
Compacting ==
    migrate # {} =>
        /\ call = "none"
        /\ \A b \in migrate : FrameOf(b) \in donors
        /\ \A b \in live : FrameOf(b) \in donors /\ b \notin migrate /\ InTable(b)
                           => Targets = {}

\* An allocating call works for a sequence.
Caller == call \in {"admit", "scratch"} => cur \in Seqs

PimInv == Core /\ Caller /\ FramesExact /\ EmptyListed /\ Compacting

\* No step of the allocator changes the sequence of a call in progress.
LEMMA CallerNext ==
  ASSUME Caller, [Next]_vars
  PROVE  Caller'
<1>1. CASE UNCHANGED vars
  BY <1>1 DEF Caller, vars, locals
<1>2. CASE Next
  <2>1. \A s \in Seqs : \A l, n, f :
            admit(s, n, f) \/ admit_shared(s, l, n, f) => cur' \in Seqs
    BY DEF admit, admit_shared
  <2>2. \A s \in Seqs : \A x, n, f : alloc_scratch(s, x, n, f) => cur' \in Seqs
    BY DEF alloc_scratch
  <2>3. \A b : alloc_next(b) => UNCHANGED <<call, cur>>
    BY DEF alloc_next
  <2>4. admit_return \/ scratch_return \/ unref_return => call' = "none"
    BY DEF admit_return, scratch_return, unref_return
  <2>5. \A s, b, f : append_block(s, b, f) => UNCHANGED <<call, cur>>
    BY DEF append_block, locals
  <2>6. \A s, c : fork(s, c) => UNCHANGED <<call, cur>>
    BY DEF fork, locals
  <2>7. \A b, c : relocate(b, c) => UNCHANGED <<call, cur>>
    BY DEF relocate, locals
  <2>8. \A s, x : unref_blocks(x) \/ release(s) => call' \notin {"admit", "scratch"}
    BY DEF unref_blocks, release
  <2>9. \A s, t, x, k : spec_round_adopt(s, t, x, k) => call' \notin {"admit", "scratch"}
    BY DEF spec_round_adopt
  <2>10. \A x : adopt_next(x) \/ unref_next => UNCHANGED <<call, cur>>
    BY DEF adopt_next, unref_next
  <2>11. cur' \in Seqs \/ UNCHANGED <<call, cur>> \/ call' \notin {"admit", "scratch"}
    <3>1. call' = "none" => call' \notin {"admit", "scratch"}
      OBVIOUS
    <3> QED
      BY <1>2, <2>1, <2>2, <2>3, <2>4, <2>5, <2>6, <2>7, <2>8, <2>9, <2>10, <3>1, ZenonT(60) DEF Next
  <2> QED
    BY <2>11 DEF Caller
<1> QED
  BY <1>1, <1>2

\* compact() finds a fullest target if there is one.
LEMMA FullestTarget ==
  ASSUME PimTypeOK, Targets # {}
  PROVE  /\ Fullest \in Targets
         /\ \A h \in Targets \ {Fullest} : used(Fullest) >= used(h)
<1>1. \A g \in Targets : g \in Nat /\ freeCount(g) \in 0 .. G
  BY OffsetSets DEF Targets, PimTypeOK, freeCount, Frame
<1> DEFINE C == {freeCount(g) : g \in Targets}
           T == {g \in Targets : freeCount(g) = Min(C)}
<1>2. Min(C) \in C /\ \A n \in C : Min(C) <= n
  <2>1. C \subseteq Nat /\ C # {}
    BY <1>1
  <2> HIDE DEF C
  <2> QED
    BY <2>1, NatMin
<1>3. T # {} /\ T \subseteq Nat
  BY <1>1, <1>2
<1>4. Min(T) \in T /\ \A n \in T : Min(T) <= n
  <2> HIDE DEF T
  <2> QED
    BY <1>3, NatMin
<1>5. PICK g \in Targets : freeCount(g) = Min(C) /\ \A n \in T : g <= n
  BY <1>4
<1>6. \A h \in Targets : freeCount(g) <= freeCount(h)
  BY <1>2, <1>5
<1>7. \A h \in Targets \ {g} : freeCount(h) = freeCount(g) => g < h
  BY <1>1, <1>5
<1>8. \A h \in Targets \ {g} : used(g) > used(h) \/ (used(g) = used(h) /\ g < h)
  <2> HIDE DEF C, T
  <2> SUFFICES ASSUME NEW h \in Targets \ {g}
               PROVE  used(g) > used(h) \/ (used(g) = used(h) /\ g < h)
    OBVIOUS
  <2>1. PICK m, n \in 0 .. G : m = freeCount(g) /\ n = freeCount(h) /\ m <= n
    BY <1>1, <1>6
  <2>2. m = n => g < h
    BY <1>7, <2>1, Zenon
  <2>3. G - m > G - n \/ (G - m = G - n /\ g < h)
    BY <2>1, <2>2
  <2> QED
    BY <2>1, <2>3, Zenon DEF used
<1>9. /\ Fullest \in Targets
      /\ \A h \in Targets \ {Fullest} :
            used(Fullest) > used(h) \/ (used(Fullest) = used(h) /\ Fullest < h)
  BY <1>8 DEF Fullest
<1>10. ASSUME NEW h \in Targets \ {Fullest} PROVE used(Fullest) >= used(h)
  <2>1. PICK m, n \in Int : m = used(Fullest) /\ n = used(h)
    BY <1>1, <1>9, FrameAssumption DEF used
  <2>2. m > n \/ m = n
    BY <1>9, <2>1
  <2> QED
    BY <2>1, <2>2
<1> QED
  BY <1>9, <1>10

\* A block in a table is live, and held by that table.
LEMMA TableLive ==
  ASSUME Core, NEW b \in Block, InTable(b)
  PROVE  b \in live
<1>1. TypeOK /\ RefsExact
  BY DEF Core
<1>2. PICK s \in DOMAIN tables : b \in Elems(tables[s])
  BY DEF InTable
<1>3. s \in Seqs /\ s \in Holder /\ ListOf(s) = tables[s]
  BY <1>1, <1>2, ListKinds, HolderKinds DEF TypeOK
<1>4. s \in Holders(b)
  BY <1>2, <1>3 DEF Holders
<1> QED
  BY <1>1, <1>4 DEF RefsExact

\* One move of compact() is a relocation of the weakest policy, keeps the
\* frames exact and listed, and leaves nothing movable behind.
LEMMA CompactMove ==
  ASSUME PimInv, migrate # {}, NEW b \in migrate, compact_move(b),
         UNCHANGED opts, donors' \subseteq donors, migrate' \subseteq migrate
  PROVE  /\ Next /\ FramesExact' /\ EmptyListed'
         /\ \A c \in live' : FrameOf(c) \in donors /\ c \notin migrate \ {b} => ~ InTable(c)'
<1>0. Core /\ Caller /\ FramesExact /\ EmptyListed /\ Compacting /\ PimTypeOK /\ TypeOK
  BY DEF PimInv, Core, FramesExact
<1>1. PICK g : g = Fullest
  OBVIOUS
<1>2. PICK nb : nb = Lowest(g)
  OBVIOUS
<1>3. PICK f1 : f1 = Taken(g)
  OBVIOUS
<1>4. /\ InTable(b) /\ Targets # {} /\ relocate(b, nb)
      /\ frame_free' = GiveBack(f1, b)
      /\ empty_frames' = PushIfWhole(GiveBack(f1, b), FrameOf(b))
      /\ UNCHANGED <<affinity, plans, nfree>>
  BY <1>1, <1>2, <1>3 DEF compact_move, Lowest, Taken
<1>5. g \in Frame /\ g \notin donors /\ frame_free[g] # {}
  BY <1>0, <1>1, <1>4, FullestTarget DEF Targets
<1>6. b \in Block /\ FrameOf(b) \in donors /\ FrameOf(b) \in Frame
  BY <1>0, FrameBlock DEF PimTypeOK, Compacting
<1>7. /\ nb \in Free /\ FrameOf(nb) = g
      /\ f1 \in [Frame -> SUBSET Offset]
      /\ \A c \in Block : OffsetOf(c) \in f1[FrameOf(c)] <=> c \in Free \ {nb}
      /\ \A h \in Frame : h # g => f1[h] = frame_free[h]
      /\ Cardinality(f1[g]) # G
  BY <1>0, <1>2, <1>3, <1>5, TakeExact
<1>8. b \in live /\ b # nb
  BY <1>0, <1>4, <1>5, <1>6, <1>7, TableLive
<1>9. Next
  BY <1>4, <1>7, <1>8 DEF Next
<1>10. Free' = (Free \ {nb}) \cup {b}
  <2>1. refcount' = Put(Pop(refcount, b), nb, refcount[b])
    BY <1>4 DEF relocate
  <2>2. DOMAIN refcount' = (DOMAIN refcount \ {b}) \cup {nb}
    BY <2>1 DEF Put, Pop
  <2>3. nb \in Block /\ b \in Block
    BY <1>6, <1>7 DEF Free
  <2> QED
    BY <1>7, <1>8, <2>2, <2>3 DEF Free, live
<1>11. Cardinality(Free') = Cardinality(Free)
  BY <1>7, <1>8, <1>10, FreeFinite, SwapCard DEF Free
<1>12. /\ frame_free' \in [Frame -> SUBSET Offset]
       /\ \A c \in Block : OffsetOf(c) \in frame_free'[FrameOf(c)] <=> c \in Free'
       /\ \A h \in Frame : h # FrameOf(b) => frame_free'[h] = f1[h]
  <2>1. PICK F : F = Free \ {nb}
    OBVIOUS
  <2>2. /\ f1 \in [Frame -> SUBSET Offset] /\ b \in Block
        /\ \A c \in Block : OffsetOf(c) \in f1[FrameOf(c)] <=> c \in F
    BY <1>6, <1>7, <2>1, Zenon
  <2>3. /\ GiveBack(f1, b) \in [Frame -> SUBSET Offset]
        /\ \A c \in Block : OffsetOf(c) \in GiveBack(f1, b)[FrameOf(c)] <=> c \in F \cup {b}
        /\ \A h \in Frame : h # FrameOf(b) => GiveBack(f1, b)[h] = f1[h]
    BY <2>2, GiveBackExact
  <2> QED
    BY <1>4, <1>10, <2>1, <2>3, Zenon
<1>13. \A h \in Frame : h # FrameOf(b) /\ Cardinality(frame_free'[h]) = G => FullyFree(h)
  BY <1>5, <1>7, <1>12 DEF FullyFree, freeCount
<1>14. empty_frames' \in [Frame -> Nat] /\ EmptyListed'
  BY <1>0, <1>4, <1>6, <1>12, <1>13, PushKeeps
<1>15. PimTypeOK'
  BY <1>0, <1>4, <1>12, <1>14 DEF PimTypeOK
<1>16. FramesExact'
  BY <1>0, <1>4, <1>11, <1>12, <1>15 DEF FramesExact
<1>17. ASSUME NEW c \in live', FrameOf(c) \in donors, c \notin migrate \ {b}, InTable(c)'
       PROVE  FALSE
  <2>1. c # nb /\ c \in live /\ c # b
    BY <1>4, <1>5, <1>7, <1>17 DEF relocate, Put, Pop, live
  <2>2. InTable(c)
    <3>1. tables' = [s \in DOMAIN tables |-> Replace(tables[s], b, nb)]
      BY <1>4 DEF relocate
    <3>2. PICK s \in DOMAIN tables : c \in Elems(Replace(tables[s], b, nb))
      BY <1>17, <3>1 DEF InTable
    <3>3. c \in Elems(tables[s])
      BY <2>1, <3>2 DEF Elems, Replace
    <3> QED
      BY <3>3 DEF InTable
  <2> QED
    BY <1>0, <1>4, <1>17, <2>1, <2>2 DEF Compacting
<1> QED
  BY <1>9, <1>14, <1>16, <1>17

\* One step of compact(), a move or a skip.
LEMMA CompactStep ==
  ASSUME PimInv, compact_next
  PROVE  /\ [Next]_vars /\ PimInv'
         /\ \A c \in live' : FrameOf(c) \in donors /\ c \notin migrate' =>
               ~ InTable(c)' \/ \A g \in Frame \ donors : frame_free'[g] = {}
<1>0. Core /\ Caller /\ FramesExact /\ EmptyListed /\ Compacting /\ PimTypeOK /\ call = "none"
  BY DEF PimInv, FramesExact, compact_next, Compacting
<1>1. PICK b : b = Min(migrate)
  OBVIOUS
<1>2. b \in migrate
  <2>1. migrate # {} /\ migrate \subseteq Nat
    BY <1>0 DEF PimTypeOK, Block, compact_next
  <2> QED
    BY <1>1, <2>1, NatMin
<1>3. /\ migrate # {} /\ migrate' = migrate \ {b} /\ UNCHANGED opts
      /\ donors' = IF migrate' = {} THEN {} ELSE donors
      /\ compact_move(b) \/ compact_skip(b)
  BY <1>1 DEF compact_next
<1>4. donors' \subseteq donors /\ migrate' \subseteq migrate
  BY <1>3
<1>5. CASE compact_move(b)
  <2>1. /\ Next /\ FramesExact' /\ EmptyListed'
        /\ \A c \in live' : FrameOf(c) \in donors /\ c \notin migrate \ {b} => ~ InTable(c)'
    BY <1>2, <1>3, <1>4, <1>5, CompactMove
  <2>2. Core' /\ Caller'
    BY <1>0, <2>1, CoreNext, CallerNext
  <2>3. call' = "none"
    BY <1>0, <1>5 DEF compact_move, relocate
  <2>4. Compacting'
    BY <1>0, <1>3, <1>4, <2>1, <2>3 DEF Compacting
  <2> QED
    BY <1>3, <2>1, <2>2, <2>4 DEF PimInv
<1>6. CASE compact_skip(b)
  <2>1. UNCHANGED vars /\ UNCHANGED placement /\ (~ InTable(b) \/ Targets = {})
    BY <1>6 DEF compact_skip
  <2>2. Core' /\ Caller'
    BY <1>0, <2>1, CoreNext, CallerNext
  <2>3. live' = live /\ Free' = Free /\ call' = call
        /\ \A c : InTable(c)' <=> InTable(c)
    BY <2>1 DEF vars, live, Free, InTable
  <2>4. PimTypeOK' /\ FramesExact' /\ EmptyListed'
    BY <1>0, <1>3, <1>4, <2>1, <2>3
       DEF PimTypeOK, FramesExact, EmptyListed, FullyFree, freeCount, placement
  <2>5. \A c \in live : FrameOf(c) \in donors /\ c \notin migrate' /\ InTable(c)
                        => Targets = {}
    BY <1>0, <1>3, <2>1 DEF Compacting
  <2>6. Targets = {} => \A g \in Frame \ donors : frame_free'[g] = {}
    BY <2>1 DEF Targets, placement
  <2>7. migrate' # {} => Targets' = Targets
    BY <1>3, <2>1 DEF Targets, placement
  <2>8. Compacting'
    BY <1>0, <1>3, <1>4, <2>3, <2>5, <2>7 DEF Compacting
  <2> QED
    BY <2>1, <2>2, <2>3, <2>4, <2>5, <2>6, <2>8 DEF PimInv
<1> QED
  BY <1>3, <1>5, <1>6

-----------------------------------------------------------------------------
(* _plan_frames *)

\* The sort key of the plan orders the frames strictly and totally.
LEMMA BeforeOrder ==
  ASSUME PimTypeOK
  PROVE  /\ \A f \in Frame : ~ Before(f, f) /\ freeCount(f) \in 0 .. G
         /\ \A f, g \in Frame : f # g => Before(f, g) \/ Before(g, f)
         /\ \A f, g \in Frame : Before(f, g) => freeCount(g) <= freeCount(f)
         /\ \A f, g, h \in Frame : Before(f, g) /\ Before(g, h) => Before(f, h)
<1>1. \A f \in Frame : f \in Nat /\ freeCount(f) \in 0 .. G
  BY OffsetSets DEF PimTypeOK, freeCount, Frame
<1> QED
  BY <1>1 DEF Before

\* The frames are finite in number.
LEMMA FrameSets ==
  IsFiniteSet(Frame) /\ \A S \in SUBSET Frame : IsFiniteSet(S) /\ Cardinality(S) \in Nat
<1>1. n_frames \in Int
  BY DEF n_frames
<1>2. IsFiniteSet(Frame)
  BY <1>1, FS_Interval DEF Frame
<1> QED
  BY <1>2, FS_Subset, FS_CardinalityType

\* How many frames of S come before f.
Rank(S, f) == Cardinality({g \in S : Before(g, f)})

\* Earlier frames have lower ranks.
LEMMA RankLess ==
  ASSUME PimTypeOK, NEW S \in SUBSET Frame, NEW f \in S, NEW g \in S
  PROVE  /\ Rank(S, f) \in Nat /\ Rank(S, f) < Cardinality(S)
         /\ Before(f, g) => Rank(S, f) < Rank(S, g)
<1> DEFINE A == {h \in S : Before(h, f)}
           B == {h \in S : Before(h, g)}
<1>1. A \in SUBSET Frame /\ B \in SUBSET Frame /\ f \notin A
  BY BeforeOrder
<1>2. IsFiniteSet(S) /\ IsFiniteSet(A) /\ IsFiniteSet(B) /\ Cardinality(A) \in Nat
      /\ Cardinality(S) \in Nat /\ Cardinality(B) \in Nat
  BY <1>1, FrameSets
<1>3. Cardinality(A) < Cardinality(S)
  <2>1. A \in SUBSET (S \ {f}) /\ IsFiniteSet(S \ {f}) /\ Cardinality(S \ {f}) = Cardinality(S) - 1
    BY <1>1, <1>2, FS_RemoveElement
  <2>2. Cardinality(A) <= Cardinality(S \ {f})
    BY <2>1, FS_Subset
  <2> QED
    BY <1>2, <2>1, <2>2
<1>4. ASSUME Before(f, g) PROVE Cardinality(A) < Cardinality(B)
  <2>1. A \in SUBSET (B \ {f})
    BY <1>1, <1>4, BeforeOrder
  <2>2. f \in B
    BY <1>4
  <2>3. IsFiniteSet(B \ {f}) /\ Cardinality(B \ {f}) = Cardinality(B) - 1
    BY <1>2, <2>2, FS_RemoveElement
  <2>4. Cardinality(A) <= Cardinality(B \ {f})
    BY <2>1, <2>3, FS_Subset
  <2> QED
    BY <1>2, <2>3, <2>4
<1> QED
  BY <1>2, <1>3, <1>4 DEF Rank

\* Every rank below the number of frames is taken, by one frame.
LEMMA RankOnto ==
  ASSUME PimTypeOK, NEW S \in SUBSET Frame
  PROVE  /\ \A i \in 1 .. Cardinality(S) : \E f \in S : Rank(S, f) = i - 1
         /\ \A f, g \in S : Rank(S, f) = Rank(S, g) => f = g
<1> DEFINE n == Cardinality(S)
           r == [f \in S |-> Rank(S, f)]
<1>1. IsFiniteSet(S) /\ n \in Nat
  BY FrameSets
<1>2. \A f \in S : Rank(S, f) \in 0 .. n - 1
  BY <1>1, RankLess
<1>3. \A f, g \in S : Rank(S, f) = Rank(S, g) => f = g
  <2> SUFFICES ASSUME NEW f \in S, NEW g \in S, Rank(S, f) = Rank(S, g), f # g PROVE FALSE
    OBVIOUS
  <2>1. Before(f, g) \/ Before(g, f)
    BY BeforeOrder
  <2>2. Rank(S, f) < Rank(S, g) \/ Rank(S, g) < Rank(S, f)
    BY <2>1, RankLess
  <2> QED
    BY <1>2, <2>2
<1>4. IsFiniteSet(0 .. n - 1) /\ Cardinality(0 .. n - 1) = n
  <2> HIDE DEF n
  <2>1. 0 \in Int /\ n - 1 \in Int
    BY <1>1
  <2>2. /\ IsFiniteSet(0 .. n - 1)
        /\ Cardinality(0 .. n - 1) = IF 0 > n - 1 THEN 0 ELSE n - 1 - 0 + 1
    BY <2>1, FS_Interval
  <2> QED
    BY <1>1, <2>2
<1>5. r \in Injection(S, 0 .. n - 1)
  BY <1>2, <1>3 DEF Injection, IsInjective
<1>6. r \in Surjection(S, 0 .. n - 1)
  <2>1. PICK T : T = 0 .. n - 1
    OBVIOUS
  <2>2. r \in Injection(S, T) /\ IsFiniteSet(T) /\ Cardinality(S) = Cardinality(T)
    BY <1>4, <1>5, <2>1, Zenon
  <2> HIDE DEF r
  <2>3. r \in Surjection(S, T)
    BY <2>2, FS_Injection
  <2> QED
    BY <2>1, <2>3
<1>7. \A j \in 0 .. n - 1 : \E f \in S : r[f] = j
  <2> HIDE DEF r
  <2> QED
    BY <1>6 DEF Surjection
<1>8. ASSUME NEW i \in 1 .. n PROVE \E f \in S : Rank(S, f) = i - 1
  <2>1. i - 1 \in 0 .. n - 1
    BY <1>1
  <2> QED
    BY <1>7, <2>1
<1> QED
  BY <1>3, <1>8

\* The plan lists the chosen frames, each once.
LEMMA PlanOrder ==
  ASSUME PimTypeOK, NEW S \in SUBSET Frame
  PROVE  /\ InPlanOrder(S) \in Seq(Frame)
         /\ Elems(InPlanOrder(S)) = S
<1> DEFINE at(i) == CHOOSE f \in S : Rank(S, f) = i - 1
<1>1. Cardinality(S) \in Nat
  BY FrameSets
<1>2. \A i \in 1 .. Cardinality(S) : at(i) \in S /\ Rank(S, at(i)) = i - 1
  BY RankOnto
<1>3. InPlanOrder(S) = [i \in 1 .. Cardinality(S) |-> at(i)]
  BY Zenon DEF InPlanOrder, Rank
<1> HIDE DEF at
<1>4. DOMAIN InPlanOrder(S) = 1 .. Cardinality(S)
      /\ \A i \in 1 .. Cardinality(S) : InPlanOrder(S)[i] = at(i)
  BY <1>3
<1>5. InPlanOrder(S) \in [1 .. Cardinality(S) -> Frame]
  BY <1>2, <1>3
<1>6. InPlanOrder(S) \in Seq(Frame)
  BY <1>1, <1>5, SeqDef
<1>7. ASSUME NEW f \in S PROVE f \in Elems(InPlanOrder(S))
  <2>1. PICK i : i = Rank(S, f) + 1
    OBVIOUS
  <2>2. i \in 1 .. Cardinality(S) /\ Rank(S, f) = i - 1
    BY <1>1, <2>1, RankLess
  <2>3. InPlanOrder(S)[i] = f
    BY <1>2, <1>4, <2>2, RankOnto
  <2> QED
    BY <1>4, <2>2, <2>3, Zenon DEF Elems
<1>8. Elems(InPlanOrder(S)) \subseteq S
  BY <1>2, <1>4 DEF Elems
<1> QED
  BY <1>6, <1>7, <1>8

\* Sets of free slots are finite, and more frames have no fewer of them.
LEMMA FreeInMono ==
  ASSUME NEW S, NEW T, FreeIn(S) \subseteq FreeIn(T)
  PROVE  /\ IsFiniteSet(FreeIn(T)) /\ Capacity(T) \in Nat
         /\ Capacity(S) \in Nat /\ Capacity(S) <= Capacity(T)
<1>1. IsFiniteSet(Block)
  BY FS_Interval DEF Block
<1>2. FreeIn(S) \in SUBSET Block /\ FreeIn(T) \in SUBSET Block /\ FreeIn(S) \in SUBSET FreeIn(T)
  BY DEF FreeIn
<1>3. IsFiniteSet(FreeIn(S)) /\ IsFiniteSet(FreeIn(T))
  BY <1>1, <1>2, FS_Subset
<1>4. Cardinality(FreeIn(S)) <= Cardinality(FreeIn(T))
  BY <1>2, <1>3, FS_Subset
<1> QED
  BY <1>3, <1>4, FS_CardinalityType DEF Capacity

\* The pool has room for n blocks: then the frames chosen for n have it too.
LEMMA ChosenServes ==
  ASSUME PimTypeOK, NEW n \in Nat, Capacity(Frame) >= n
  PROVE  Capacity(Chosen(n)) >= n
<1> DEFINE Q == {f \in Frame : frame_free[f] # {} /\ f \notin Chosen(n)}
<1>1. \A b \in Block : FrameOf(b) \in Frame
  BY FrameBlock
<1>2. CASE Q = {}
  <2>1. FreeIn(Frame) \subseteq FreeIn(Chosen(n))
    BY <1>1, <1>2 DEF FreeIn
  <2> QED
    BY <2>1, FreeInMono
<1>3. CASE Q # {}
  <2> DEFINE R == {Rank(Frame, f) : f \in Q}
  <2>1. R \subseteq Nat /\ R # {}
    BY <1>3, RankLess
  <2>2. Min(R) \in R /\ \A j \in R : Min(R) <= j
    <3> HIDE DEF R
    <3> QED
      BY <2>1, NatMin
  <2>3. PICK f \in Q : Rank(Frame, f) = Min(R)
    BY <2>2
  <2>4. \A g \in Q : ~ Before(g, f)
    <3> SUFFICES ASSUME NEW g \in Q, Before(g, f) PROVE FALSE
      OBVIOUS
    <3>1. Rank(Frame, g) < Rank(Frame, f)
      BY RankLess
    <3>2. Rank(Frame, f) <= Rank(Frame, g)
      BY <2>2, <2>3
    <3>3. Rank(Frame, f) \in Nat /\ Rank(Frame, g) \in Nat
      BY RankLess
    <3> HIDE DEF Q, R
    <3> QED
      BY <3>1, <3>2, <3>3
  <2> DEFINE P == {g \in Frame : Before(g, f)}
  <2>5. FreeIn(P) \subseteq FreeIn(Chosen(n))
    BY <1>1, <2>4 DEF FreeIn
  <2>6. Capacity(P) \in Nat /\ Capacity(Chosen(n)) \in Nat /\ Capacity(P) <= Capacity(Chosen(n))
    BY <2>5, FreeInMono
  <2>7. ~ (Capacity(P) < n)
    BY DEF Chosen
  <2> HIDE DEF P
  <2> QED
    BY <2>6, <2>7
<1> QED
  BY <1>2, <1>3

-----------------------------------------------------------------------------
(* The inductive invariant *)

\* _nfree is what the weakest policy calls num_free.
LEMMA NumFree ==
  ASSUME TypeOK, FramesExact
  PROVE  nfree = num_free
<1>1. IsFiniteSet(Block) /\ Cardinality(Block) = NumBlocks
  BY FS_Interval DEF Block
<1>2. Cardinality(Free) = NumBlocks - Cardinality(Block \cap live)
  BY <1>1, FS_Difference DEF Free
<1>3. Block \cap live = live
  BY DEF TypeOK
<1> QED
  BY <1>2, <1>3 DEF FramesExact, num_free, num_live

\* The plan an admission leaves behind is a list of frames.
LEMMA PlanType ==
  ASSUME PimTypeOK, NEW k \in Key, NEW n, plan_frames(k, n)
  PROVE  DOMAIN plans' \subseteq Key /\ plans' \in [DOMAIN plans' -> Seq(Frame)]
<1>1. PICK p \in Seq(Frame) : p = InPlanOrder(Chosen(n))
  BY PlanOrder DEF Chosen
<1>2. plans' = plans \/ plans' = Put(plans, k, p)
  BY <1>1 DEF plan_frames
<1> QED
  BY <1>2 DEF PimTypeOK, Put

\* The initial frames are whole and listed.
LEMMA PimInvInit == PimInit => PimInv
<1> SUFFICES ASSUME PimInit PROVE PimInv
  OBVIOUS
<1>1. Core /\ Caller /\ live = {}
  BY CoreInit DEF PimInit, Init, live, Caller
<1>2. Free = Block /\ Cardinality(Block) = NumBlocks
  BY <1>1, FS_Interval DEF Free, Block
<1>3. PimTypeOK
  BY DEF PimInit, PimTypeOK
<1>4. FramesExact
  BY <1>2, <1>3, FrameBlock DEF PimInit, FramesExact
<1>5. EmptyListed /\ Compacting
  BY DEF PimInit, EmptyListed, Compacting
<1> QED
  BY <1>1, <1>4, <1>5 DEF PimInv

\* A step that allocates and frees nothing.
LEMMA QuietStep ==
  ASSUME PimInv, [Next]_vars, live' = live, UNCHANGED <<frame_free, empty_frames, nfree, opts>>,
         DOMAIN affinity' \subseteq Key, affinity' \in [DOMAIN affinity' -> Frame],
         DOMAIN plans' \subseteq Key, plans' \in [DOMAIN plans' -> Seq(Frame)],
         donors' \subseteq Frame, migrate' \subseteq Block, Compacting'
  PROVE  PimInv'
<1>1. Core /\ Caller /\ FramesExact /\ EmptyListed /\ PimTypeOK
  BY DEF PimInv, FramesExact
<1>2. Core' /\ Caller'
  BY <1>1, CoreNext, CallerNext
<1>3. PimTypeOK'
  BY <1>1 DEF PimTypeOK
<1>4. Free' = Free
  BY DEF Free
<1>5. FramesExact' /\ EmptyListed'
  BY <1>1, <1>3, <1>4 DEF FramesExact, EmptyListed, FullyFree, freeCount
<1> QED
  BY <1>2, <1>5 DEF PimInv

\* The case of a call that leaves plans and affinities alone too.
LEMMA StillStep ==
  ASSUME PimInv, [Next]_vars, live' = live, UNCHANGED <<placement, opts, compaction>>,
         migrate = {}
  PROVE  PimInv'
<1>1. PimTypeOK
  BY DEF PimInv, FramesExact
<1>2. Compacting' /\ donors' = donors /\ migrate' = migrate
  BY DEF Compacting, compaction
<1>3. /\ DOMAIN affinity' \subseteq Key /\ affinity' \in [DOMAIN affinity' -> Frame]
      /\ DOMAIN plans' \subseteq Key /\ plans' \in [DOMAIN plans' -> Seq(Frame)]
      /\ donors' \subseteq Frame /\ migrate' \subseteq Block
  BY <1>1, <1>2 DEF PimTypeOK, placement
<1> QED
  BY <1>2, <1>3, QuietStep DEF placement

\* An admission, which leaves a plan behind.
LEMMA PlannedStep ==
  ASSUME PimInv, [Next]_vars, live' = live, NEW k \in Key, NEW n, plan_frames(k, n),
         UNCHANGED <<frame_free, empty_frames, affinity, nfree, opts, compaction>>,
         migrate = {}
  PROVE  PimInv'
<1>1. PimTypeOK
  BY DEF PimInv, FramesExact
<1>2. Compacting' /\ donors' = donors /\ migrate' = migrate
  BY DEF Compacting, compaction
<1>3. DOMAIN plans' \subseteq Key /\ plans' \in [DOMAIN plans' -> Seq(Frame)]
  BY <1>1, PlanType
<1>4. /\ DOMAIN affinity' \subseteq Key /\ affinity' \in [DOMAIN affinity' -> Frame]
      /\ donors' \subseteq Frame /\ migrate' \subseteq Block
  BY <1>1, <1>2 DEF PimTypeOK
<1> QED
  BY <1>2, <1>3, <1>4, QuietStep

\* Every step of the policy is a step of the allocator with the weakest policy
\* and keeps the frames exact.
LEMMA PimStepOK == PimInv /\ [PimNext]_pimvars => [Next]_vars /\ PimInv'
<1> SUFFICES ASSUME PimInv, [PimNext]_pimvars PROVE [Next]_vars /\ PimInv'
  OBVIOUS
<1>0. Core /\ Caller /\ TypeOK /\ CallConsistent /\ FramesExact /\ EmptyListed /\ PimTypeOK /\ Compacting
  BY DEF PimInv, Core, FramesExact
<1>n. nfree = num_free
  BY <1>0, NumFree
<1>c. call # "none" => migrate = {}
  BY <1>0 DEF Compacting
<1>k. \A s \in Seqs : s \in Key
  BY DEF Key
<1>1. ASSUME NEW s \in Seqs, NEW n \in 1 .. MaxNew, pim_admit(s, n)
      PROVE  [Next]_vars /\ PimInv'
  <2>1. Next /\ live' = live
    BY <1>1, <1>n DEF Next, pim_admit, admit, live
  <2> QED
    BY <1>1, <1>k, <2>1, PlannedStep DEF pim_admit, Idle
<1>2. ASSUME NEW s \in Seqs, NEW p \in Seqs, NEW n \in 0 .. MaxNew, p \in DOMAIN tables,
             pim_admit_shared(s, tables[p], n)
      PROVE  [Next]_vars /\ PimInv'
  <2>1. Next
    BY <1>2, <1>n DEF Next, pim_admit_shared
  <2>2. live' = live
    BY <1>2 DEF pim_admit_shared, admit_shared, Addref, live
  <2> QED
    BY <1>2, <1>k, <2>1, <2>2, PlannedStep DEF pim_admit_shared, Idle
<1>3. ASSUME NEW s \in Seqs, NEW n \in 1 .. MaxNew, pim_admit_refused(s, n)
      PROVE  [Next]_vars /\ PimInv'
  <2>1. UNCHANGED vars /\ live' = live
    BY <1>3 DEF pim_admit_refused, vars, live
  <2> QED
    BY <1>3, <1>k, <2>1, PlannedStep DEF pim_admit_refused, Idle
<1>4. ASSUME NEW s \in Seqs, NEW x \in Slot, NEW n \in 1 .. MaxNew, pim_alloc_scratch(s, x, n)
      PROVE  [Next]_vars /\ PimInv'
  <2>1. Next /\ live' = live
    BY <1>4, <1>n DEF Next, pim_alloc_scratch, alloc_scratch, live
  <2> QED
    BY <1>4, <2>1, StillStep DEF pim_alloc_scratch, Idle
<1>5. ASSUME pim_alloc_next PROVE [Next]_vars /\ PimInv'
  <2>1. PICK f \in Frame, b \in Block : /\ alloc_next(b)
                                        /\ AllocOne(CallKey, f, b)
                                        /\ UNCHANGED <<opts, compaction>>
    BY <1>5 DEF pim_alloc_next
  <2>2. CallKey \in Key
    BY <1>0, <2>1 DEF CallKey, Key, alloc_next, Caller
  <2>3. b \in Free /\ FramesExact' /\ EmptyListed'
    BY <1>0, <2>1, <2>2, AllocFrames DEF alloc_next
  <2>4. Next
    BY <2>1, <2>3 DEF Next
  <2>5. migrate' = {}
    BY <1>c, <2>1 DEF alloc_next, compaction
  <2> QED
    BY <1>0, <2>3, <2>4, <2>5, CoreNext, CallerNext DEF PimInv, Compacting
<1>6. ASSUME NEW s \in Seqs, pim_append_block(s) PROVE [Next]_vars /\ PimInv'
  <2>1. PICK f \in Frame, b \in Block : append_block(s, b, nfree) /\ AllocOne(s, f, b)
    BY <1>6 DEF pim_append_block
  <2>2. b \in Free /\ FramesExact' /\ EmptyListed'
    <3>1. Alloc(b) /\ AllocOne(s, f, b) /\ UNCHANGED <<opts, compaction>>
      BY <1>6, <2>1 DEF append_block, pim_append_block
    <3> QED
      BY <1>0, <1>k, <3>1, AllocFrames
  <2>3. Next
    BY <1>n, <2>1, <2>2 DEF Next
  <2>4. migrate' = {}
    BY <1>6 DEF pim_append_block, Idle, compaction
  <2> QED
    BY <1>0, <2>2, <2>3, <2>4, CoreNext, CallerNext DEF PimInv, Compacting
<1>7. ASSUME pim_unref_next PROVE [Next]_vars /\ PimInv'
  <2>1. unref_next /\ Next
    BY <1>7 DEF pim_unref_next, Next
  <2>2. todo # << >> /\ Unref(Head(todo))
    BY <2>1 DEF unref_next
  <2>3. PICK d \in Block : d = Head(todo)
    BY <1>0, <2>2 DEF TypeOK
  <2>4. d \in live
    <3>1. d \in Elems(todo)
      BY <1>0, <2>2, <2>3 DEF TypeOK, Elems
    <3>2. -1 \in Holders(d)
      BY <1>0, <3>1, ListKinds, HolderKinds DEF Holders
    <3> QED
      BY <1>0, <3>2 DEF RefsExact, Core
  <2>5. call # "none" /\ migrate = {}
    BY <1>0, <1>c, <2>2 DEF CallConsistent
  <2>6. CASE refcount[d] = 1
    <3>1. /\ frame_free' = GiveBack(frame_free, d) /\ nfree' = nfree + 1
          /\ empty_frames' = PushIfWhole(GiveBack(frame_free, d), FrameOf(d))
          /\ UNCHANGED <<affinity, plans, opts, compaction>>
      BY <1>7, <2>3, <2>6 DEF pim_unref_next, FreeOne
    <3>2. Free' = Free \cup {d} /\ d \notin Free
      BY <2>2, <2>3, <2>4, <2>6 DEF Unref, Pop, Free, live
    <3>3. frame_free \in [Frame -> SUBSET Offset]
          /\ \A c \in Block : OffsetOf(c) \in frame_free[FrameOf(c)] <=> c \in Free
      BY <1>0 DEF FramesExact, PimTypeOK
    <3>4. /\ GiveBack(frame_free, d) \in [Frame -> SUBSET Offset]
          /\ \A c \in Block : OffsetOf(c) \in GiveBack(frame_free, d)[FrameOf(c)]
                                 <=> c \in Free \cup {d}
          /\ \A g \in Frame : g # FrameOf(d) => GiveBack(frame_free, d)[g] = frame_free[g]
      BY <3>3, GiveBackExact
    <3>5. FrameOf(d) \in Frame
      BY FrameBlock
    <3>6. \A g \in Frame : g # FrameOf(d) /\ Cardinality(GiveBack(frame_free, d)[g]) = G
                           => FullyFree(g)
      BY <3>4 DEF FullyFree, freeCount
    <3>7. empty_frames' \in [Frame -> Nat] /\ EmptyListed'
      BY <1>0, <3>1, <3>4, <3>5, <3>6, PushKeeps
    <3>8. Cardinality(Free') = Cardinality(Free) + 1 /\ Cardinality(Free') \in 0 .. NumBlocks
      <4>1. Cardinality(Free \cup {d}) = Cardinality(Free) + 1
        BY <3>2, FreeFinite, FS_AddElement
      <4>2. (Cardinality(Free) \in 0 .. NumBlocks)'
        BY FreeFinite, PTL
      <4> QED
        BY <3>2, <4>1, <4>2, Zenon
    <3>9. PimTypeOK'
      BY <1>0, <3>1, <3>4, <3>7, <3>8 DEF PimTypeOK, FramesExact, compaction
    <3>10. FramesExact'
      BY <1>0, <3>1, <3>2, <3>4, <3>8, <3>9 DEF FramesExact
    <3> QED
      BY <1>0, <2>1, <2>5, <3>1, <3>7, <3>10, CoreNext, CallerNext DEF PimInv, Compacting, compaction
  <2>7. CASE refcount[d] # 1
    <3>1. UNCHANGED <<placement, opts, compaction>>
      BY <1>7, <2>3, <2>7 DEF pim_unref_next, placement
    <3>2. live' = live
      BY <2>2, <2>3, <2>7 DEF Unref, live
    <3> QED
      BY <2>1, <2>5, <3>1, <3>2, StillStep
  <2> QED
    BY <2>6, <2>7
<1>8. ASSUME pim_unref_return PROVE [Next]_vars /\ PimInv'
  <2>1. unref_return /\ Next /\ live' = live /\ UNCHANGED <<frame_free, empty_frames, nfree, opts>>
    BY <1>8 DEF pim_unref_return, Next, unref_return, live
  <2>2. CASE call = "release"
    <3>1. /\ affinity' = Pop(affinity, cur) /\ plans' = Pop(plans, cur)
          /\ migrate' = Occupied(Sparse) /\ donors' = Sparse
      BY <1>8, <2>2 DEF pim_unref_return
    <3>2. /\ DOMAIN affinity' \subseteq Key /\ affinity' \in [DOMAIN affinity' -> Frame]
          /\ DOMAIN plans' \subseteq Key /\ plans' \in [DOMAIN plans' -> Seq(Frame)]
      BY <1>0, <3>1 DEF PimTypeOK, Pop
    <3>3. donors' \subseteq Frame /\ migrate' \subseteq Block
      BY <3>1 DEF Sparse, Occupied
    <3>4. \A b \in live : FrameOf(b) \in Sparse => b \in Occupied(Sparse)
      BY <1>0 DEF TypeOK, FramesExact, Free, Occupied
    <3>5. call' = "none"
      BY <2>1 DEF unref_return
    <3>6. Compacting'
      BY <2>1, <3>1, <3>4, <3>5 DEF Compacting, Occupied
    <3> QED
      BY <2>1, <3>2, <3>3, <3>6, QuietStep
  <2>3. CASE call # "release"
    <3>1. UNCHANGED <<placement, opts, compaction>>
      BY <1>8, <2>1, <2>3 DEF pim_unref_return, placement
    <3>2. migrate = {}
      BY <1>c, <2>1 DEF unref_return
    <3> QED
      BY <2>1, <3>1, <3>2, StillStep
  <2> QED
    BY <2>2, <2>3
<1>9. ASSUME compact_next PROVE [Next]_vars /\ PimInv'
  BY <1>9, CompactStep
<1>10. ASSUME PlacementFree PROVE [Next]_vars /\ PimInv'
  <2>1. UNCHANGED <<placement, opts, compaction>>
    BY <1>10 DEF PlacementFree
  <2>2. ASSUME NEW p \in Seqs, NEW c \in Seqs, Idle, fork(p, c) PROVE [Next]_vars /\ PimInv'
    <3>1. Next /\ live' = live
      BY <2>2 DEF Next, fork, Addref, live
    <3> QED
      BY <2>1, <2>2, <3>1, StillStep DEF Idle
  <2>3. ASSUME NEW x \in Slot, Idle, unref_blocks(x) PROVE [Next]_vars /\ PimInv'
    <3>1. Next /\ live' = live
      BY <2>3 DEF Next, unref_blocks, live
    <3> QED
      BY <2>1, <2>3, <3>1, StillStep DEF Idle
  <2>4. ASSUME NEW s \in Seqs, Idle, release(s) PROVE [Next]_vars /\ PimInv'
    <3>1. Next /\ live' = live
      BY <2>4 DEF Next, release, live
    <3> QED
      BY <2>1, <2>4, <3>1, StillStep DEF Idle
  <2>5. ASSUME NEW s \in Seqs, NEW replace_tail \in BOOLEAN, NEW x \in Slot,
               NEW keep \in 1 .. MaxNew, Idle, spec_round_adopt(s, replace_tail, x, keep)
        PROVE  [Next]_vars /\ PimInv'
    <3>1. Next /\ live' = live
      BY <2>5 DEF Next, spec_round_adopt, live
    <3> QED
      BY <2>1, <2>5, <3>1, StillStep DEF Idle
  <2>6. ASSUME admit_return PROVE [Next]_vars /\ PimInv'
    <3>1. Next /\ live' = live /\ migrate = {}
      BY <1>c, <2>6 DEF Next, admit_return, live
    <3> QED
      BY <2>1, <3>1, StillStep
  <2>7. ASSUME scratch_return PROVE [Next]_vars /\ PimInv'
    <3>1. Next /\ live' = live /\ migrate = {}
      BY <1>c, <2>7 DEF Next, scratch_return, live
    <3> QED
      BY <2>1, <3>1, StillStep
  <2>8. ASSUME NEW x \in Slot, adopt_next(x) PROVE [Next]_vars /\ PimInv'
    <3>1. Next /\ live' = live /\ migrate = {}
      BY <1>c, <2>8 DEF Next, adopt_next, live
    <3> QED
      BY <2>1, <3>1, StillStep
  <2> QED
    BY <1>10, <2>2, <2>3, <2>4, <2>5, <2>6, <2>7, <2>8 DEF PlacementFree
<1>11. ASSUME UNCHANGED pimvars PROVE [Next]_vars /\ PimInv'
  <2>1. UNCHANGED vars /\ UNCHANGED <<placement, opts, compaction>> /\ live' = live
    BY <1>11 DEF pimvars, vars, live
  <2>2. Core' /\ Caller' /\ Free' = Free /\ \A b : InTable(b)' <=> InTable(b)
    BY <1>0, <2>1, CoreNext, CallerNext DEF Free, InTable, vars
  <2>3. PimTypeOK'
    BY <1>0, <2>1 DEF PimTypeOK, placement, compaction
  <2>4. FramesExact' /\ EmptyListed'
    BY <1>0, <2>1, <2>2, <2>3
       DEF FramesExact, EmptyListed, FullyFree, freeCount, placement
  <2>5. Targets' = Targets /\ migrate' = migrate /\ donors' = donors /\ call' = call
    BY <2>1 DEF Targets, placement, compaction, vars
  <2>6. Compacting'
    BY <1>0, <2>1, <2>2, <2>5 DEF Compacting
  <2> QED
    BY <2>1, <2>2, <2>4, <2>6 DEF PimInv
<1> QED
  BY <1>1, <1>2, <1>3, <1>4, <1>5, <1>6, <1>7, <1>8, <1>9, <1>10, <1>11 DEF PimNext

\* A step leaves the blocks to migrate alone unless it is one of compact(), or
\* the return of a release, which begins a compaction.
LEMMA MigrateStep ==
  ASSUME PimInv, PimNext, migrate # {}, migrate' # migrate
  PROVE  compact_next
<1>1. call = "none"
  BY DEF PimInv, Compacting
<1>2. ~ pim_unref_return
  BY <1>1 DEF pim_unref_return, unref_return
<1> QED
  BY <1>2 DEF PimNext, PlacementFree, pim_admit, pim_admit_shared, pim_admit_refused,
     pim_alloc_scratch, pim_alloc_next, pim_append_block, pim_unref_next, compaction

\* While a compaction is in progress nothing else happens.
LEMMA CompactOnly ==
  ASSUME PimInv, PimNext, migrate # {}
  PROVE  compact_next
<1>1. call = "none"
  BY DEF PimInv, Compacting
<1>2. ~ Idle
  BY DEF Idle
<1>3. ~ PlacementFree
  BY <1>1, <1>2 DEF PlacementFree, admit_return, scratch_return, adopt_next
<1>4. ~ pim_unref_return /\ ~ pim_unref_next /\ ~ pim_alloc_next
  BY <1>1 DEF PimInv, Core, CallConsistent, pim_unref_return, unref_return, pim_unref_next, unref_next, pim_alloc_next, alloc_next
<1> QED
  BY <1>2, <1>3, <1>4 DEF PimNext, pim_admit, pim_admit_shared, pim_admit_refused,
     pim_alloc_scratch, pim_append_block

-----------------------------------------------------------------------------
(* Compaction gathers *)

\* No frame of F is sparse while another one of F that is in use has room.
Gathered(F) ==
    \A g, h \in F : (g \in Sparse /\ ~ Full(g) /\ g # h /\ used(h) > 0) => Full(h)

\* The block a step moves goes to the fullest frame: one that is sparse then was
\* so before, or was empty and every other frame in use is full.
LEMMA GatherMove ==
  ASSUME PimInv, migrate # {}, NEW b \in migrate, compact_move(b), UNCHANGED opts,
         Gathered(Frame \ donors), NEW D, D = donors
  PROVE  \A g, h \in Frame \ D :
            (g \in Sparse' /\ ~ Full(g)' /\ g # h /\ used(h)' > 0) => Full(h)'
<1>0. PimTypeOK /\ Compacting /\ FrameOf(b) \in donors
  BY DEF PimInv, FramesExact, Compacting
<1>1. PICK t : t = Fullest
  OBVIOUS
<1>2. /\ t \in Frame /\ t \notin D /\ frame_free[t] # {}
      /\ \A h \in Frame \ D : h # t /\ frame_free[h] # {} => used(t) >= used(h)
  BY <1>0, <1>1, FullestTarget DEF compact_move, Targets
<1>3. PICK o : o = Min(frame_free[t])
  OBVIOUS
<1>4. frame_free' = GiveBack([frame_free EXCEPT ![t] = @ \ {o}], b)
  BY <1>1, <1>3 DEF compact_move
<1>5. /\ frame_free'[t] = frame_free[t] \ {o}
      /\ \A h \in Frame \ D : h # t => frame_free'[h] = frame_free[h]
  BY <1>0, <1>2, <1>4 DEF GiveBack, PimTypeOK
<1>6. o \in frame_free[t]
  <2>1. frame_free[t] \subseteq Nat
    BY <1>0, <1>2 DEF PimTypeOK, Offset
  <2> QED
    BY <1>2, <1>3, <2>1, NatMin
<1>7. PICK n \in Nat : freeCount(t) = n /\ freeCount(t)' = n - 1
  <2>1. frame_free[t] \in SUBSET Offset
    BY <1>0, <1>2 DEF PimTypeOK
  <2>2. IsFiniteSet(frame_free[t]) /\ Cardinality(frame_free[t]) \in Nat
    BY <2>1, OffsetSets, FS_CardinalityType
  <2>3. Cardinality(frame_free[t] \ {o}) = Cardinality(frame_free[t]) - 1
    BY <1>6, <2>2, FS_RemoveElement
  <2> QED
    BY <1>5, <2>2, <2>3 DEF freeCount
<1>8. PICK u \in Int : used(t) = u /\ used(t)' = u + 1
  <2>1. G - (n - 1) = (G - n) + 1 /\ G - n \in Int
    BY FrameAssumption
  <2> QED
    BY <1>7, <2>1 DEF used
<1>9. \A h \in Frame : PimTypeOK => used(h) \in Nat
  <2> SUFFICES ASSUME NEW h \in Frame PROVE used(h) \in Nat
    BY <1>0
  <2>1. freeCount(h) \in 0 .. G
    BY <1>0, OffsetSets DEF PimTypeOK, freeCount
  <2>2. PICK k \in 0 .. G : freeCount(h) = k
    BY <2>1
  <2>3. G - k \in Nat
    BY FrameAssumption
  <2> QED
    BY <2>2, <2>3 DEF used
<1>10. \A h \in Frame \ D : h # t =>
           /\ used(h)' = used(h) /\ (Full(h)' <=> Full(h)) /\ (h \in Sparse' <=> h \in Sparse)
  BY <1>5 DEF used, freeCount, Full, Sparse
<1> SUFFICES ASSUME NEW g \in Frame \ D, NEW h \in Frame \ D,
                    g \in Sparse', ~ Full(g)', g # h, used(h)' > 0
             PROVE  Full(h)'
  OBVIOUS
<1>11. \A x, y \in Frame \ D : x \in Sparse /\ ~ Full(x) /\ x # y /\ used(y) > 0 => Full(y)
  BY DEF Gathered
<1>12. ~ Full(t)
  BY <1>2 DEF Full
<1>13. CASE g # t /\ h # t
  BY <1>10, <1>11, <1>13
<1>14. CASE h = t
  <2>1. g \in Sparse /\ ~ Full(g) /\ g # t
    BY <1>10, <1>14
  <2>2. used(t) >= used(g)
    BY <1>2, <2>1 DEF Full
  <2>3. used(g) > 0
    BY <2>1 DEF Sparse
  <2>4. used(t) > 0
    BY <1>0, <1>2, <1>9, <2>2, <2>3
  <2> QED
    BY <1>2, <1>11, <1>12, <2>1, <2>4
<1>15. CASE g = t
  <2>1. used(h) > 0 /\ h # t
    BY <1>10, <1>15
  <2>2. CASE u > 0
    <3>1. 100 * used(t)' < opts.compact_below * G
      BY <1>15 DEF Sparse
    <3>2. opts.compact_below \in Nat /\ G \in Nat
      BY <1>0, OptionsAssumption, FrameAssumption DEF PimTypeOK
    <3>3. PICK m \in Int : m = opts.compact_below * G
      BY <3>2
    <3>4. 100 * u < m
      BY <1>8, <3>1, <3>3
    <3>5. t \in Sparse
      BY <1>2, <1>8, <2>2, <3>3, <3>4 DEF Sparse
    <3> QED
      BY <1>2, <1>10, <1>11, <1>12, <2>1, <3>5
  <2>3. CASE ~ u > 0
    <3>1. ~ (u >= used(h))
      BY <1>0, <1>9, <2>1, <2>3
    <3>2. Full(h)
      BY <1>2, <1>8, <2>1, <3>1 DEF Full
    <3> QED
      BY <1>10, <2>1, <3>2
  <2> QED
    BY <2>2, <2>3
<1> QED
  BY <1>13, <1>14, <1>15

\* What every step of a compaction keeps, and its end too.
GatherInv == migrate # {} => Gathered(Frame \ donors)

LEMMA GatherStep ==
  ASSUME PimInv, GatherInv, PimNext, migrate # {}, NEW D, D = donors
  PROVE  \A g, h \in Frame \ D :
            (g \in Sparse' /\ ~ Full(g)' /\ g # h /\ used(h)' > 0) => Full(h)'
<1>1. PICK b : b = Min(migrate)
  OBVIOUS
<1>2. b \in migrate
  <2>1. migrate \subseteq Nat
    BY DEF PimInv, FramesExact, PimTypeOK, Block
  <2> QED
    BY <1>1, <2>1, NatMin
<1>3. UNCHANGED opts /\ (compact_move(b) \/ compact_skip(b))
  BY <1>1, CompactOnly DEF compact_next
<1>4. Gathered(Frame \ donors)
  BY DEF GatherInv
<1>5. CASE compact_move(b)
  BY <1>2, <1>3, <1>4, <1>5, GatherMove
<1>6. CASE compact_skip(b)
  <2>1. frame_free' = frame_free
    BY <1>6 DEF compact_skip, placement
  <2>2. Sparse' = Sparse /\ \A h \in Frame : used(h)' = used(h) /\ (Full(h)' <=> Full(h))
    BY <1>3, <2>1 DEF Sparse, used, freeCount, Full
  <2> QED
    BY <1>4, <2>2 DEF Gathered
<1> QED
  BY <1>3, <1>5, <1>6

LEMMA GatherNext ==
  ASSUME PimInv, GatherInv, [PimNext]_pimvars
  PROVE  GatherInv'
<1>1. CASE UNCHANGED pimvars
  BY <1>1 DEF pimvars, placement, compaction, GatherInv, Gathered, Sparse, used, freeCount, Full
<1>2. CASE PimNext /\ migrate # {}
  <2>1. compact_next
    BY <1>2, CompactOnly
  <2>2. migrate' # {} => donors' = donors
    BY <2>1 DEF compact_next
  <2>3. PICK D : D = donors
    OBVIOUS
  <2>4. \A g, h \in Frame \ D :
            (g \in Sparse' /\ ~ Full(g)' /\ g # h /\ used(h)' > 0) => Full(h)'
    BY <1>2, <2>3, GatherStep
  <2> QED
    BY <2>2, <2>3, <2>4 DEF GatherInv, Gathered
<1>3. CASE PimNext /\ migrate = {} /\ migrate' # {}
  <2>1. pim_unref_return
    BY <1>3 DEF PimNext, PlacementFree, pim_admit, pim_admit_shared, pim_admit_refused,
       pim_alloc_scratch, pim_alloc_next, pim_append_block, pim_unref_next, compaction, compact_next
  <2>2. donors' = Sparse /\ frame_free' = frame_free /\ opts' = opts
    BY <1>3, <2>1 DEF pim_unref_return, compaction
  <2>3. Sparse' = donors'
    BY <2>2 DEF Sparse, used, freeCount
  <2> QED
    BY <2>3 DEF GatherInv, Gathered
<1>4. CASE migrate' = {}
  BY <1>4 DEF GatherInv
<1> QED
  BY <1>1, <1>2, <1>3, <1>4

-----------------------------------------------------------------------------
(* Admissions are served from their plan *)

\* The free slots of all frames are the free blocks.
LEMMA WholeCapacity ==
  ASSUME FramesExact
  PROVE  Capacity(Frame) = nfree
<1>1. FreeIn(Frame) = Free
  BY FrameBlock DEF FramesExact, FreeIn, Free
<1> QED
  BY <1>1 DEF FramesExact, Capacity

\* An admission of n blocks that passed its check leaves a plan with n slots.
LEMMA PlanMade ==
  ASSUME FramesExact, NEW k \in Key, NEW n \in Nat, n > 0, nfree >= n, plan_frames(k, n),
         opts.plan = "bestfit", UNCHANGED frame_free
  PROVE  k \in DOMAIN plans' /\ Capacity(Elems(plans[k]))' >= n
<1>1. PimTypeOK /\ Capacity(Frame) >= n
  BY WholeCapacity DEF FramesExact
<1>2. PICK C : C = Chosen(n)
  OBVIOUS
<1>3. C \in SUBSET Frame /\ Capacity(C) >= n
  BY <1>1, <1>2, ChosenServes DEF Chosen
<1>4. plans' = Put(plans, k, InPlanOrder(C))
  BY <1>1, <1>2 DEF plan_frames
<1>5. k \in DOMAIN plans' /\ plans'[k] = InPlanOrder(C)
  BY <1>4 DEF Put
<1>6. Elems(plans'[k]) = C
  BY <1>1, <1>3, <1>5, PlanOrder
<1>7. FreeIn(C)' = FreeIn(C)
  BY DEF FreeIn
<1>8. Capacity(Elems(plans[k]))' = Capacity(C)
  BY <1>6, <1>7, Zenon DEF Capacity, FreeIn
<1> QED
  BY <1>3, <1>5, <1>8

\* _alloc_one for a domain whose plan has a free slot left: the plan loses the
\* slot it hands out, and the frames that are dropped from it are full.
LEMMA PlanUsed ==
  ASSUME FramesExact, NEW k \in Key, NEW f \in Frame, NEW b \in Block, AllocOne(k, f, b),
         k \in DOMAIN plans, Capacity(Elems(plans[k])) > 0
  PROVE  /\ k \in DOMAIN plans' /\ Capacity(Elems(plans[k]))' \in Nat
         /\ Capacity(Elems(plans[k]))' >= Capacity(Elems(plans[k])) - 1
<1>0. PimTypeOK /\ plans[k] \in Seq(Frame)
  BY DEF FramesExact, PimTypeOK
<1>1. PICK p \in Seq(Frame) : p = plans[k]
  BY <1>0
<1>2. \A c \in FreeIn(Elems(p)) : \E j \in DOMAIN p : FrameOf(c) = p[j] /\ j \in Planned(k)
  BY <1>1 DEF FreeIn, Elems, Planned
<1>3. Planned(k) # {}
  <2>1. Cardinality(FreeIn(Elems(p))) > 0
    BY <1>1 DEF Capacity
  <2>2. ASSUME FreeIn(Elems(p)) = {} PROVE FALSE
    <3>1. Cardinality(FreeIn(Elems(p))) = 0
      BY <2>2, FS_EmptySet, Zenon
    <3> QED
      BY <2>1, <3>1
  <2> QED
    BY <1>2, <2>2
<1>4. pick_planned(k, f)
  BY <1>3 DEF AllocOne, pick_frame, pick_affine, pick_empty, pick_fallback
<1>5. PICK i : i = Min(Planned(k))
  OBVIOUS
<1>6. Planned(k) \subseteq 1 .. Len(p)
  BY <1>1 DEF Planned
<1>7. i \in 1 .. Len(p) /\ \A j \in Planned(k) : i <= j
  BY <1>3, <1>5, <1>6, NatMin
<1>8. PICK q : q = SubSeq(p, i, Len(p))
  OBVIOUS
<1>9. k \in DOMAIN plans' /\ plans'[k] = q /\ f = p[i]
  BY <1>0, <1>1, <1>4, <1>5, <1>8 DEF pick_planned, PimTypeOK
<1>10. \A j \in i .. Len(p) : p[j] \in Elems(q)
  <2> SUFFICES ASSUME NEW j \in i .. Len(p) PROVE p[j] \in Elems(q)
    OBVIOUS
  <2>1. j - i + 1 \in DOMAIN q /\ q[j - i + 1] = p[j]
    BY <1>7, <1>8
  <2> QED
    BY <2>1 DEF Elems
<1>11. frame_free[f] # {} /\ b = Lowest(f) /\ frame_free' = Taken(f)
  BY <1>0, PickFrame DEF AllocOne, Lowest, Taken
<1>12. \A c \in Block : OffsetOf(c) \in frame_free'[FrameOf(c)] <=> c \in Free \ {b}
  BY <1>11, TakeExact
<1>13. ASSUME NEW c \in FreeIn(Elems(p)), c # b PROVE c \in FreeIn(Elems(q))'
  <2>1. PICK j \in DOMAIN p : FrameOf(c) = p[j] /\ j \in Planned(k)
    BY <1>2
  <2>2. j \in i .. Len(p)
    BY <1>6, <1>7, <2>1
  <2>3. c \in Block /\ c \in Free
    BY DEF FreeIn, FramesExact
  <2>4. OffsetOf(c) \in frame_free'[FrameOf(c)]
    BY <1>12, <1>13, <2>3
  <2> QED
    BY <1>10, <2>1, <2>2, <2>3, <2>4 DEF FreeIn
<1>14. PICK A, B : A = FreeIn(Elems(p)) /\ B = FreeIn(Elems(q))'
  OBVIOUS
<1>15. A \ {b} \in SUBSET B /\ IsFiniteSet(A) /\ IsFiniteSet(B)
  <2>1. A \in SUBSET Block /\ B \in SUBSET Block
    BY <1>14 DEF FreeIn
  <2>2. IsFiniteSet(Block)
    BY FS_Interval DEF Block
  <2> QED
    BY <1>13, <1>14, <2>1, <2>2, FS_Subset
<1>16. Cardinality(A) - 1 <= Cardinality(B) /\ Cardinality(A) \in Nat /\ Cardinality(B) \in Nat
  <2>1. Cardinality(A) \in Nat /\ Cardinality(B) \in Nat /\ Cardinality(A \ {b}) <= Cardinality(B)
    BY <1>15, FS_Subset, FS_CardinalityType
  <2>2. Cardinality(A \ {b}) = IF b \in A THEN Cardinality(A) - 1 ELSE Cardinality(A)
    BY <1>15, FS_RemoveElement
  <2> QED
    BY <2>1, <2>2
<1>17. Capacity(Elems(plans[k])) = Cardinality(A)
  BY <1>1, <1>14, Zenon DEF Capacity
<1>18. Capacity(Elems(plans[k]))' = Cardinality(B)
  BY <1>9, <1>14, Zenon DEF Capacity, FreeIn
<1> QED
  BY <1>9, <1>16, <1>17, <1>18

\* A plan that serves the admission in progress keeps doing so.
LEMMA PlanServesStep ==
  ASSUME PimInv, PlanServes, [PimNext]_pimvars
  PROVE  PlanServes'
<1> SUFFICES ASSUME opts'.plan = "bestfit", call' = "admit", left' > 0
             PROVE  cur' \in DOMAIN plans' /\ Capacity(Elems(plans[cur]))' >= left'
  BY DEF PlanServes
<1>0. Core /\ Caller /\ TypeOK /\ CallConsistent /\ FramesExact /\ PimTypeOK /\ Compacting
  BY DEF PimInv, Core, FramesExact
<1>k. \A s \in Seqs : s \in Key
  BY DEF Key
<1>n. 1 .. MaxNew \subseteq Nat /\ 0 .. MaxNew \subseteq Nat
  OBVIOUS
<1>1. ASSUME NEW s \in Seqs, NEW n \in 1 .. MaxNew, pim_admit(s, n)
      PROVE  cur' \in DOMAIN plans' /\ Capacity(Elems(plans[cur]))' >= left'
  <2>1. cur' = s /\ left' = n /\ nfree >= n /\ opts' = opts /\ frame_free' = frame_free
        /\ plan_frames(s, n)
    BY <1>1 DEF pim_admit, admit
  <2>2. s \in DOMAIN plans' /\ Capacity(Elems(plans[s]))' >= n
    BY <1>0, <1>k, <1>n, <2>1, PlanMade
  <2> QED
    BY <2>1, <2>2, Zenon DEF Capacity, FreeIn
<1>2. ASSUME NEW s \in Seqs, NEW p \in Seqs, NEW n \in 0 .. MaxNew,
             pim_admit_shared(s, tables[p], n)
      PROVE  cur' \in DOMAIN plans' /\ Capacity(Elems(plans[cur]))' >= left'
  <2>1. cur' = s /\ left' = n /\ nfree >= n /\ opts' = opts /\ frame_free' = frame_free
        /\ plan_frames(s, n)
    BY <1>2 DEF pim_admit_shared, admit_shared
  <2>2. s \in DOMAIN plans' /\ Capacity(Elems(plans[s]))' >= n
    BY <1>0, <1>k, <1>n, <2>1, PlanMade
  <2> QED
    BY <2>1, <2>2, Zenon DEF Capacity, FreeIn
<1>3. ASSUME pim_alloc_next
      PROVE  cur' \in DOMAIN plans' /\ Capacity(Elems(plans[cur]))' >= left'
  <2>1. PICK f \in Frame, b \in Block : /\ alloc_next(b)
                                        /\ AllocOne(CallKey, f, b)
                                        /\ UNCHANGED <<opts, compaction>>
    BY <1>3 DEF pim_alloc_next
  <2>2. call = "admit" /\ cur' = cur /\ left > 0 /\ left' = left - 1 /\ left \in Nat
    BY <1>0, <2>1 DEF alloc_next, TypeOK
  <2>3. CallKey = cur /\ cur \in Key
    BY <1>0, <1>k, <2>2 DEF CallKey, Caller
  <2>4. cur \in DOMAIN plans /\ Capacity(Elems(plans[cur])) >= left
    BY <2>1, <2>2 DEF PlanServes
  <2>5. Capacity(Elems(plans[cur])) \in Nat
    BY FreeInMono
  <2>6. AllocOne(cur, f, b) /\ Capacity(Elems(plans[cur])) > 0
    BY <2>1, <2>2, <2>3, <2>4, <2>5
  <2>7. PICK k \in Key : k = cur
    BY <2>3
  <2>8. /\ k \in DOMAIN plans' /\ Capacity(Elems(plans[k]))' \in Nat
        /\ Capacity(Elems(plans[k]))' >= Capacity(Elems(plans[k])) - 1
    BY <1>0, <2>4, <2>6, <2>7, PlanUsed
  <2>9. Capacity(Elems(plans[cur]))' = Capacity(Elems(plans[k]))'
    BY <2>2, <2>7, Zenon DEF Capacity, FreeIn
  <2> QED
    BY <2>2, <2>4, <2>5, <2>7, <2>8, <2>9
<1>4. ASSUME UNCHANGED <<call, cur, left, opts, plans, frame_free>>
      PROVE  cur' \in DOMAIN plans' /\ Capacity(Elems(plans[cur]))' >= left'
  <2>1. cur \in DOMAIN plans /\ Capacity(Elems(plans[cur])) >= left
    BY <1>4 DEF PlanServes
  <2>2. Capacity(Elems(plans[cur]))' = Capacity(Elems(plans[cur]))
    BY <1>4, Zenon DEF Capacity, FreeIn
  <2> QED
    BY <1>4, <2>1, <2>2
<1>5. CASE UNCHANGED pimvars
  BY <1>4, <1>5 DEF pimvars, vars, locals, placement
<1>6. CASE PimNext
  <2>1. ~ compact_next
    BY <1>0 DEF compact_next, compact_move, compact_skip, relocate, Compacting, vars
  <2>2. ~ pim_unref_next
    BY <1>0 DEF pim_unref_next, unref_next, CallConsistent
  <2>3. ~ \E s \in Seqs, n \in 1 .. MaxNew : pim_admit_refused(s, n)
    BY DEF pim_admit_refused, vars
  <2>4. ~ \E s \in Seqs, x \in Slot, n \in 1 .. MaxNew : pim_alloc_scratch(s, x, n)
    BY DEF pim_alloc_scratch, alloc_scratch
  <2>5. ~ \E s \in Seqs : pim_append_block(s)
    BY DEF pim_append_block, append_block
  <2>6. ~ pim_unref_return
    BY DEF pim_unref_return, unref_return
  <2>7. ~ PlacementFree
    BY DEF PlacementFree, fork, unref_blocks, release, spec_round_adopt, admit_return,
       scratch_return, adopt_next
  <2> QED
    BY <1>1, <1>2, <1>3, <1>6, <2>1, <2>2, <2>3, <2>4, <2>5, <2>6, <2>7 DEF PimNext
<1> QED
  BY <1>5, <1>6
-----------------------------------------------------------------------------
(* Plans are minimal *)

\* A frame has as many free blocks as its heap has offsets.
LEMMA FrameSlots ==
  ASSUME PimTypeOK, NEW f \in Frame
  PROVE  Capacity({f}) = freeCount(f)
<1> DEFINE at == [o \in frame_free[f] |-> BlockAt(f, o)]
<1>1. frame_free[f] \in SUBSET Offset /\ IsFiniteSet(frame_free[f])
  BY OffsetSets DEF PimTypeOK
<1>2. \A o \in frame_free[f] : /\ at[o] \in Block
                               /\ FrameOf(at[o]) = f /\ OffsetOf(at[o]) = o
  BY <1>1, FrameBlock
<1>3. \A b \in FreeIn({f}) : OffsetOf(b) \in frame_free[f] /\ at[OffsetOf(b)] = b
  BY FrameBlock DEF FreeIn
<1>4. at \in [frame_free[f] -> FreeIn({f})]
  BY <1>2 DEF FreeIn
<1> HIDE DEF at
<1>5. at \in Bijection(frame_free[f], FreeIn({f}))
  BY <1>2, <1>3, <1>4 DEF Bijection, Injection, Surjection, IsInjective
<1>6. ExistsBijection(frame_free[f], FreeIn({f}))
  BY <1>5 DEF ExistsBijection
<1>7. Cardinality(FreeIn({f})) = Cardinality(frame_free[f])
  BY <1>1, <1>6, FS_Bijection
<1> QED
  BY <1>7, Zenon DEF Capacity, freeCount

FreeCounts == [f \in Frame |-> freeCount(f)]

\* The capacity of a set of frames is the sum of their free counts, which is
\* how _plan_frames accumulates it.
LEMMA CapacitySum ==
  ASSUME PimTypeOK, NEW S \in SUBSET Frame
  PROVE  Capacity(S) = SumFunctionOnSet(FreeCounts, S)
<1> DEFINE P == {s \in SUBSET S : Capacity(s) = SumFunctionOnSet(FreeCounts, s)}
<1>0. IsFiniteSet(Block)
  BY FS_Interval DEF Block
<1>1. {} \in P
  <2>1. FreeIn({}) = {}
    BY DEF FreeIn
  <2>2. Capacity({}) = 0
    BY <2>1, FS_EmptySet, Zenon DEF Capacity
  <2> QED
    BY <2>2, SumEmpty
<1>2. ASSUME NEW s \in SUBSET S, s \in P, NEW x \in S \ s PROVE s \cup {x} \in P
  <2>1. IsFiniteSet(s)
    BY FrameSets
  <2>2. \A y \in s \cup {x} : FreeCounts[y] \in Int /\ FreeCounts[y] = freeCount(y)
    BY BeforeOrder DEF FreeCounts
  <2>3. SumFunctionOnSet(FreeCounts, s \cup {x}) = FreeCounts[x] + SumFunctionOnSet(FreeCounts, s)
    BY <2>1, <2>2, SumAdd
  <2>4. PICK A, B : A = FreeIn(s) /\ B = FreeIn({x})
    OBVIOUS
  <2>5. FreeIn(s \cup {x}) = A \cup B /\ A \cap B = {}
    BY <2>4 DEF FreeIn
  <2>6. A \in SUBSET Block /\ B \in SUBSET Block
    BY <2>4 DEF FreeIn
  <2>7. IsFiniteSet(A) /\ IsFiniteSet(B)
    BY <1>0, <2>6, FS_Subset
  <2>8. Cardinality(A) \in Nat /\ Cardinality(B) \in Nat
    BY <2>7, FS_CardinalityType
  <2>9. Cardinality(A \cup B) = Cardinality(A) + Cardinality(B)
    <3>1. Cardinality(A \cup B) = Cardinality(A) + Cardinality(B) - Cardinality(A \cap B)
      BY <2>7, FS_Union
    <3>2. Cardinality(A \cap B) = 0
      BY <2>5, FS_EmptySet, Zenon
    <3> QED
      BY <2>8, <3>1, <3>2
  <2>10. Capacity(s \cup {x}) = Cardinality(A) + Cardinality(B)
    BY <2>5, <2>9, Zenon DEF Capacity
  <2>11. Cardinality(A) = Capacity(s) /\ Cardinality(B) = Capacity({x})
    BY <2>4, Zenon DEF Capacity
  <2>12. Cardinality(B) = FreeCounts[x]
    BY <2>2, <2>11, FrameSlots
  <2>13. Cardinality(A) = SumFunctionOnSet(FreeCounts, s)
    BY <1>2, <2>11
  <2>14. Cardinality(A) + Cardinality(B) = Cardinality(B) + Cardinality(A)
    BY <2>8
  <2>15. Capacity(s \cup {x}) = SumFunctionOnSet(FreeCounts, s \cup {x})
    BY <2>3, <2>10, <2>12, <2>13, <2>14, Zenon
  <2> QED
    BY <2>15
<1> HIDE DEF P
<1>3. IsFiniteSet(S)
  BY FrameSets
<1>4. S \in P
  BY <1>1, <1>2, <1>3, SetInduction
<1> QED
  BY <1>4 DEF P

\* Frames with at least (at most) c free slots each have at least (at most) c
\* times their number of them.
LEMMA CapacityBounds ==
  ASSUME PimTypeOK, NEW S \in SUBSET Frame, NEW c \in Nat
  PROVE  /\ (\A f \in S : freeCount(f) >= c) =>
               SumFunctionOnSet(FreeCounts, S) >= c * Cardinality(S)
         /\ (\A f \in S : freeCount(f) <= c) =>
               SumFunctionOnSet(FreeCounts, S) <= c * Cardinality(S)
<1> DEFINE k == [f \in Frame |-> c]
<1>1. IsFiniteSet(S)
  BY FrameSets
<1>2. \A f \in S : FreeCounts[f] = freeCount(f) /\ freeCount(f) \in Int /\ k[f] = c
  BY BeforeOrder DEF FreeCounts
<1> HIDE DEF k
<1>3. SumFunctionOnSet(k, S) = c * Cardinality(S)
  BY <1>1, <1>2, SumConst
<1>4. ASSUME \A f \in S : freeCount(f) >= c
      PROVE  SumFunctionOnSet(FreeCounts, S) >= c * Cardinality(S)
  <2>1. \A f \in S : k[f] \in Int /\ FreeCounts[f] \in Int /\ k[f] <= FreeCounts[f]
    BY <1>2, <1>4
  <2>2. SumFunctionOnSet(k, S) <= SumFunctionOnSet(FreeCounts, S)
    BY <1>1, <2>1, SumMono
  <2>3. SumFunctionOnSet(FreeCounts, S) \in Int /\ SumFunctionOnSet(k, S) \in Int
    BY <1>1, <2>1, SumRemove
  <2> QED
    BY <1>3, <2>2, <2>3
<1>5. ASSUME \A f \in S : freeCount(f) <= c
      PROVE  SumFunctionOnSet(FreeCounts, S) <= c * Cardinality(S)
  <2>1. \A f \in S : k[f] \in Int /\ FreeCounts[f] \in Int /\ FreeCounts[f] <= k[f]
    BY <1>2, <1>5
  <2>2. SumFunctionOnSet(FreeCounts, S) <= SumFunctionOnSet(k, S)
    BY <1>1, <2>1, SumMono
  <2> QED
    BY <1>3, <2>2
<1> QED
  BY <1>4, <1>5

\* The fullest-first order makes the plan minimal: were there a smaller set of
\* frames with n free slots, trading its frames for the ones the plan took
\* before its last one would lose no slot, and the last one would not be needed.
LEMMA PlanLeast ==
  ASSUME PimTypeOK, NEW n \in Nat, NEW S \in SUBSET Frame, Capacity(S) >= n
  PROVE  Cardinality(Chosen(n)) <= Cardinality(S)
<1> SUFFICES ASSUME Cardinality(Chosen(n)) > Cardinality(S) PROVE FALSE
  <2>1. Cardinality(Chosen(n)) \in Nat /\ Cardinality(S) \in Nat
    BY FrameSets DEF Chosen
  <2> QED
    BY <2>1
<1>1. PICK C \in SUBSET Frame : C = Chosen(n)
  BY DEF Chosen
<1>2. IsFiniteSet(C) /\ Cardinality(C) \in Nat /\ Cardinality(S) \in Nat
      /\ Cardinality(C) > Cardinality(S)
  BY <1>1, FrameSets
<1>3. PICK m \in C : Rank(C, m) = Cardinality(C) - 1
  <2>1. Cardinality(C) \in 1 .. Cardinality(C)
    BY <1>2
  <2> QED
    BY <2>1, RankOnto
<1>4. ASSUME NEW g \in C, g # m PROVE Before(g, m)
  <2>1. Before(m, g) => Rank(C, m) < Rank(C, g)
    BY RankLess
  <2>2. Rank(C, g) \in Nat /\ Rank(C, g) < Cardinality(C)
    BY RankLess
  <2>3. ~ Before(m, g)
    BY <1>2, <1>3, <2>1, <2>2
  <2> QED
    BY <1>4, <2>3, BeforeOrder
<1>5. PICK P \in SUBSET Frame : P = {g \in Frame : Before(g, m)}
  OBVIOUS
<1>6. Capacity(P) < n
  BY <1>1, <1>3, <1>5 DEF Chosen
<1>7. IsFiniteSet(P) /\ Cardinality(P) \in Nat /\ IsFiniteSet(S)
  BY FrameSets
<1>8. Cardinality(P) >= Cardinality(S)
  <2>1. C \ {m} \in SUBSET P
    BY <1>4, <1>5
  <2>2. Cardinality(C \ {m}) = Cardinality(C) - 1
    BY <1>2, <1>3, FS_RemoveElement
  <2>3. Cardinality(C \ {m}) <= Cardinality(P)
    BY <1>7, <2>1, FS_Subset
  <2> QED
    BY <1>2, <1>7, <2>2, <2>3
<1>9. PICK c \in Nat : c = freeCount(m)
  BY BeforeOrder
<1>10. PICK I, A, B \in SUBSET Frame : I = P \cap S /\ A = P \ I /\ B = S \ I
  OBVIOUS
<1>11. \A f \in A : freeCount(f) >= c
  BY <1>5, <1>9, <1>10, BeforeOrder
<1>12. \A f \in B : freeCount(f) <= c
  <2> SUFFICES ASSUME NEW f \in B PROVE freeCount(f) <= c
    OBVIOUS
  <2>1. ~ Before(f, m)
    BY <1>5, <1>10
  <2>2. f = m \/ Before(m, f)
    BY <2>1, BeforeOrder
  <2> QED
    BY <1>9, <2>2, BeforeOrder
<1>13. Cardinality(A) >= Cardinality(B) /\ Cardinality(A) \in Nat /\ Cardinality(B) \in Nat
  <2>1. A = P \ I /\ B = S \ I /\ P \cap I = I /\ S \cap I = I
    BY <1>10
  <2>2. Cardinality(A) = Cardinality(P) - Cardinality(P \cap I)
    BY <1>7, <2>1, FS_Difference
  <2>3. Cardinality(B) = Cardinality(S) - Cardinality(S \cap I)
    BY <1>7, <2>1, FS_Difference
  <2>4. Cardinality(A) \in Nat /\ Cardinality(B) \in Nat /\ Cardinality(I) \in Nat
    BY FrameSets
  <2>5. Cardinality(A) = Cardinality(P) - Cardinality(I) /\ Cardinality(B) = Cardinality(S) - Cardinality(I)
    BY <2>1, <2>2, <2>3, Zenon
  <2> QED
    BY <1>2, <1>7, <1>8, <2>4, <2>5
<1>14. PICK a, b \in Nat : a = Cardinality(A) /\ b = Cardinality(B)
  BY <1>13
<1>15. c * b <= c * a
  <2>1. a >= b
    BY <1>13, <1>14
  <2>2. \A x, y, z \in Nat : x >= y => z * y <= z * x
    OBVIOUS
  <2> QED
    BY <2>1, <2>2
<1>16. SumFunctionOnSet(FreeCounts, A) >= c * a
  BY <1>11, <1>14, CapacityBounds
<1>17. SumFunctionOnSet(FreeCounts, B) <= c * b
  BY <1>12, <1>14, CapacityBounds
<1>18. \A f \in Frame : FreeCounts[f] \in Int
  BY BeforeOrder DEF FreeCounts
<1>19. SumFunctionOnSet(FreeCounts, P) = SumFunctionOnSet(FreeCounts, I) + SumFunctionOnSet(FreeCounts, A)
  <2>1. I \subseteq P /\ A = P \ I
    BY <1>10
  <2> QED
    BY <1>7, <1>18, <2>1, SumSplit
<1>20. SumFunctionOnSet(FreeCounts, S) = SumFunctionOnSet(FreeCounts, I) + SumFunctionOnSet(FreeCounts, B)
  <2>1. I \subseteq S /\ B = S \ I
    BY <1>10
  <2> QED
    BY <1>7, <1>18, <2>1, SumSplit
<1>21. \A T \in SUBSET Frame : SumFunctionOnSet(FreeCounts, T) \in Int
  BY <1>18, FrameSets, SumRemove
<1>22. Capacity(P) = SumFunctionOnSet(FreeCounts, P) /\ Capacity(S) = SumFunctionOnSet(FreeCounts, S)
  BY CapacitySum
<1>23. PICK sI, sA, sB \in Int : /\ sI = SumFunctionOnSet(FreeCounts, I)
                                 /\ sA = SumFunctionOnSet(FreeCounts, A)
                                 /\ sB = SumFunctionOnSet(FreeCounts, B)
  BY <1>21
<1>24. sI + sA < n /\ sI + sB >= n
  BY <1>6, <1>19, <1>20, <1>22, <1>23
<1>25. PICK ca, cb \in Int : ca = c * a /\ cb = c * b /\ cb <= ca
  BY <1>15
<1>26. sA >= ca /\ sB <= cb
  BY <1>16, <1>17, <1>23, <1>25
<1> QED
  BY <1>24, <1>25, <1>26

-----------------------------------------------------------------------------
(* Theorems *)

\* _nfree and the heaps of free offsets account for every block that is not
\* live, after every step of every call and of every compaction.
THEOREM FramesAccount == PimSpec => []FramesExact
<1>1. PimInv => FramesExact
  BY DEF PimInv
<1>2. PimInv /\ [PimNext]_pimvars => PimInv'
  BY PimStepOK
<1> QED
  BY PimInvInit, <1>1, <1>2, PTL DEF PimSpec

\* A whole frame is always on the heap of empty frames, whatever plans and
\* compaction took from it without popping its entry.
THEOREM WholeFramesListed == PimSpec => []EmptyListed
<1>1. PimInv => EmptyListed
  BY DEF PimInv
<1>2. PimInv /\ [PimNext]_pimvars => PimInv'
  BY PimStepOK
<1> QED
  BY PimInvInit, <1>1, <1>2, PTL DEF PimSpec

\* The policy, planning and compaction included, implements the allocator with
\* the weakest policy; what is proved of that one holds here.
THEOREM PimImplements == PimSpec => Spec
<1>1. PimInit => Init
  BY DEF PimInit
<1>2. PimInv /\ [PimNext]_pimvars => PimInv' /\ [Next]_vars
  BY PimStepOK
<1> QED
  BY PimInvInit, <1>1, <1>2, PTL DEF PimSpec, Spec

\* The frames a bestfit admission reserved serve it to its last block.
THEOREM PlansServe == PimSpec => []PlanServes
<1>1. PimInit => PlanServes
  BY DEF PimInit, Init, PlanServes
<1>2. PimInv /\ [PimNext]_pimvars => PimInv'
  BY PimStepOK
<1>3. PimInv /\ PlanServes /\ [PimNext]_pimvars => PlanServes'
  BY PlanServesStep
<1> QED
  BY PimInvInit, <1>1, <1>2, <1>3, PTL DEF PimSpec

\* A compaction leaves no block of a table in a donor while another frame has
\* room.
THEOREM CompactionClears == PimSpec => DonorsCleared
<1> DEFINE A == (migrate # {} /\ migrate' = {}) =>
                   \A b \in live' :
                       FrameOf(b) \in donors =>
                           ~ InTable(b)' \/ \A g \in Frame \ donors : frame_free'[g] = {}
<1>1. PimInv /\ [PimNext]_pimvars => PimInv'
  BY PimStepOK
<1>2. PimInv /\ [PimNext]_pimvars => [A]_pimvars
  <2> SUFFICES ASSUME PimInv, PimNext, migrate # {}, migrate' = {},
                      NEW b \in live', FrameOf(b) \in donors
               PROVE  ~ InTable(b)' \/ \A g \in Frame \ donors : frame_free'[g] = {}
    OBVIOUS
  <2>1. compact_next
    BY MigrateStep
  <2> QED
    BY <2>1, CompactStep
<1> QED
  BY PimInvInit, <1>1, <1>2, PTL DEF PimSpec, DonorsCleared

\* A compaction never spreads the blocks it moves: it claims an empty frame only
\* when every other frame it may use is full.
THEOREM CompactionPacks == PimSpec => CompactionGathers
<1> DEFINE A == migrate # {} =>
                   \A g, h \in Frame \ donors :
                       (g \in Sparse' /\ ~ Full(g)' /\ g # h /\ used(h)' > 0) => Full(h)'
<1>1. PimInit => PimInv /\ GatherInv
  BY PimInvInit DEF PimInit, GatherInv
<1>2. PimInv /\ GatherInv /\ [PimNext]_pimvars => PimInv' /\ GatherInv'
  BY PimStepOK, GatherNext
<1>3. PimInv /\ GatherInv /\ [PimNext]_pimvars => [A]_pimvars
  <2> SUFFICES ASSUME PimInv, GatherInv, PimNext, migrate # {} PROVE A
    OBVIOUS
  <2>1. PICK D : D = donors
    OBVIOUS
  <2> QED
    BY <2>1, GatherStep
<1> QED
  BY <1>1, <1>2, <1>3, PTL DEF PimSpec, CompactionGathers

\* No smaller set of frames could hold an admission than the one bestfit
\* reserves for it.
THEOREM PlansMinimal == PimSpec => []PlanMinimal
<1>1. PimInv => PlanMinimal
  <2> SUFFICES ASSUME PimInv, NEW n \in 1 .. nfree, NEW S \in SUBSET Frame, Capacity(S) >= n
               PROVE  Cardinality(Chosen(n)) <= Cardinality(S)
    BY DEF PlanMinimal
  <2>1. PimTypeOK /\ n \in Nat
    BY DEF PimInv, FramesExact, PimTypeOK
  <2> QED
    BY <2>1, PlanLeast
<1>2. PimInv /\ [PimNext]_pimvars => PimInv'
  BY PimStepOK
<1> QED
  BY PimInvInit, <1>1, <1>2, PTL DEF PimSpec

-----------------------------------------------------------------------------
(* The prefix cache: its inductive invariant *)

\* The list t begins with the list p.
Begins(t, p) == Len(p) <= Len(t) /\ \A i \in 1 .. Len(p) : t[i] = p[i]

\* No compaction is ever in progress.
Still == opts.compact_below = 0 /\ migrate = {}

\* The list the simulator keeps is the block table of the cache.
Pinned ==
    /\ ended \in BOOLEAN /\ prefix_cache \in Seq(Block)
    /\ IF CacheId \in DOMAIN tables
       THEN prefix_cache = tables[CacheId] /\ prefix_cache # << >> /\ ~ ended
       ELSE ended \/ prefix_cache = << >>

\* A sequence is attached from the call that admits it until its release, and
\* the cache stays as long as one is; the cache is filled with a block at least.
Admitting == IF call = "admit" THEN {cur} ELSE {}
Attached ==
    /\ CacheId \notin attached /\ attached \subseteq DOMAIN tables \cup Admitting
    /\ attached # {} => CacheId \in DOMAIN tables
    /\ CacheId \in Admitting => left > 0 \/ got # << >>

\* The table of an attached sequence begins with the list, and so do the blocks
\* collected for one.
Reading ==
    /\ \A s \in attached \cap DOMAIN tables : Begins(tables[s], prefix_cache)
    /\ \A s \in attached \cap Admitting : Begins(got, prefix_cache)

\* The inductive invariant.
PrefixInv == PimInv /\ Still /\ Pinned /\ Attached /\ Reading

-----------------------------------------------------------------------------
(* The steps preserve it *)

\* A list that grows keeps its beginning.
LEMMA BeginsAppend ==
  ASSUME NEW t \in Seq(Block), NEW p \in Seq(Block), NEW b \in Block, Begins(t, p)
  PROVE  Begins(Append(t, b), p)
<1>1. /\ Len(Append(t, b)) = Len(t) + 1 /\ Len(t) \in Nat /\ Len(p) \in Nat
      /\ \A i \in 1 .. Len(t) : Append(t, b)[i] = t[i]
  OBVIOUS
<1>2. PICK m, k \in Nat : m = Len(t) /\ k = Len(p)
  BY <1>1
<1>3. k <= m /\ k <= m + 1 /\ \A i \in 1 .. k : i \in 1 .. m
  BY <1>2 DEF Begins
<1> QED
  BY <1>1, <1>2, <1>3 DEF Begins

\* A release starts no compaction.
LEMMA NoneSparse ==
  ASSUME PimTypeOK, opts.compact_below = 0
  PROVE  Occupied(Sparse) = {}
<1>1. ASSUME NEW f \in Frame PROVE f \notin Sparse
  <2>1. freeCount(f) \in Nat
    BY OffsetSets DEF PimTypeOK, freeCount
  <2>2. PICK u \in Int : u = used(f)
    BY <2>1, FrameAssumption DEF used
  <2>3. 0 * G = 0
    BY FrameAssumption
  <2> QED
    BY <2>2, <2>3 DEF Sparse
<1>2. Sparse = {}
  BY <1>1 DEF Sparse
<1> QED
  BY <1>2 DEF Occupied

\* The types of the lists.
LEMMA PrefixTypes ==
  ASSUME PrefixInv
  PROVE  /\ TypeOK /\ CallConsistent /\ PimTypeOK
         /\ prefix_cache \in Seq(Block)
<1>1. TypeOK /\ CallConsistent /\ PimTypeOK
  BY DEF PrefixInv, PimInv, Core, FramesExact
<1> QED
  BY <1>1 DEF PrefixInv, Pinned

\* A step of the simulator is a step of the policy or leaves it alone.
LEMMA PrefixIsPim ==
  ASSUME PrefixInv, [PrefixNext]_prefixvars
  PROVE  [PimNext]_pimvars
<1>1. ASSUME NEW s \in Clients, NEW n \in 0 .. MaxNew, attach(s, n), ~ ended PROVE PimNext
  <2>1. CacheId \in DOMAIN tables /\ prefix_cache = tables[CacheId]
    BY <1>1 DEF attach, PrefixInv, Pinned
  <2>2. pim_admit_shared(s, tables[CacheId], n)
    BY <1>1, <2>1 DEF attach
  <2>3. s \in Seqs /\ CacheId \in Seqs
    BY CacheAssumption DEF Clients
  <2> QED
    BY <2>1, <2>2, <2>3 DEF PimNext
<1>2. ASSUME NEW s \in Seqs, NEW n \in 1 .. MaxNew, pim_admit(s, n) PROVE PimNext
  BY <1>2 DEF PimNext
<1>3. ASSUME NEW s \in Seqs, Idle, MayDrop, release(s), UNCHANGED <<placement, opts, compaction>>
      PROVE  PimNext
  BY <1>3 DEF PimNext, PlacementFree
<1>4. CASE admitted
  BY <1>4 DEF admitted, PimNext, PlacementFree
<1>5. ASSUME NEW s \in Seqs, pim_append_block(s) PROVE PimNext
  BY <1>5 DEF PimNext
<1>6. CASE pim_alloc_next \/ pim_unref_next \/ pim_unref_return \/ compact_next
  BY <1>6 DEF PimNext
<1>7. CASE PrefixNext
  BY <1>1, <1>2, <1>3, <1>4, <1>5, <1>6, <1>7, CacheAssumption
     DEF PrefixNext, in_loop, fill, plain, finished, close, Clients
<1>8. CASE UNCHANGED prefixvars
  BY <1>8 DEF prefixvars
<1> QED
  BY <1>7, <1>8

\* Every step preserves the invariant.
LEMMA PrefixStep ==
  ASSUME PrefixInv, [PrefixNext]_prefixvars
  PROVE  PrefixInv'
<1>1. PimInv'
  BY PrefixIsPim, PimStepOK DEF PrefixInv
<1>2. /\ TypeOK /\ CallConsistent /\ PimTypeOK /\ prefix_cache \in Seq(Block) /\ opts.compact_below = 0
      /\ migrate = {} /\ Pinned /\ Attached /\ Reading
  BY PrefixTypes DEF PrefixInv, Still
<1> DEFINE P == Still /\ Pinned /\ Attached /\ Reading
\* The tables and the calls that stay as they are.
<1>3. ASSUME UNCHANGED <<tables, call, cur, left, got, prefix_cache, attached, ended, opts, migrate>>
      PROVE  P'
  BY <1>2, <1>3 DEF Still, Pinned, Attached, Reading, Admitting
<1>4. ASSUME NEW s \in Seqs, NEW n \in Nat, n > 0, pim_admit(s, n), UNCHANGED <<prefix_cache, attached, ended>>,
             s = CacheId => prefix_cache = << >>
      PROVE  P'
  <2>1. /\ call = "none" /\ s \notin DOMAIN tables /\ call' = "admit" /\ cur' = s /\ left' = n
        /\ UNCHANGED <<tables, got, opts, migrate>>
    BY <1>4 DEF pim_admit, admit, compaction
  <2>2. s \notin attached
    BY <1>2, <2>1 DEF Attached, Admitting
  <2>3. Attached'
    BY <1>2, <1>4, <2>1 DEF Attached, Admitting
  <2>4. Reading'
    BY <1>2, <1>4, <2>1, <2>2 DEF Reading, Admitting
  <2> QED
    BY <1>2, <1>4, <2>1, <2>3, <2>4 DEF Still, Pinned
<1>5. ASSUME NEW s \in Clients, NEW n \in 0 .. MaxNew, attach(s, n), ~ ended, UNCHANGED ended
      PROVE  P'
  <2>1. /\ call = "none" /\ s \notin DOMAIN tables /\ call' = "admit" /\ cur' = s /\ got' = prefix_cache
        /\ attached' = attached \cup {s} /\ prefix_cache # << >>
        /\ UNCHANGED <<tables, opts, migrate, prefix_cache>>
    BY <1>5 DEF attach, pim_admit_shared, admit_shared, compaction
  <2>2. CacheId \in DOMAIN tables /\ s # CacheId
    BY <1>2, <1>5, <2>1 DEF Pinned, Clients
  <2>3. Attached'
    BY <1>2, <2>1, <2>2 DEF Attached, Admitting
  <2>4. Begins(got', prefix_cache')
    BY <1>2, <2>1 DEF Begins
  <2>5. Reading'
    BY <1>2, <2>1, <2>4 DEF Reading, Admitting
  <2> QED
    BY <1>2, <1>5, <2>1, <2>3, <2>5 DEF Still, Pinned
<1>6. ASSUME admitted, ~ ended, UNCHANGED ended PROVE P'
  <2>1. /\ call = "admit" /\ left = 0 /\ tables' = Put(tables, cur, got) /\ call' = "none"
        /\ prefix_cache' = IF cur = CacheId THEN got ELSE prefix_cache
        /\ UNCHANGED <<attached, opts, migrate>>
    BY <1>6 DEF admitted, admit_return, compaction
  <2>2. /\ cur \notin DOMAIN tables /\ DOMAIN tables' = DOMAIN tables \cup {cur} /\ tables'[cur] = got
        /\ \A s \in DOMAIN tables : tables'[s] = tables[s]
    BY <1>2, <2>1 DEF CallConsistent, Put
  <2>3. Admitting = {cur} /\ Admitting' = {}
    BY <2>1 DEF Admitting
  <2>4. Attached'
    BY <1>2, <2>1, <2>2, <2>3 DEF Attached
  <2>5. CASE cur = CacheId
    <3>1. attached = {} /\ got # << >>
      BY <1>2, <2>1, <2>2, <2>3, <2>5 DEF Attached
    <3>2. Pinned'
      BY <1>2, <1>6, <2>1, <2>2, <2>5, <3>1 DEF Pinned, TypeOK
    <3>3. Reading'
      BY <2>1, <3>1 DEF Reading
    <3> QED
      BY <1>2, <2>1, <2>4, <3>2, <3>3 DEF Still
  <2>6. CASE cur # CacheId
    <3>1. Pinned'
      BY <1>2, <1>6, <2>1, <2>2, <2>6 DEF Pinned
    <3>2. \A s \in attached \cap DOMAIN tables' : Begins(tables'[s], prefix_cache)
      BY <1>2, <2>2, <2>3 DEF Reading
    <3>3. Reading'
      BY <2>1, <2>3, <2>6, <3>2 DEF Reading
    <3> QED
      BY <1>2, <2>1, <2>4, <3>1, <3>3 DEF Still
  <2> QED
    BY <2>5, <2>6
<1>7. ASSUME NEW s \in Seqs, release(s), UNCHANGED <<opts, compaction>>,
             attached' = attached \ {s},
             prefix_cache' = prefix_cache,
             IF s = CacheId THEN DOMAIN tables = {CacheId} /\ ended' = TRUE ELSE UNCHANGED ended
      PROVE  P'
  <2>1. /\ call = "none" /\ call' = "release" /\ tables' = Pop(tables, s) /\ s \in DOMAIN tables
        /\ UNCHANGED <<opts, migrate>>
    BY <1>7 DEF release, compaction
  <2>2. DOMAIN tables' = DOMAIN tables \ {s} /\ \A r \in DOMAIN tables' : tables'[r] = tables[r]
    BY <2>1 DEF Pop
  <2>3. Admitting = {} /\ Admitting' = {}
    BY <2>1 DEF Admitting
  <2>4. Pinned'
    BY <1>2, <1>7, <2>1, <2>2 DEF Pinned
  <2>5. Attached'
    BY <1>2, <1>7, <2>1, <2>2, <2>3 DEF Attached
  <2>6. \A r \in attached' \cap DOMAIN tables' : Begins(tables'[r], prefix_cache')
    BY <1>2, <1>7, <2>2, <2>3 DEF Reading, Attached
  <2>7. Reading'
    BY <2>3, <2>6 DEF Reading
  <2> QED
    BY <1>2, <2>1, <2>4, <2>5, <2>7 DEF Still
<1>8. ASSUME NEW s \in Clients, pim_append_block(s), UNCHANGED <<prefix_cache, attached, ended>> PROVE P'
  <2>1. PICK b \in Block : append_block(s, b, nfree)
    BY <1>8 DEF pim_append_block
  <2>2. /\ call = "none" /\ s \in DOMAIN tables /\ tables' = [tables EXCEPT ![s] = Append(@, b)]
        /\ UNCHANGED <<call, cur, left, got, opts, migrate>>
    BY <1>8, <2>1 DEF pim_append_block, append_block, locals, compaction
  <2>3. /\ DOMAIN tables' = DOMAIN tables /\ tables'[s] = Append(tables[s], b) /\ tables[s] \in Seq(Block)
        /\ \A r \in DOMAIN tables : r # s => tables'[r] = tables[r]
    BY <1>2, <2>2 DEF TypeOK
  <2>4. s # CacheId
    BY DEF Clients
  <2>5. Admitting = {} /\ Admitting' = {}
    BY <2>2 DEF Admitting
  <2>6. Begins(tables[s], prefix_cache) => Begins(tables'[s], prefix_cache)
    BY <1>2, <2>3, BeginsAppend
  <2>7. \A r \in attached \cap DOMAIN tables : Begins(tables'[r], prefix_cache)
    BY <1>2, <2>3, <2>6 DEF Reading
  <2>8. Reading'
    BY <1>8, <2>3, <2>5, <2>7 DEF Reading
  <2>9. Attached'
    BY <1>2, <1>8, <2>3, <2>5 DEF Attached
  <2> QED
    BY <1>2, <1>8, <2>2, <2>3, <2>4, <2>8, <2>9 DEF Still, Pinned
<1>9. ASSUME pim_alloc_next /\ UNCHANGED <<prefix_cache, attached, ended>> PROVE P'
  <2>1. PICK b \in Block : alloc_next(b)
    BY <1>9 DEF pim_alloc_next
  <2>2. got' = Append(got, b) /\ got \in Seq(Block) /\ UNCHANGED <<tables, call, cur, opts, migrate>>
    BY <1>2, <1>9, <2>1 DEF alloc_next, pim_alloc_next, compaction, TypeOK
  <2>3. Admitting' = Admitting /\ got' # << >>
    BY <2>2 DEF Admitting
  <2>4. Begins(got, prefix_cache) => Begins(got', prefix_cache)
    BY <1>2, <2>2, BeginsAppend
  <2>5. Reading'
    BY <1>2, <1>9, <2>2, <2>3, <2>4 DEF Reading
  <2>6. Attached'
    BY <1>2, <1>9, <2>2, <2>3 DEF Attached
  <2> QED
    BY <1>2, <1>9, <2>2, <2>5, <2>6 DEF Still, Pinned
<1>10. ASSUME pim_unref_next /\ UNCHANGED <<prefix_cache, attached, ended>> PROVE P'
  BY <1>3, <1>10 DEF pim_unref_next, unref_next, compaction
<1>11. ASSUME pim_unref_return /\ UNCHANGED <<prefix_cache, attached, ended>> PROVE P'
  <2>1. /\ call # "admit" /\ call' = "none" /\ UNCHANGED <<tables, got, left, opts>>
    BY <1>11 DEF pim_unref_return, unref_return
  <2>2. migrate' = {}
    BY <1>2, <1>11, NoneSparse DEF pim_unref_return, compaction
  <2>3. Admitting = {} /\ Admitting' = {}
    BY <2>1 DEF Admitting
  <2> QED
    BY <1>2, <1>11, <2>1, <2>2, <2>3 DEF Still, Pinned, Attached, Reading
<1>12. ~ compact_next
  BY <1>2 DEF compact_next
<1>13. ASSUME NEW s \in Clients, finished(s), UNCHANGED ended PROVE P'
  <2>1. s \in Seqs /\ s # CacheId
    BY DEF Clients
  <2> QED
    BY <1>7, <1>13, <2>1 DEF finished
<1>14. ASSUME close PROVE P'
  <2>1. attached' = attached \ {CacheId} /\ CacheId \in Seqs
    BY <1>2, <1>14, CacheAssumption DEF close, Attached
  <2> QED
    BY <1>7, <1>14, <2>1 DEF close
<1>15. ASSUME NEW n \in 1 .. MaxNew, fill(n), UNCHANGED ended PROVE P'
  BY <1>4, <1>15, CacheAssumption, BoundsAssumption DEF fill
<1>16. ASSUME NEW s \in Clients, NEW n \in 1 .. MaxNew, plain(s, n), UNCHANGED ended PROVE P'
  BY <1>4, <1>16, BoundsAssumption DEF plain, Clients
<1>17. ASSUME UNCHANGED prefixvars PROVE P'
  BY <1>3, <1>17 DEF prefixvars, pimvars, vars, locals, compaction
<1>18. P'
  BY <1>5, <1>6, <1>8, <1>9, <1>10, <1>11, <1>12, <1>13, <1>14, <1>15, <1>16, <1>17
     DEF PrefixNext, in_loop
<1> QED
  BY <1>1, <1>18 DEF PrefixInv

\* Nothing is cached or attached at the start.
LEMMA PrefixStart == PrefixInit /\ opts.compact_below = 0 => PrefixInv
<1> SUFFICES ASSUME PrefixInit, opts.compact_below = 0 PROVE PrefixInv
  OBVIOUS
<1>1. PimInv
  BY PimInvInit DEF PrefixInit
<1>2. tables = << >> /\ call = "none" /\ migrate = {} /\ prefix_cache = << >> /\ attached = {} /\ ended = FALSE
  BY DEF PrefixInit, PimInit, Init
<1>3. DOMAIN tables = {} /\ Admitting = {} /\ Elems(prefix_cache) = {}
  <2>1. DOMAIN << >> = {}
    OBVIOUS
  <2> QED
    BY <1>2, <2>1 DEF Admitting, Elems
<1>4. Still
  BY <1>2 DEF Still
<1>5. Pinned
  <2>1. << >> \in Seq(Block)
    OBVIOUS
  <2>2. prefix_cache \in Seq(Block)
    BY <1>2, <2>1, Zenon
  <2>3. ended = FALSE /\ CacheId \notin DOMAIN tables /\ prefix_cache = << >>
    BY <1>2, <1>3
  <2> QED
    BY <2>2, <2>3 DEF Pinned
<1>6. Attached
  BY <1>2, <1>3 DEF Attached
<1>7. Reading
  BY <1>2, <1>3 DEF Reading
<1> QED
  BY <1>1, <1>4, <1>5, <1>6, <1>7 DEF PrefixInv

-----------------------------------------------------------------------------
(* The theorems *)

\* Without compaction the list simulate() keeps for the prefix is the block
\* table of the cache in every reachable state, and what is attached to it
\* begins with it.
THEOREM PrefixInvariant == PrefixSpec /\ opts.compact_below = 0 => []PrefixInv
<1>1. PrefixInv /\ [PrefixNext]_prefixvars => PrefixInv'
  BY PrefixStep
<1> QED
  BY <1>1, PrefixStart, PTL DEF PrefixSpec

\* Admitting with the kept list is then admitting with a table, so every step is
\* one the pim-aware allocator was proved correct for.
THEOREM PrefixImplements == PrefixSpec /\ opts.compact_below = 0 => PimSpec
<1>1. PrefixInit => PimInit
  BY DEF PrefixInit
<1>2. PrefixInv /\ [PrefixNext]_prefixvars => [PimNext]_pimvars
  BY PrefixIsPim
<1> QED
  BY <1>1, <1>2, PrefixInvariant, PTL DEF PrefixSpec, PimSpec

\* A sequence admitted with the prefix reads the blocks of the cache, whatever is
\* released and reused meanwhile.
THEOREM PrefixesRead == PrefixSpec /\ opts.compact_below = 0 => []ReadsPrefix
<1>1. PrefixInv => ReadsPrefix
  <2> SUFFICES ASSUME PrefixInv, NEW s \in attached \cap DOMAIN tables
               PROVE  /\ CacheId \in DOMAIN tables
                      /\ Len(tables[s]) >= Len(tables[CacheId])
                      /\ SubSeq(tables[s], 1, Len(tables[CacheId])) = tables[CacheId]
    BY DEF ReadsPrefix
  <2>1. CacheId \in DOMAIN tables /\ prefix_cache = tables[CacheId] /\ Begins(tables[s], prefix_cache)
    BY DEF PrefixInv, Attached, Pinned, Reading
  <2>2. PICK t, p \in Seq(Block) : t = tables[s] /\ p = tables[CacheId]
    BY <2>1, PrefixTypes DEF TypeOK
  <2>3. Len(p) <= Len(t) /\ \A i \in 1 .. Len(p) : t[i] = p[i]
    BY <2>1, <2>2 DEF Begins
  <2>4. Len(p) \in Nat /\ Len(t) \in Nat
    OBVIOUS
  <2>5. SubSeq(t, 1, Len(p)) = p
    <3>1. PICK k \in Nat : k = Len(p)
      BY <2>4
    <3>2. SubSeq(t, 1, k) = [i \in 1 .. k |-> t[i]]
      BY <2>3, <2>4, <3>1
    <3>3. p = [i \in 1 .. k |-> p[i]]
      BY <3>1
    <3> QED
      BY <2>3, <3>1, <3>2, <3>3
  <2> QED
    BY <2>1, <2>2, <2>3, <2>4, <2>5
<1> QED
  BY <1>1, PrefixInvariant, PTL

\* The blocks of the kept list are live and held by the cache, so the next
\* try_admit of the prefix finds them: no KeyError.
THEOREM PrefixStaysPinned == PrefixSpec /\ opts.compact_below = 0 => []StaysPinned
<1>1. PrefixInv => StaysPinned
  <2> SUFFICES ASSUME PrefixInv, ~ ended, NEW b \in Elems(prefix_cache)
               PROVE  b \in live /\ CacheId \in Holders(b)
    BY DEF StaysPinned
  <2>1. CacheId \in DOMAIN tables /\ prefix_cache = tables[CacheId]
    BY DEF PrefixInv, Pinned, Elems
  <2>2. CacheId \in Holders(b)
    BY <2>1, CacheAssumption DEF Holders, Holder, ListOf
  <2>3. b \in Block
    BY PrefixTypes DEF Elems
  <2> QED
    BY <2>2, <2>3 DEF PrefixInv, PimInv, Core, RefsExact
<1> QED
  BY <1>1, PrefixInvariant, PTL
=============================================================================
