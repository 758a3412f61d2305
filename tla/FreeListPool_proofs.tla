------------------------- MODULE FreeListPool_proofs -------------------------
(***************************************************************************)
(* Proofs about the two list-based policies: the free list is exact, and   *)
(* both policies implement the allocator with the weakest policy.          *)
(***************************************************************************)
EXTENDS FreeListPool, KVAllocator_proofs

USE NumBlocksAssumption, SeqsAssumption, BoundsAssumption, PoliciesAssumption

-----------------------------------------------------------------------------
(* Facts about the list *)

\* A list that repeats nothing is as long as the set of its elements is large:
\* len(self._free) is a count of free blocks.
LEMMA DistinctLen ==
  ASSUME NEW S, NEW l \in Seq(S), Distinct(l)
  PROVE  IsFiniteSet(Elems(l)) /\ Cardinality(Elems(l)) = Len(l)
<1> DEFINE n == Len(l)
           T == Elems(l)
<1>1. n \in Nat /\ DOMAIN l = 1 .. n
  OBVIOUS
<1>2. l \in [1 .. n -> T]
  BY <1>1 DEF Elems
<1>3. \A a, b \in 1 .. n : l[a] = l[b] => a = b
  BY <1>1 DEF Distinct
<1>4. \A t \in T : \E s \in 1 .. n : l[s] = t
  BY <1>1 DEF Elems
<1>5. l \in Bijection(1 .. n, T)
  <2>1. l \in Injection(1 .. n, T)
    BY <1>2, <1>3 DEF Injection, IsInjective
  <2>2. l \in Surjection(1 .. n, T)
    BY <1>2, <1>4 DEF Surjection
  <2> QED
    BY <2>1, <2>2 DEF Bijection
<1>6. ExistsBijection(1 .. n, T)
  BY <1>5 DEF ExistsBijection
<1> HIDE DEF n, T
<1>7. IsFiniteSet(T) /\ Cardinality(T) = n
  BY <1>1, <1>6, FS_NatBijection, FS_CountingElements
<1> QED
  BY <1>7 DEF n, T

\* Swapping entry i with the last one and popping it takes exactly the block at
\* i off the list (_alloc_one of both policies).
LEMMA SwapPop ==
  ASSUME NEW S, NEW l \in Seq(S), Distinct(l), NEW i \in DOMAIN l, NEW m,
         m = [j \in 1 .. Len(l) - 1 |-> IF j = i THEN l[Len(l)] ELSE l[j]]
  PROVE  /\ m \in Seq(S) /\ Distinct(m)
         /\ Elems(m) = Elems(l) \ {l[i]}
         /\ l[i] \in Elems(l)
<1> DEFINE n == Len(l)
<1>1. n \in Nat \ {0} /\ DOMAIN l = 1 .. n /\ i \in 1 .. n
  OBVIOUS
<1>2. DOMAIN m = 1 .. n - 1 /\ \A j \in 1 .. n - 1 : m[j] = IF j = i THEN l[n] ELSE l[j]
  OBVIOUS
<1>3. \A j \in 1 .. n : l[j] \in S
  BY <1>1
<1>4. m \in Seq(S)
  <2>1. m \in [1 .. n - 1 -> S]
    BY <1>1, <1>3
  <2>2. n - 1 \in Nat
    BY <1>1
  <2> QED
    BY <2>1, <2>2, SeqDef
<1> HIDE DEF n
<1>5. \A j, k \in 1 .. n : l[j] = l[k] => j = k
  BY <1>1 DEF Distinct
<1>6. Distinct(m)
  BY <1>1, <1>2, <1>5 DEF Distinct
<1>7. ASSUME NEW j \in 1 .. n - 1 PROVE m[j] \in Elems(l) /\ m[j] # l[i]
  BY <1>1, <1>2, <1>5 DEF Elems
<1>8. ASSUME NEW j \in 1 .. n, l[j] # l[i] PROVE l[j] \in Elems(m)
  <2>1. CASE j = n
    <3>1. i \in 1 .. n - 1 /\ m[i] = l[j]
      BY <1>1, <1>2, <1>8, <2>1
    <3> QED
      BY <3>1, <1>2, Zenon DEF Elems
  <2>2. CASE j # n
    <3>1. j \in 1 .. n - 1 /\ m[j] = l[j]
      BY <1>1, <1>2, <1>8, <2>2
    <3> QED
      BY <3>1, <1>2, Zenon DEF Elems
  <2> QED
    BY <2>1, <2>2
<1>9. Elems(m) = Elems(l) \ {l[i]}
  <2>1. \A x \in Elems(m) : x \in Elems(l) /\ x # l[i]
    BY <1>2, <1>7, Zenon DEF Elems
  <2>2. \A x \in Elems(l) : x # l[i] => x \in Elems(m)
    BY <1>1, <1>8, Zenon DEF Elems
  <2> QED
    BY <2>1, <2>2
<1>10. l[i] \in Elems(l)
  BY DEF Elems
<1> QED
  BY <1>4, <1>6, <1>9, <1>10

-----------------------------------------------------------------------------
(* The inductive invariant *)

\* With the reference counts exact, the list holds the free blocks once each.
FLInv ==
    /\ Core
    /\ free_blocks \in Seq(Block)
    /\ FreeListExact

\* len(self._free) is what the weakest policy calls num_free.
LEMMA FreeLen ==
  ASSUME TypeOK, free_blocks \in Seq(Block), FreeListExact
  PROVE  free_len = num_free
<1>1. IsFiniteSet(Block) /\ Cardinality(Block) = NumBlocks
  BY FS_Interval DEF Block
<1>2. Cardinality(Free) = free_len
  BY DistinctLen DEF FreeListExact, free_len
<1>3. live \subseteq Block
  BY DEF TypeOK
<1>4. Cardinality(Free) = NumBlocks - Cardinality(Block \cap live)
  BY <1>1, FS_Difference DEF Free
<1>5. Block \cap live = live
  BY <1>3
<1> QED
  BY <1>2, <1>4, <1>5 DEF num_free, num_live

\* The initial list holds every block.
LEMMA FLInvInit == FLInit => FLInv
<1> SUFFICES ASSUME FLInit PROVE FLInv
  OBVIOUS
<1>1. Core /\ live = {}
  BY CoreInit DEF FLInit, Init, live
<1>2. free_blocks = [i \in 1 .. NumBlocks |-> i - 1]
  BY DEF FLInit
<1>3. free_blocks \in [1 .. NumBlocks -> Block]
  BY <1>2 DEF Block
<1>4. free_blocks \in Seq(Block)
  BY <1>3, SeqDef
<1>5. Distinct(free_blocks)
  BY <1>2 DEF Distinct
<1>6. Elems(free_blocks) = Block
  <2>1. \A b \in Block : b + 1 \in DOMAIN free_blocks /\ free_blocks[b + 1] = b
    BY <1>2 DEF Block
  <2>2. \A b \in Block : b \in Elems(free_blocks)
    BY <2>1, Zenon DEF Elems
  <2>3. Elems(free_blocks) \subseteq Block
    BY <1>3 DEF Elems
  <2> QED
    BY <2>2, <2>3
<1> QED
  BY <1>1, <1>4, <1>5, <1>6 DEF FLInv, FreeListExact, Free

\* Taking a block off the list when it is allocated keeps the list exact.
LEMMA AllocExact ==
  ASSUME free_blocks \in Seq(Block), FreeListExact,
         NEW i \in DOMAIN free_blocks, NEW b \in Block, AllocOne(i, b), Alloc(b)
  PROVE  b \in Free /\ free_blocks' \in Seq(Block) /\ FreeListExact'
<1>1. b = free_blocks[i]
  BY DEF AllocOne
<1>2. free_blocks' = [j \in 1 .. Len(free_blocks) - 1 |->
                        IF j = i THEN free_blocks[Len(free_blocks)] ELSE free_blocks[j]]
  BY DEF AllocOne, free_len
<1>3. Distinct(free_blocks)
  BY DEF FreeListExact
<1>4. /\ free_blocks' \in Seq(Block) /\ Distinct(free_blocks')
      /\ Elems(free_blocks') = Elems(free_blocks) \ {b}
      /\ b \in Elems(free_blocks)
  BY <1>1, <1>2, <1>3, SwapPop
<1>5. b \in Free
  BY <1>4 DEF FreeListExact
<1>6. Free' = Free \ {b}
  BY DEF Alloc, Put, Free, live
<1> QED
  BY <1>4, <1>5, <1>6 DEF FreeListExact

\* Appending a block whose last reference went keeps the list exact.
LEMMA FreeExact ==
  ASSUME Core, free_blocks \in Seq(Block), FreeListExact, unref_next, FreeOne(Head(todo))
  PROVE  free_blocks' \in Seq(Block) /\ FreeListExact'
<1>1. todo # << >> /\ Unref(Head(todo))
  BY DEF unref_next
<1>2. TypeOK /\ RefsExact
  BY DEF Core
<1>3. PICK d \in Block : d = Head(todo)
  BY <1>1, <1>2 DEF TypeOK
<1>4. d \in live
  <2>1. d \in Elems(todo)
    BY <1>1, <1>2, <1>3 DEF TypeOK, Elems
  <2>2. -1 \in Holders(d)
    BY <1>2, <2>1, ListKinds, HolderKinds DEF Holders
  <2> QED
    BY <1>2, <2>2 DEF RefsExact
<1>5. d \notin Elems(free_blocks)
  BY <1>4 DEF FreeListExact, Free
<1>6. CASE refcount[d] = 1
  <2>1. free_blocks' = Append(free_blocks, d)
    BY <1>3, <1>6 DEF FreeOne
  <2>2. Free' = Free \cup {d}
    BY <1>1, <1>3, <1>4, <1>6 DEF Unref, Pop, Free, live
  <2>3. Elems(free_blocks') = Elems(free_blocks) \cup {d} /\ Distinct(free_blocks')
    BY <2>1, <1>5, ElemsAppend DEF FreeListExact
  <2> QED
    BY <2>1, <2>2, <2>3 DEF FreeListExact
<1>7. CASE refcount[d] # 1
  <2>1. free_blocks' = free_blocks
    BY <1>3, <1>7 DEF FreeOne
  <2>2. Free' = Free
    BY <1>1, <1>3, <1>7 DEF Unref, Free, live
  <2> QED
    BY <2>1, <2>2 DEF FreeListExact
<1> QED
  BY <1>6, <1>7

\* Every step of a list-based policy is a step of the allocator with the
\* weakest policy, and keeps the list exact.
LEMMA FLStepOK == FLInv /\ [FLNext]_flvars => [Next]_vars /\ FLInv'
<1> SUFFICES ASSUME FLInv, [FLNext]_flvars PROVE [Next]_vars /\ FLInv'
  OBVIOUS
<1>0. Core /\ TypeOK /\ free_blocks \in Seq(Block) /\ FreeListExact
  BY DEF FLInv, Core
<1>n. free_len = num_free
  BY <1>0, FreeLen
\* A step of the allocator that leaves the list and the live blocks alone.
<1>s. ASSUME Next, UNCHANGED flist, live' = live PROVE [Next]_vars /\ FLInv'
  <2>1. Core'
    BY <1>0, <1>s, CoreNext
  <2>2. free_blocks' = free_blocks /\ Free' = Free
    BY <1>s DEF flist, Free
  <2> QED
    BY <1>0, <1>s, <2>1, <2>2 DEF FLInv, FreeListExact
<1>1. ASSUME NEW s \in Seqs, NEW n \in 1 .. MaxNew, admit(s, n, free_len), UNCHANGED flist
      PROVE  [Next]_vars /\ FLInv'
  <2>1. Next
    BY <1>1, <1>n DEF Next
  <2> QED
    BY <1>1, <1>s, <2>1 DEF admit, live
<1>2. ASSUME NEW s \in Seqs, NEW p \in Seqs, NEW n \in 0 .. MaxNew, p \in DOMAIN tables,
             admit_shared(s, tables[p], n, free_len), UNCHANGED flist
      PROVE  [Next]_vars /\ FLInv'
  <2>1. Next
    BY <1>2, <1>n DEF Next
  <2> QED
    BY <1>2, <1>s, <2>1 DEF admit_shared, Addref, live
<1>3. ASSUME NEW s \in Seqs, NEW x \in Slot, NEW n \in 1 .. MaxNew,
             alloc_scratch(s, x, n, free_len), UNCHANGED flist
      PROVE  [Next]_vars /\ FLInv'
  <2>1. Next
    BY <1>3, <1>n DEF Next
  <2> QED
    BY <1>3, <1>s, <2>1 DEF alloc_scratch, live
<1>4. ASSUME NEW s \in Seqs, NEW i \in DOMAIN free_blocks, NEW b \in Block,
             append_block(s, b, free_len), AllocOne(i, b)
      PROVE  [Next]_vars /\ FLInv'
  <2>1. b \in Free /\ free_blocks' \in Seq(Block) /\ FreeListExact'
    BY <1>0, <1>4, AllocExact DEF append_block
  <2>2. Next
    BY <1>4, <1>n, <2>1 DEF Next
  <2> QED
    BY <1>0, <2>1, <2>2, CoreNext DEF FLInv
<1>5. ASSUME NEW p \in Seqs, NEW c \in Seqs, fork(p, c), UNCHANGED flist
      PROVE  [Next]_vars /\ FLInv'
  <2>1. Next
    BY <1>5 DEF Next
  <2> QED
    BY <1>5, <1>s, <2>1 DEF fork, Addref, live
<1>6. ASSUME NEW x \in Slot, unref_blocks(x), UNCHANGED flist
      PROVE  [Next]_vars /\ FLInv'
  <2>1. Next
    BY <1>6 DEF Next
  <2> QED
    BY <1>6, <1>s, <2>1 DEF unref_blocks, live
<1>7. ASSUME NEW s \in Seqs, release(s), UNCHANGED flist
      PROVE  [Next]_vars /\ FLInv'
  <2>1. Next
    BY <1>7 DEF Next
  <2> QED
    BY <1>7, <1>s, <2>1 DEF release, live
<1>8. ASSUME NEW s \in Seqs, NEW replace_tail \in BOOLEAN, NEW x \in Slot,
             NEW keep \in 1 .. MaxNew, spec_round_adopt(s, replace_tail, x, keep),
             UNCHANGED flist
      PROVE  [Next]_vars /\ FLInv'
  <2>1. Next
    BY <1>8 DEF Next
  <2> QED
    BY <1>8, <1>s, <2>1 DEF spec_round_adopt, live
<1>9. ASSUME NEW i \in DOMAIN free_blocks, NEW b \in Block, alloc_next(b), AllocOne(i, b)
      PROVE  [Next]_vars /\ FLInv'
  <2>1. b \in Free /\ free_blocks' \in Seq(Block) /\ FreeListExact'
    BY <1>0, <1>9, AllocExact DEF alloc_next
  <2>2. Next
    BY <1>9, <2>1 DEF Next
  <2> QED
    BY <1>0, <2>1, <2>2, CoreNext DEF FLInv
<1>10. ASSUME admit_return, UNCHANGED flist PROVE [Next]_vars /\ FLInv'
  <2>1. Next
    BY <1>10 DEF Next
  <2> QED
    BY <1>10, <1>s, <2>1 DEF admit_return, live
<1>11. ASSUME scratch_return, UNCHANGED flist PROVE [Next]_vars /\ FLInv'
  <2>1. Next
    BY <1>11 DEF Next
  <2> QED
    BY <1>11, <1>s, <2>1 DEF scratch_return, live
<1>12. ASSUME NEW x \in Slot, adopt_next(x), UNCHANGED flist PROVE [Next]_vars /\ FLInv'
  <2>1. Next
    BY <1>12 DEF Next
  <2> QED
    BY <1>12, <1>s, <2>1 DEF adopt_next, live
<1>13. ASSUME unref_next, FreeOne(Head(todo)) PROVE [Next]_vars /\ FLInv'
  <2>1. free_blocks' \in Seq(Block) /\ FreeListExact'
    BY <1>0, <1>13, FreeExact
  <2>2. Next
    BY <1>13 DEF Next
  <2> QED
    BY <1>0, <2>1, <2>2, CoreNext DEF FLInv
<1>14. ASSUME unref_return, UNCHANGED flist PROVE [Next]_vars /\ FLInv'
  <2>1. Next
    BY <1>14 DEF Next
  <2> QED
    BY <1>14, <1>s, <2>1 DEF unref_return, live
<1>15. ASSUME UNCHANGED flvars PROVE [Next]_vars /\ FLInv'
  <2>1. UNCHANGED vars /\ free_blocks' = free_blocks /\ Free' = Free
    BY <1>15 DEF flvars, flist, vars, Free, live
  <2>2. Core'
    BY <1>0, <2>1, CoreNext
  <2> QED
    BY <1>0, <2>1, <2>2 DEF FLInv, FreeListExact
<1> QED
  BY <1>1, <1>2, <1>3, <1>4, <1>5, <1>6, <1>7, <1>8, <1>9, <1>10, <1>11, <1>12,
     <1>13, <1>14, <1>15 DEF FLNext, FLStep

-----------------------------------------------------------------------------
(* The theorems *)

\* The free list of PagedFirstFit and of RandomAlloc holds every free block
\* exactly once, for every pool, every sequence of calls and every draw of the
\* random index: no block is lost for good and none is handed out twice.
THEOREM ListExact == FLSpec => []FreeListExact
<1>1. FLInv => FreeListExact
  BY DEF FLInv
<1> QED
  BY FLInvInit, FLStepOK, <1>1, PTL DEF FLSpec

\* Both policies implement the allocator with the weakest policy; what is
\* proved of KVAllocator's Spec holds of them.
THEOREM ListImplements == FLSpec => Spec
<1>1. FLInit => Init
  BY DEF FLInit
<1> QED
  BY FLInvInit, FLStepOK, <1>1, PTL DEF FLSpec, Spec
=============================================================================
