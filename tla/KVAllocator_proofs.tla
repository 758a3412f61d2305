-------------------------- MODULE KVAllocator_proofs --------------------------
(***************************************************************************)
(* Proofs about KVAllocator, for every pool size, every set of sequences   *)
(* and every bound.                                                        *)
(***************************************************************************)
EXTENDS KVAllocator, FiniteSetTheorems, SequenceTheorems, TLAPS

-----------------------------------------------------------------------------
(* Facts about lists and about cardinalities *)

LEMMA ElemsEmpty == Elems(<< >>) = {} /\ Distinct(<< >>)
  BY DEF Elems, Distinct

\* A block appended to a block table joins its elements; a table without
\* repetition stays so when the block is new (append_block, alloc_next).
LEMMA ElemsAppend ==
  ASSUME NEW S, NEW l \in Seq(S), NEW b \in S
  PROVE  /\ Elems(Append(l, b)) = Elems(l) \cup {b}
         /\ b \notin Elems(l) /\ Distinct(l) => Distinct(Append(l, b))
<1> DEFINE m == Append(l, b)
           n == Len(l)
<1>1. n \in Nat /\ DOMAIN l = 1 .. n /\ DOMAIN m = 1 .. n + 1
  OBVIOUS
<1>2. m[n + 1] = b /\ \A i \in 1 .. n : m[i] = l[i]
  OBVIOUS
<1> HIDE DEF m, n
<1>3. Elems(m) = Elems(l) \cup {b}
  BY <1>1, <1>2 DEF Elems
<1>4. b \notin Elems(l) /\ Distinct(l) => Distinct(m)
  BY <1>1, <1>2 DEF Distinct, Elems
<1> QED
  BY <1>3, <1>4 DEF m

\* Taking the first entry off a list without repetition removes exactly it
\* (one iteration of the loop over _unref).
LEMMA ElemsTail ==
  ASSUME NEW S, NEW l \in Seq(S), l # << >>, Distinct(l)
  PROVE  /\ Head(l) \in Elems(l)
         /\ Elems(Tail(l)) = Elems(l) \ {Head(l)}
         /\ Distinct(Tail(l))
<1> DEFINE m == Tail(l)
           n == Len(m)
           x == Head(l)
<1>1. n \in Nat /\ DOMAIN l = 1 .. n + 1 /\ DOMAIN m = 1 .. n
  OBVIOUS
<1>2. x = l[1] /\ \A i \in 1 .. n : m[i] = l[i + 1]
  OBVIOUS
<1> HIDE DEF m, n, x
<1>3. \A i \in 1 .. n + 1 : i = 1 \/ (i - 1 \in 1 .. n /\ l[i] = m[i - 1])
  BY <1>1, <1>2
<1>4. Elems(m) = Elems(l) \ {x}
  <2>1. ASSUME NEW i \in 1 .. n PROVE m[i] \in Elems(l) /\ m[i] # x
    <3>1. i + 1 \in DOMAIN l /\ 1 \in DOMAIN l /\ i + 1 # 1 /\ m[i] = l[i + 1]
      BY <1>1, <1>2
    <3> QED
      BY <3>1, <1>2, Zenon DEF Elems, Distinct
  <2>2. ASSUME NEW i \in 1 .. n + 1, l[i] # x PROVE l[i] \in Elems(m)
    BY <2>2, <1>1, <1>2, <1>3 DEF Elems
  <2>3. \A y \in Elems(m) : y \in Elems(l) /\ y # x
    BY <2>1, <1>1, Zenon DEF Elems
  <2>4. \A y \in Elems(l) : y # x => y \in Elems(m)
    BY <2>2, <1>1, Zenon DEF Elems
  <2> QED
    BY <2>3, <2>4
<1>5. Distinct(m)
  BY <1>1, <1>2 DEF Distinct
<1>6. x \in Elems(l)
  BY <1>1, <1>2 DEF Elems
<1> QED
  BY <1>4, <1>5, <1>6 DEF m, x

\* Cutting a list without repetition in two shares its elements between the
\* parts (spec_round_adopt keeps a prefix of the branch).
LEMMA ElemsSplit ==
  ASSUME NEW S, NEW l \in Seq(S), NEW k \in 0 .. Len(l), Distinct(l)
  PROVE  /\ SubSeq(l, 1, k) \in Seq(S) /\ SubSeq(l, k + 1, Len(l)) \in Seq(S)
         /\ Distinct(SubSeq(l, 1, k)) /\ Distinct(SubSeq(l, k + 1, Len(l)))
         /\ Elems(SubSeq(l, 1, k)) \cup Elems(SubSeq(l, k + 1, Len(l))) = Elems(l)
         /\ Elems(SubSeq(l, 1, k)) \cap Elems(SubSeq(l, k + 1, Len(l))) = {}
<1> DEFINE p == SubSeq(l, 1, k)
           q == SubSeq(l, k + 1, Len(l))
           n == Len(l)
<1>0. p \in Seq(S) /\ q \in Seq(S)
  OBVIOUS
<1>1. n \in Nat /\ k \in 0 .. n /\ DOMAIN l = 1 .. n
  OBVIOUS
<1>2. DOMAIN p = 1 .. k /\ \A i \in 1 .. k : p[i] = l[i]
  OBVIOUS
<1>3. DOMAIN q = 1 .. n - k /\ \A i \in 1 .. n - k : q[i] = l[k + i]
  OBVIOUS
<1> HIDE DEF p, q, n
<1>4. \A i \in 1 .. n : i <= k \/ (i - k \in 1 .. n - k /\ l[i] = q[i - k])
  BY <1>1, <1>3
<1>5. Distinct(p) /\ Distinct(q)
  <2>1. ASSUME NEW i \in 1 .. k, NEW j \in 1 .. k, p[i] = p[j] PROVE i = j
    <3>1. i \in 1 .. n /\ j \in 1 .. n /\ l[i] = l[j]
      BY <1>1, <1>2, <2>1
    <3> QED
      BY <1>1, <3>1 DEF Distinct
  <2>2. ASSUME NEW i \in 1 .. n - k, NEW j \in 1 .. n - k, q[i] = q[j] PROVE i = j
    <3>1. k + i \in 1 .. n /\ k + j \in 1 .. n /\ l[k + i] = l[k + j]
      BY <1>1, <1>3, <2>2
    <3>2. k + i = k + j
      BY <1>1, <3>1 DEF Distinct
    <3> QED
      BY <1>1, <3>2
  <2> QED
    BY <1>2, <1>3, <2>1, <2>2 DEF Distinct
<1>6. Elems(p) \cup Elems(q) = Elems(l)
  <2>1. \A x \in Elems(p) : x \in Elems(l)
    BY <1>1, <1>2 DEF Elems
  <2>2. \A x \in Elems(q) : x \in Elems(l)
    <3>1. \A i \in DOMAIN q : k + i \in DOMAIN l /\ q[i] = l[k + i]
      BY <1>1, <1>3
    <3> QED
      BY <3>1, Zenon DEF Elems
  <2>3. ASSUME NEW i \in 1 .. n PROVE l[i] \in Elems(p) \cup Elems(q)
    <3>1. (i \in DOMAIN p /\ l[i] = p[i]) \/ (i - k \in DOMAIN q /\ l[i] = q[i - k])
      BY <1>1, <1>2, <1>3, <1>4
    <3> QED
      BY <3>1, Zenon DEF Elems
  <2>4. \A x \in Elems(l) : x \in Elems(p) \cup Elems(q)
    BY <2>3, <1>1, Zenon DEF Elems
  <2> QED
    BY <2>1, <2>2, <2>4
<1>7. Elems(p) \cap Elems(q) = {}
  BY <1>1, <1>2, <1>3 DEF Elems, Distinct
<1> QED
  BY <1>0, <1>5, <1>6, <1>7 DEF p, q, n

\* Dropping the last entry of a list without repetition removes exactly it.
LEMMA ElemsLast ==
  ASSUME NEW S, NEW l \in Seq(S), Len(l) > 0, Distinct(l)
  PROVE  /\ SubSeq(l, 1, Len(l) - 1) \in Seq(S) /\ Distinct(SubSeq(l, 1, Len(l) - 1))
         /\ Elems(SubSeq(l, 1, Len(l) - 1)) = Elems(l) \ {l[Len(l)]}
         /\ l[Len(l)] \in S /\ l[Len(l)] \in Elems(l)
<1> DEFINE k == Len(l) - 1
           q == SubSeq(l, k + 1, Len(l))
<1>1. k \in 0 .. Len(l) /\ k + 1 = Len(l) /\ l[Len(l)] \in S
  OBVIOUS
<1>2. DOMAIN q = 1 .. 1 /\ q[1] = l[Len(l)]
  OBVIOUS
<1>3. Elems(q) = {l[Len(l)]}
  <2>1. DOMAIN q = {1}
    BY <1>2
  <2> QED
    BY <1>2, <2>1, Zenon DEF Elems
<1> HIDE DEF q, k
<1>4. /\ SubSeq(l, 1, k) \in Seq(S) /\ Distinct(SubSeq(l, 1, k))
      /\ Elems(SubSeq(l, 1, k)) \cup Elems(q) = Elems(l)
      /\ Elems(SubSeq(l, 1, k)) \cap Elems(q) = {}
  BY <1>1, ElemsSplit DEF q
<1>5. Elems(SubSeq(l, 1, k)) = Elems(l) \ {l[Len(l)]} /\ l[Len(l)] \in Elems(l)
  BY <1>3, <1>4
<1> QED
  BY <1>1, <1>4, <1>5 DEF k

\* A list of one block holds that block and repeats nothing.
LEMMA ElemsSingleton ==
  ASSUME NEW v
  PROVE  Elems(<<v>>) = {v} /\ Distinct(<<v>>)
<1>1. DOMAIN <<v>> = {1} /\ <<v>>[1] = v
  OBVIOUS
<1> QED
  BY <1>1, Zenon DEF Elems, Distinct

\* A concatenation holds the blocks of both lists, and repeats none when the
\* lists are disjoint (admit_shared: the shared prefix followed by new blocks).
LEMMA ElemsConcat ==
  ASSUME NEW S, NEW k \in Seq(S), NEW l \in Seq(S)
  PROVE  /\ k \o l \in Seq(S)
         /\ Elems(k \o l) = Elems(k) \cup Elems(l)
         /\ Distinct(k) /\ Distinct(l) /\ Elems(k) \cap Elems(l) = {} => Distinct(k \o l)
<1> DEFINE m == k \o l
           a == Len(k)
           b == Len(l)
<1>0. m \in Seq(S)
  OBVIOUS
<1>1. a \in Nat /\ b \in Nat /\ DOMAIN k = 1 .. a /\ DOMAIN l = 1 .. b /\ DOMAIN m = 1 .. a + b
  OBVIOUS
<1>2. \A i \in 1 .. a : m[i] = k[i]
  OBVIOUS
<1>3. \A i \in 1 .. b : m[a + i] = l[i]
  OBVIOUS
<1> HIDE DEF m, a, b
<1>4. \A i \in 1 .. a + b : i <= a \/ (i - a \in 1 .. b /\ m[i] = l[i - a])
  BY <1>1, <1>3
<1>5. Elems(m) = Elems(k) \cup Elems(l)
  <2>1. \A x \in Elems(k) : x \in Elems(m)
    BY <1>1, <1>2 DEF Elems
  <2>2. \A x \in Elems(l) : x \in Elems(m)
    <3>1. \A i \in DOMAIN l : a + i \in DOMAIN m /\ l[i] = m[a + i]
      BY <1>1, <1>3
    <3> QED
      BY <3>1, Zenon DEF Elems
  <2>3. ASSUME NEW i \in 1 .. a + b PROVE m[i] \in Elems(k) \cup Elems(l)
    <3>1. (i \in DOMAIN k /\ m[i] = k[i]) \/ (i - a \in DOMAIN l /\ m[i] = l[i - a])
      BY <1>1, <1>2, <1>4
    <3> QED
      BY <3>1, Zenon DEF Elems
  <2>4. \A x \in Elems(m) : x \in Elems(k) \cup Elems(l)
    BY <2>3, <1>1, Zenon DEF Elems
  <2> QED
    BY <2>1, <2>2, <2>4
<1>6. ASSUME Distinct(k), Distinct(l), Elems(k) \cap Elems(l) = {}
      PROVE  Distinct(m)
  <2> SUFFICES ASSUME NEW i \in 1 .. a + b, NEW j \in 1 .. a + b, m[i] = m[j], i < j
               PROVE  FALSE
    BY <1>1 DEF Distinct
  <2>1. CASE j <= a
    BY <2>1, <1>1, <1>2, <1>6 DEF Distinct
  <2>2. CASE i > a
    <3>1. i - a \in DOMAIN l /\ j - a \in DOMAIN l /\ i - a # j - a
      BY <2>2, <1>1
    <3>2. l[i - a] = l[j - a]
      BY <2>2, <1>1, <1>4
    <3> QED
      BY <3>1, <3>2, <1>6, Zenon DEF Distinct
  <2>3. CASE i <= a /\ j > a
    <3>1. m[i] \in Elems(k)
      BY <2>3, <1>1, <1>2 DEF Elems
    <3>2. m[j] \in Elems(l)
      BY <2>3, <1>1, <1>4 DEF Elems
    <3> QED
      BY <3>1, <3>2, <1>6
  <2> QED
    BY <2>1, <2>2, <2>3, <1>1
<1> QED
  BY <1>0, <1>5, <1>6 DEF m

\* Substituting one block for another keeps a list's length and type (relocate).
LEMMA ReplaceType ==
  ASSUME NEW S, NEW l \in Seq(S), NEW b, NEW nb \in S
  PROVE  Replace(l, b, nb) \in Seq(S) /\ DOMAIN Replace(l, b, nb) = DOMAIN l
<1>1. PICK n \in Nat : l \in [1 .. n -> S]
  BY SeqDef
<1>2. Replace(l, b, nb) \in [1 .. n -> S]
  BY <1>1 DEF Replace
<1> QED
  BY <1>1, <1>2, SeqDef DEF Replace

\* A reference that changes hands leaves the number of holders alone.
LEMMA SwapCard ==
  ASSUME NEW H, IsFiniteSet(H), NEW h \in H, NEW g, g \notin H
  PROVE  Cardinality((H \ {h}) \cup {g}) = Cardinality(H)
<1>1. IsFiniteSet(H \ {h}) /\ Cardinality(H \ {h}) = Cardinality(H) - 1
  BY FS_RemoveElement
<1>2. Cardinality((H \ {h}) \cup {g}) = Cardinality(H \ {h}) + 1
  BY <1>1, FS_AddElement
<1>3. Cardinality(H) \in Nat
  BY FS_CardinalityType
<1> QED
  BY <1>1, <1>2, <1>3

USE NumBlocksAssumption, SeqsAssumption, BoundsAssumption

\* A block has finitely many holders, so its reference count is a number.
LEMMA HoldersFinite ==
  \A b : IsFiniteSet(Holders(b)) /\ Cardinality(Holders(b)) \in Nat
<1>1. IsFiniteSet(Slot)
  BY FS_Interval DEF Slot
<1>2. IsFiniteSet(Seqs \cup Slot)
  BY <1>1, FS_Union
<1>3. IsFiniteSet((Seqs \cup Slot) \cup {0})
  BY <1>2, FS_AddElement
<1>4. IsFiniteSet(((Seqs \cup Slot) \cup {0}) \cup {-1})
  BY <1>3, FS_AddElement
<1>5. IsFiniteSet(Holder)
  BY <1>4, Zenon DEF Holder
<1> QED
  BY <1>5, FS_Subset, FS_CardinalityType DEF Holders

-----------------------------------------------------------------------------
(* The type invariant *)

\* Init establishes the type invariant and every operation of the allocator
\* preserves it.
LEMMA TypeInit == Init => TypeOK
  BY DEF Init, TypeOK, Calls, live

\* Every step of an operation keeps the variables in their types.
LEMMA TypeNext == TypeOK /\ NoDup /\ CallConsistent /\ [Next]_vars => TypeOK'
<1> SUFFICES ASSUME TypeOK, NoDup, CallConsistent, [Next]_vars PROVE TypeOK'
  OBVIOUS
<1> USE DEF TypeOK, Calls, live
<1>1. ASSUME NEW s \in Seqs, NEW n \in 1 .. MaxNew, admit(s, n, num_free)
      PROVE  TypeOK'
  BY <1>1 DEF admit
<1>2. ASSUME NEW s \in Seqs, NEW p \in Seqs, NEW n \in 0 .. MaxNew,
             p \in DOMAIN tables, admit_shared(s, tables[p], n, num_free)
      PROVE  TypeOK'
  BY <1>2 DEF admit_shared, Addref
<1>3. ASSUME NEW s \in Seqs, NEW x \in Slot, NEW n \in 1 .. MaxNew,
             alloc_scratch(s, x, n, num_free)
      PROVE  TypeOK'
  BY <1>3 DEF alloc_scratch
<1>4. ASSUME NEW b \in Free, alloc_next(b) PROVE TypeOK'
  BY <1>4, SMTT(30) DEF alloc_next, Alloc, Put, Free
<1>5. ASSUME admit_return PROVE TypeOK'
  BY <1>5 DEF admit_return, Put, CallConsistent
<1>6. ASSUME scratch_return PROVE TypeOK'
  BY <1>6 DEF scratch_return, CallConsistent
<1>7. ASSUME NEW s \in Seqs, NEW b \in Free, append_block(s, b, num_free)
      PROVE  TypeOK'
  BY <1>7 DEF append_block, Alloc, Put, Free, locals
<1>8. ASSUME NEW p \in Seqs, NEW c \in Seqs, fork(p, c) PROVE TypeOK'
  BY <1>8, SMTT(30) DEF fork, Addref, Put, locals
<1>9. ASSUME NEW x \in Slot, unref_blocks(x) PROVE TypeOK'
  BY <1>9 DEF unref_blocks
<1>10. ASSUME NEW s \in Seqs, release(s) PROVE TypeOK'
  BY <1>10 DEF release, Pop
<1>11. ASSUME NEW s \in Seqs, NEW replace_tail \in BOOLEAN, NEW x \in Slot,
              NEW keep \in 1 .. MaxNew, spec_round_adopt(s, replace_tail, x, keep)
       PROVE  TypeOK'
  <2>1. s \in DOMAIN tables /\ tables[s] \in Seq(Block) /\ scratch[x] \in Seq(Block)
    BY <1>11 DEF spec_round_adopt
  <2>2. scratch' \in [Slot -> Seq(Block)]
    BY <1>11 DEF spec_round_adopt
  <2>3. keep <= Len(scratch[x]) /\ (replace_tail => Len(tables[s]) > 0)
    BY <1>11 DEF spec_round_adopt
  <2>4. /\ keep \in 0 .. Len(scratch[x])
        /\ replace_tail => Len(tables[s]) - 1 \in 0 .. Len(tables[s])
    BY <2>1, <2>3
  <2> DEFINE base == IF replace_tail THEN SubSeq(tables[s], 1, Len(tables[s]) - 1)
                                     ELSE tables[s]
             tail == IF replace_tail THEN <<tables[s][Len(tables[s])]>> ELSE << >>
             kept == SubSeq(scratch[x], 1, keep)
             rest == SubSeq(scratch[x], keep + 1, Len(scratch[x]))
  <2>5. base \in Seq(Block) /\ tail \in Seq(Block)
    BY <2>1, <2>4
  <2>6. kept \in Seq(Block) /\ rest \in Seq(Block)
    BY <2>1, <2>4, SMTT(30)
  <2>7. tables' = [tables EXCEPT ![s] = base \o kept] /\ todo' = tail \o rest
    BY <1>11 DEF spec_round_adopt
  <2> HIDE DEF base, tail, kept, rest
  <2>8. base \o kept \in Seq(Block) /\ todo' \in Seq(Block)
    BY <2>5, <2>6, <2>7
  <2>9. DOMAIN tables' = DOMAIN tables /\ tables' \in [DOMAIN tables -> Seq(Block)]
    BY <2>1, <2>7, <2>8
  <2> QED
    BY <1>11, <2>2, <2>8, <2>9 DEF spec_round_adopt
<1>12. ASSUME NEW x \in Slot, adopt_next(x) PROVE TypeOK'
  BY <1>12 DEF adopt_next
<1>13. ASSUME unref_next PROVE TypeOK'
  BY <1>13, SMTT(30) DEF unref_next, Unref, Pop
<1>14. ASSUME unref_return PROVE TypeOK'
  BY <1>14 DEF unref_return
<1>15. ASSUME NEW b \in live, NEW nb \in Free, InTable(b), relocate(b, nb)
       PROVE  TypeOK'
  <2>1. nb \in Block
    BY DEF Free
  <2>2. ASSUME NEW s \in DOMAIN tables
        PROVE  tables'[s] \in Seq(Block)
    <3>1. tables'[s] = Replace(tables[s], b, nb) /\ tables[s] \in Seq(Block)
      BY <1>15 DEF relocate, Replace
    <3> QED
      BY <2>1, <3>1, ReplaceType
  <2>3. DOMAIN tables' = DOMAIN tables /\ tables' \in [DOMAIN tables -> Seq(Block)]
    BY <1>15, <2>2 DEF relocate
  <2>4. live' \subseteq Block /\ refcount' \in [live' -> Nat \ {0}]
    BY <1>15, <2>1 DEF relocate, Put, Pop
  <2> QED
    BY <1>15, <2>3, <2>4 DEF relocate, locals
<1>16. ASSUME UNCHANGED vars PROVE TypeOK'
  BY <1>16 DEF vars, locals
<1> QED
  BY <1>1, <1>2, <1>3, <1>4, <1>5, <1>6, <1>7, <1>8, <1>9, <1>10, <1>11,
     <1>12, <1>13, <1>14, <1>15, <1>16 DEF Next

-----------------------------------------------------------------------------
(* How the lists of the holders change *)

LEMMA HolderKinds ==
  /\ \A s \in Seqs : s \notin Slot /\ s # 0 /\ s # -1 /\ s \in Holder
  /\ \A x \in Slot : x \notin Seqs /\ x # 0 /\ x # -1 /\ x \in Holder
  /\ 0 \notin Seqs /\ 0 \notin Slot /\ 0 \in Holder
  /\ -1 \notin Seqs /\ -1 \notin Slot /\ -1 \in Holder
  BY DEF Slot, Holder

\* The list a holder stands for: a sequence's table, a scratch slot, or one of
\* the two lists that the call in progress keeps in its locals.
LEMMA ListKinds ==
  ASSUME TypeOK
  PROVE  /\ \A s \in Seqs : ListOf(s) = IF s \in DOMAIN tables THEN tables[s] ELSE << >>
         /\ \A x \in Slot : ListOf(x) = scratch[x]
         /\ ListOf(0) = got
         /\ ListOf(-1) = todo
         /\ \A h \in Holder : ListOf(h) \in Seq(Block)
<1>1. /\ \A s \in Seqs : ListOf(s) = IF s \in DOMAIN tables THEN tables[s] ELSE << >>
      /\ \A x \in Slot : ListOf(x) = scratch[x]
      /\ ListOf(0) = got
      /\ ListOf(-1) = todo
  BY HolderKinds DEF ListOf, TypeOK
<1>2. ASSUME NEW s \in Seqs PROVE ListOf(s) \in Seq(Block)
  <2>1. CASE s \in DOMAIN tables
    BY <2>1, <1>1 DEF TypeOK
  <2>2. CASE s \notin DOMAIN tables
    <3>1. ListOf(s) = << >>
      BY <2>2, <1>1
    <3>2. << >> \in Seq(Block)
      OBVIOUS
    <3> QED
      BY <3>1, <3>2
  <2> QED
    BY <2>1, <2>2
<1>3. \A x \in Slot : ListOf(x) \in Seq(Block)
  BY <1>1 DEF TypeOK
<1>4. ListOf(0) \in Seq(Block) /\ ListOf(-1) \in Seq(Block)
  BY <1>1 DEF TypeOK
<1>5. \A h \in Holder : ListOf(h) \in Seq(Block)
  BY <1>2, <1>3, <1>4, Zenon DEF Holder
<1> QED
  BY <1>1, <1>5

\* The same, of the state after a step.
LEMMA ListKindsPrime ==
  ASSUME TypeOK'
  PROVE  /\ \A s \in Seqs : ListOf(s)' = IF s \in DOMAIN tables' THEN tables'[s] ELSE << >>
         /\ \A x \in Slot : ListOf(x)' = scratch'[x]
         /\ ListOf(0)' = got'
         /\ ListOf(-1)' = todo'
  BY HolderKinds DEF ListOf, TypeOK

\* A step that changes no list and no reference count.
LEMMA SameLists ==
  ASSUME NoDup, RefsExact, refcount' = refcount,
         \A h \in Holder : ListOf(h)' = ListOf(h)
  PROVE  /\ \A b \in Block : Holders(b)' = Holders(b)
         /\ NoDup' /\ RefsExact'
<1>1. \A b \in Block : Holders(b)' = Holders(b)
  BY DEF Holders
<1>2. NoDup'
  BY DEF NoDup
<1>3. RefsExact'
  BY <1>1 DEF RefsExact, live
<1> QED
  BY <1>1, <1>2, <1>3

\* A fresh block goes to the end of the list of h.
LEMMA GrabStep ==
  ASSUME TypeOK, NoDup, RefsExact, NEW h \in Holder, NEW b \in Free,
         refcount' = Put(refcount, b, 1),
         ListOf(h)' = Append(ListOf(h), b),
         \A k \in Holder \ {h} : ListOf(k)' = ListOf(k)
  PROVE  /\ Holders(b) = {} /\ Holders(b)' = {h}
         /\ \A c \in Block \ {b} : Holders(c)' = Holders(c)
         /\ NoDup' /\ RefsExact'
<1>0. b \in Block /\ b \notin live
  BY DEF Free
<1>1. Holders(b) = {}
  BY <1>0 DEF RefsExact
<1>2. ListOf(h) \in Seq(Block)
  BY ListKinds
<1>3. Elems(ListOf(h)') = Elems(ListOf(h)) \cup {b}
  BY <1>0, <1>2, ElemsAppend
<1>4. b \notin Elems(ListOf(h))
  BY <1>1 DEF Holders
<1>5. Distinct(ListOf(h)')
  BY <1>0, <1>2, <1>4, ElemsAppend DEF NoDup
<1>6. Holders(b)' = {h}
  BY <1>1, <1>3 DEF Holders
<1>7. \A c \in Block \ {b} : Holders(c)' = Holders(c)
  BY <1>3 DEF Holders
<1>8. NoDup'
  BY <1>5 DEF NoDup
<1>9. live' = live \cup {b} /\ refcount'[b] = 1
      /\ \A c \in live : c # b => refcount'[c] = refcount[c]
  BY DEF live, Put
<1>10. Cardinality({h}) = 1
  BY FS_Singleton
<1>11. RefsExact'
  BY <1>0, <1>6, <1>7, <1>9, <1>10 DEF RefsExact
<1> QED
  BY <1>1, <1>6, <1>7, <1>8, <1>11

\* The whole list of k goes to g, which held nothing.
LEMMA PassStep ==
  ASSUME NoDup, RefsExact, refcount' = refcount,
         NEW k \in Holder, NEW g \in Holder, k # g,
         ListOf(g) = << >>, ListOf(g)' = ListOf(k), ListOf(k)' = << >>,
         \A h \in Holder \ {k, g} : ListOf(h)' = ListOf(h)
  PROVE  /\ \A b \in Block : /\ g \notin Holders(b)
                             /\ Holders(b)' = IF k \in Holders(b)
                                              THEN (Holders(b) \ {k}) \cup {g}
                                              ELSE Holders(b)
         /\ NoDup' /\ RefsExact'
<1>1. ASSUME NEW b \in Block
      PROVE  /\ g \notin Holders(b)
             /\ Holders(b)' = IF k \in Holders(b) THEN (Holders(b) \ {k}) \cup {g}
                                                 ELSE Holders(b)
  BY ElemsEmpty DEF Holders
<1>2. NoDup'
  BY ElemsEmpty DEF NoDup
<1>3. ASSUME NEW b \in Block
      PROVE  /\ Cardinality(Holders(b)') = Cardinality(Holders(b))
             /\ Holders(b) = {} => Holders(b)' = {}
  <2>1. CASE k \in Holders(b)
    BY <2>1, <1>1, SwapCard, HoldersFinite
  <2>2. CASE k \notin Holders(b)
    BY <2>2, <1>1
  <2> QED
    BY <2>1, <2>2
<1>4. RefsExact'
  BY <1>3 DEF RefsExact, live
<1> QED
  BY <1>1, <1>2, <1>4

\* h, which held nothing, joins the holders of the list of p.
LEMMA ShareStep ==
  ASSUME TypeOK, NoDup, RefsExact, NEW p \in Holder, NEW h \in Holder, p # h,
         Addref(Elems(ListOf(p))),
         ListOf(h) = << >>, ListOf(h)' = ListOf(p),
         \A k \in Holder \ {h} : ListOf(k)' = ListOf(k)
  PROVE  /\ \A b \in Block : /\ h \notin Holders(b)
                             /\ Holders(b)' = IF p \in Holders(b)
                                              THEN Holders(b) \cup {h} ELSE Holders(b)
         /\ NoDup' /\ RefsExact'
<1>1. ASSUME NEW b \in Block
      PROVE  /\ h \notin Holders(b)
             /\ Holders(b)' = IF p \in Holders(b) THEN Holders(b) \cup {h} ELSE Holders(b)
             /\ b \in Elems(ListOf(p)) <=> p \in Holders(b)
  BY ElemsEmpty DEF Holders
<1>2. NoDup'
  BY DEF NoDup
<1>3. live' = live /\ \A b \in live :
         refcount'[b] = IF b \in Elems(ListOf(p)) THEN refcount[b] + 1 ELSE refcount[b]
  BY DEF Addref, live
<1>4. ASSUME NEW b \in Block, p \in Holders(b)
      PROVE  Cardinality(Holders(b)') = Cardinality(Holders(b)) + 1
  BY <1>1, <1>4, FS_AddElement, HoldersFinite
<1>5. RefsExact'
  <2> SUFFICES ASSUME NEW b \in Block
               PROVE  IF b \in live' THEN refcount'[b] = Cardinality(Holders(b)')
                                     ELSE Holders(b)' = {}
    BY DEF RefsExact
  <2>1. CASE b \in live /\ p \in Holders(b)
    BY <2>1, <1>1, <1>3, <1>4 DEF RefsExact
  <2>2. CASE b \in live /\ p \notin Holders(b)
    BY <2>2, <1>1, <1>3 DEF RefsExact
  <2>3. CASE b \notin live
    BY <2>3, <1>1, <1>3 DEF RefsExact
  <2> QED
    BY <2>1, <2>2, <2>3
<1> QED
  BY <1>1, <1>2, <1>5

\* The call in progress drops its reference on the first block it has to drop.
LEMMA DropStep ==
  ASSUME TypeOK, NoDup, RefsExact, todo # << >>, Unref(Head(todo)),
         ListOf(-1)' = Tail(todo),
         \A k \in Holder \ {-1} : ListOf(k)' = ListOf(k)
  PROVE  /\ \A b \in Block : Holders(b)' = IF b = Head(todo) THEN Holders(b) \ {-1}
                                                            ELSE Holders(b)
         /\ Head(todo) \in live
         /\ NoDup' /\ RefsExact'
<1>0. todo \in Seq(Block) /\ ListOf(-1) = todo /\ Distinct(todo) /\ -1 \in Holder
  BY ListKinds, HolderKinds DEF TypeOK, NoDup
<1>2. PICK d \in Block : d = Head(todo)
  BY <1>0
<1>1. d \in Elems(todo) /\ Elems(Tail(todo)) = Elems(todo) \ {d} /\ Distinct(Tail(todo))
  BY <1>0, <1>2, ElemsTail
<1>3. ASSUME NEW b \in Block
      PROVE  Holders(b)' = IF b = d THEN Holders(b) \ {-1} ELSE Holders(b)
  BY <1>0, <1>1 DEF Holders
<1>4. -1 \in Holders(d)
  BY <1>0, <1>1 DEF Holders
<1>5. d \in live /\ refcount[d] = Cardinality(Holders(d))
  BY <1>2, <1>4 DEF RefsExact
<1>6. NoDup'
  BY <1>0, <1>1 DEF NoDup
<1>7. IsFiniteSet(Holders(d)') /\ Cardinality(Holders(d)') = Cardinality(Holders(d)) - 1
  BY <1>2, <1>3, <1>4, FS_RemoveElement, HoldersFinite
<1>8. RefsExact'
  <2>1. CASE refcount[d] = 1
    <3>1. refcount' = Pop(refcount, d)
      BY <2>1, <1>2 DEF Unref
    <3>2. live' = live \ {d} /\ \A b \in live : b # d => refcount'[b] = refcount[b]
      BY <3>1 DEF live, Pop
    <3>3. Holders(d)' = {}
      BY <2>1, <1>5, <1>7, FS_EmptySet
    <3> QED
      BY <3>2, <3>3, <1>3 DEF RefsExact
  <2>2. CASE refcount[d] # 1
    <3>1. refcount' = [refcount EXCEPT ![d] = @ - 1]
      BY <2>2, <1>2 DEF Unref
    <3>2. live' = live /\ refcount'[d] = refcount[d] - 1
          /\ \A b \in live : b # d => refcount'[b] = refcount[b]
      BY <3>1, <1>5 DEF live
    <3> QED
      BY <3>2, <1>3, <1>5, <1>7 DEF RefsExact
  <2> QED
    BY <2>1, <2>2
<1> QED
  BY <1>2, <1>3, <1>5, <1>6, <1>8

\* Substituting a block that is not in the list for one that is moves exactly
\* that element and introduces no repetition (relocate's table rewrite).
LEMMA ElemsReplace ==
  ASSUME NEW S, NEW l \in Seq(S), NEW b, NEW nb, b # nb, nb \notin Elems(l)
  PROVE  /\ Elems(Replace(l, b, nb)) = IF b \in Elems(l) THEN (Elems(l) \ {b}) \cup {nb}
                                                        ELSE Elems(l)
         /\ Distinct(l) => Distinct(Replace(l, b, nb))
<1> DEFINE m == Replace(l, b, nb)
<1>1. DOMAIN m = DOMAIN l /\ \A i \in DOMAIN l : m[i] = IF l[i] = b THEN nb ELSE l[i]
  BY DEF Replace
<1> HIDE DEF m
<1>2. Elems(m) = IF b \in Elems(l) THEN (Elems(l) \ {b}) \cup {nb} ELSE Elems(l)
  BY <1>1 DEF Elems
<1>3. Distinct(l) => Distinct(m)
  BY <1>1 DEF Elems, Distinct
<1> QED
  BY <1>2, <1>3 DEF m

\* Every table that holds b holds nb in its place, and no scratch list does.
LEMMA RelocateStep ==
  ASSUME TypeOK, NoDup, RefsExact, ScratchPrivate, CallConsistent,
         NEW b \in live, NEW nb \in Free, InTable(b), relocate(b, nb)
  PROVE  /\ \A c \in Block : Holders(c)' = IF c = b THEN {}
                                           ELSE IF c = nb THEN Holders(b)
                                           ELSE Holders(c)
         /\ Holders(b) # {} /\ Holders(nb) = {} /\ b # nb /\ nb \in Block
         /\ NoDup' /\ RefsExact'
<1>1. b \in Block /\ nb \in Block /\ b # nb /\ nb \notin live
  BY DEF Free, TypeOK
<1>2. Holders(nb) = {}
  BY <1>1 DEF RefsExact
<1>3. got = << >> /\ todo = << >>
  BY DEF relocate, CallConsistent
<1>4. PICK s \in Seqs : s \in DOMAIN tables /\ b \in Elems(tables[s])
  BY DEF InTable, TypeOK
<1>5. s \in Holders(b)
  BY <1>4, ListKinds, HolderKinds DEF Holders
<1>6. \A x \in Slot : b \notin Elems(scratch[x])
  BY <1>5, HolderKinds DEF ScratchPrivate
<1>7. ASSUME NEW h \in Holder
      PROVE  \/ b \notin Elems(ListOf(h)) /\ ListOf(h)' = ListOf(h)
             \/ ListOf(h)' = Replace(ListOf(h), b, nb)
  <2>1. CASE h \in DOMAIN tables
    BY <2>1 DEF ListOf, relocate
  <2>2. CASE h \notin DOMAIN tables /\ h \in Slot
    BY <2>2, <1>6 DEF ListOf, relocate
  <2>3. CASE h \notin DOMAIN tables /\ h \notin Slot
    <3>1. ListOf(h) = << >> /\ ListOf(h)' = << >>
      BY <2>3, <1>3 DEF ListOf, relocate, locals
    <3> QED
      BY <3>1, ElemsEmpty
  <2> QED
    BY <2>1, <2>2, <2>3
<1>8. ASSUME NEW h \in Holder
      PROVE  /\ Elems(ListOf(h)') = IF b \in Elems(ListOf(h))
                                    THEN (Elems(ListOf(h)) \ {b}) \cup {nb}
                                    ELSE Elems(ListOf(h))
             /\ Distinct(ListOf(h)')
  <2>1. ListOf(h) \in Seq(Block) /\ Distinct(ListOf(h)) /\ nb \notin Elems(ListOf(h))
    BY <1>2, ListKinds DEF NoDup, Holders
  <2> QED
    BY <2>1, <1>1, <1>7, ElemsReplace
<1>9. ASSUME NEW c \in Block
      PROVE  Holders(c)' = IF c = b THEN {} ELSE IF c = nb THEN Holders(b) ELSE Holders(c)
  <2>1. CASE c = b
    BY <2>1, <1>1, <1>8 DEF Holders
  <2>2. CASE c = nb
    BY <2>2, <1>1, <1>2, <1>8 DEF Holders
  <2>3. CASE c # b /\ c # nb
    BY <2>3, <1>8 DEF Holders
  <2> QED
    BY <2>1, <2>2, <2>3, <1>1
<1>10. NoDup'
  BY <1>8 DEF NoDup
<1>11. /\ live' = (live \ {b}) \cup {nb}
       /\ refcount'[nb] = refcount[b]
       /\ \A c \in live : c # b => refcount'[c] = refcount[c]
  BY <1>1 DEF relocate, Put, Pop, live
<1>12. RefsExact'
  BY <1>1, <1>9, <1>11 DEF RefsExact
<1> QED
  BY <1>1, <1>2, <1>5, <1>9, <1>10, <1>12

\* Adoption: the copied tail leaves the table for the list to drop, the kept
\* blocks go from the chosen branch to the table, the rest is to be dropped.
LEMMA AdoptStep ==
  ASSUME TypeOK, TypeOK', NoDup, RefsExact, ScratchPrivate, CallConsistent,
         NEW s \in Seqs, NEW replace_tail \in BOOLEAN, NEW x \in Slot,
         NEW keep \in 1 .. MaxNew, spec_round_adopt(s, replace_tail, x, keep)
  PROVE  /\ \A b \in Block :
              \/ Holders(b)' = Holders(b) /\ x \notin Holders(b)
              \/ Holders(b) = {x} /\ Holders(b)' \in {{s}, {-1}}
              \/ /\ s \in Holders(b) /\ -1 \notin Holders(b) /\ x \notin Holders(b)
                 /\ Holders(b)' = (Holders(b) \ {s}) \cup {-1}
         /\ NoDup' /\ RefsExact'
<1> DEFINE t == tables[s]
           base == IF replace_tail THEN SubSeq(t, 1, Len(t) - 1) ELSE t
           tail == IF replace_tail THEN <<t[Len(t)]>> ELSE << >>
           kept == SubSeq(scratch[x], 1, keep)
           rest == SubSeq(scratch[x], keep + 1, Len(scratch[x]))
<1>1. /\ s \in DOMAIN tables
      /\ tables' = [tables EXCEPT ![s] = base \o kept]
      /\ todo' = tail \o rest
      /\ scratch' = [scratch EXCEPT ![x] = << >>]
      /\ keep <= Len(scratch[x]) /\ (replace_tail => Len(t) > 0)
      /\ got' = got /\ refcount' = refcount /\ call = "none"
  BY DEF spec_round_adopt
<1>2. todo = << >>
  BY <1>1 DEF CallConsistent
<1>3. /\ t \in Seq(Block) /\ Distinct(t)
      /\ scratch[x] \in Seq(Block) /\ Distinct(scratch[x])
      /\ ListOf(s) = t /\ ListOf(x) = scratch[x] /\ ListOf(-1) = << >>
  <2>1. ListOf(s) = t /\ ListOf(x) = scratch[x] /\ ListOf(-1) = << >>
    BY <1>1, <1>2, ListKinds
  <2>2. ListOf(s) \in Seq(Block) /\ ListOf(x) \in Seq(Block)
    BY ListKinds, HolderKinds
  <2>3. Distinct(ListOf(s)) /\ Distinct(ListOf(x))
    BY HolderKinds DEF NoDup
  <2> HIDE DEF t
  <2> QED
    BY <2>1, <2>2, <2>3
<1>4. keep \in 0 .. Len(scratch[x])
  BY <1>1, <1>3
<1>5. /\ kept \in Seq(Block) /\ rest \in Seq(Block)
      /\ Distinct(kept) /\ Distinct(rest)
      /\ Elems(kept) \cup Elems(rest) = Elems(scratch[x])
      /\ Elems(kept) \cap Elems(rest) = {}
  BY <1>3, <1>4, ElemsSplit
<1>6. /\ base \in Seq(Block) /\ tail \in Seq(Block)
      /\ Distinct(base) /\ Distinct(tail)
      /\ Elems(base) \cup Elems(tail) = Elems(t)
      /\ Elems(base) \cap Elems(tail) = {}
  <2>1. CASE replace_tail
    <3>1. base = SubSeq(t, 1, Len(t) - 1) /\ tail = <<t[Len(t)]>> /\ Len(t) > 0
      BY <1>1, <2>1
    <3>2. t[Len(t)] \in Block
      BY <1>3, <3>1, ElemsLast
    <3> HIDE DEF base, tail, t
    <3>3. tail \in Seq(Block)
      BY <3>1, <3>2
    <3>4. Elems(tail) = {t[Len(t)]} /\ Distinct(tail)
      BY <3>1, ElemsSingleton
    <3>5. /\ base \in Seq(Block) /\ Distinct(base) /\ Elems(base) = Elems(t) \ {t[Len(t)]}
          /\ t[Len(t)] \in Elems(t)
      BY <1>3, <3>1, ElemsLast
    <3> QED
      BY <3>3, <3>4, <3>5
  <2>2. CASE ~ replace_tail
    <3>1. base = t /\ tail = << >>
      BY <2>2
    <3> HIDE DEF base, tail, t
    <3> QED
      BY <3>1, <1>3, ElemsEmpty
  <2> QED
    BY <2>1, <2>2
<1> HIDE DEF t, base, tail, kept, rest
<1>7. \A b \in Block : b \in Elems(scratch[x]) => Holders(b) = {x}
  BY DEF ScratchPrivate
<1>8. s \in Holder /\ x \in Holder /\ -1 \in Holder /\ s # x /\ s # -1 /\ x # -1
  BY HolderKinds
<1>9. Elems(t) \cap Elems(scratch[x]) = {}
  BY <1>3, <1>7, <1>8, ListKinds DEF Holders, ScratchPrivate
<1>10. /\ Elems(base \o kept) = Elems(base) \cup Elems(kept) /\ Distinct(base \o kept)
       /\ Elems(tail \o rest) = Elems(tail) \cup Elems(rest) /\ Distinct(tail \o rest)
  BY <1>5, <1>6, <1>9, ElemsConcat
<1>11. /\ ListOf(s)' = base \o kept /\ ListOf(-1)' = tail \o rest /\ ListOf(x)' = << >>
       /\ \A h \in Holder \ {s, x, -1} : ListOf(h)' = ListOf(h)
  <2>1. s \in DOMAIN tables' /\ tables'[s] = base \o kept
    BY <1>1 DEF TypeOK
  <2>2. scratch'[x] = << >>
    BY <1>1 DEF TypeOK
  <2>3. \A h \in Holder \ {s, x, -1} : ListOf(h)' = ListOf(h)
    BY <1>1 DEF ListOf, TypeOK
  <2> QED
    BY <1>1, <2>1, <2>2, <2>3, ListKindsPrime
<1>12. NoDup'
  BY <1>8, <1>10, <1>11, ElemsEmpty DEF NoDup
<1>13. ASSUME NEW b \in Block
       PROVE  \/ Holders(b)' = Holders(b) /\ x \notin Holders(b)
              \/ Holders(b) = {x} /\ Holders(b)' \in {{s}, {-1}}
              \/ /\ s \in Holders(b) /\ -1 \notin Holders(b) /\ x \notin Holders(b)
                 /\ Holders(b)' = (Holders(b) \ {s}) \cup {-1}
  <2>0. /\ s \in Holders(b) <=> b \in Elems(t)
        /\ x \in Holders(b) <=> b \in Elems(scratch[x])
        /\ -1 \notin Holders(b)
        /\ s \in Holders(b)' <=> b \in Elems(base) \cup Elems(kept)
        /\ -1 \in Holders(b)' <=> b \in Elems(tail) \cup Elems(rest)
        /\ x \notin Holders(b)'
        /\ \A h \in Holder \ {s, x, -1} : h \in Holders(b)' <=> h \in Holders(b)
        /\ Holders(b) \subseteq Holder /\ Holders(b)' \subseteq Holder
    BY <1>3, <1>8, <1>10, <1>11, ElemsEmpty DEF Holders
  <2>1. CASE b \in Elems(kept)
    <3>1. Holders(b) = {x}
      BY <2>1, <1>5, <1>7
    <3>2. Holders(b)' = {s}
      BY <2>0, <2>1, <3>1, <1>5, <1>6, <1>8, <1>9
    <3> QED
      BY <3>1, <3>2
  <2>2. CASE b \in Elems(rest)
    <3>1. Holders(b) = {x}
      BY <2>2, <1>5, <1>7
    <3>2. Holders(b)' = {-1}
      BY <2>0, <2>2, <3>1, <1>5, <1>6, <1>8, <1>9
    <3> QED
      BY <3>1, <3>2
  <2>3. CASE b \in Elems(tail)
    BY <2>0, <2>3, <1>5, <1>6, <1>8, <1>9
  <2>4. CASE b \notin Elems(kept) \cup Elems(rest) \cup Elems(tail)
    <3>1. x \notin Holders(b) /\ (s \in Holders(b)' <=> s \in Holders(b)) /\ -1 \notin Holders(b)'
      BY <2>0, <2>4, <1>5, <1>6
    <3>2. \A h \in Holder : h \in Holders(b)' <=> h \in Holders(b)
      BY <2>0, <3>1
    <3> QED
      BY <2>0, <3>1, <3>2
  <2> QED
    BY <2>1, <2>2, <2>3, <2>4
<1>14. \A b \in Block : /\ Cardinality(Holders(b)') = Cardinality(Holders(b))
                        /\ Holders(b) = {} => Holders(b)' = {}
  <2> SUFFICES ASSUME NEW b \in Block
               PROVE  /\ Cardinality(Holders(b)') = Cardinality(Holders(b))
                      /\ Holders(b) = {} => Holders(b)' = {}
    OBVIOUS
  <2>1. CASE Holders(b) = {x} /\ Holders(b)' \in {{s}, {-1}}
    BY <2>1, FS_Singleton
  <2>2. CASE /\ s \in Holders(b) /\ -1 \notin Holders(b)
             /\ Holders(b)' = (Holders(b) \ {s}) \cup {-1}
    BY <2>2, SwapCard, HoldersFinite
  <2> QED
    BY <2>1, <2>2, <1>13
<1>15. RefsExact'
  BY <1>1, <1>14 DEF RefsExact, live
<1> QED
  BY <1>12, <1>13, <1>15

-----------------------------------------------------------------------------
(* The inductive invariant *)

\* RefsExact needs the shape of the lists (NoDup), the privacy of the scratch
\* lists, and the locals of the call in progress.
Core == TypeOK /\ NoDup /\ RefsExact /\ ScratchPrivate /\ CallConsistent

\* Privacy in terms of the holders of a block.
Private(h) == \A b \in Block : h \in Holders(b) => Holders(b) = {h}

PrivateFacts ==
  TypeOK => /\ ScratchPrivate <=> \A x \in Slot : Private(x)
            /\ (\A b \in Elems(got) : Holders(b) = {0}) <=> Private(0)

\* The two ways of saying that a list's blocks have no other holder agree.
LEMMA PrivateForm == PrivateFacts
<1> SUFFICES ASSUME TypeOK
             PROVE  /\ ScratchPrivate <=> \A x \in Slot : Private(x)
                    /\ (\A b \in Elems(got) : Holders(b) = {0}) <=> Private(0)
  BY DEF PrivateFacts
<1>1. ASSUME NEW h \in Holder
      PROVE  (\A b \in Elems(ListOf(h)) : Holders(b) = {h}) <=> Private(h)
  <2>1. ListOf(h) \in Seq(Block)
    BY ListKinds
  <2>2. Elems(ListOf(h)) \subseteq Block
    BY <2>1 DEF Elems
  <2>3. \A b : h \in Holders(b) <=> b \in Elems(ListOf(h))
    BY DEF Holders
  <2> QED
    BY <2>2, <2>3 DEF Private
<1> QED
  BY <1>1, ListKinds, HolderKinds DEF ScratchPrivate

\* The same, of the state after a step.
LEMMA PrivateFormPrime == PrivateFacts'
  BY PrivateForm, PTL

\* The empty allocator satisfies the inductive invariant.
LEMMA CoreInit == Init => Core
<1> SUFFICES ASSUME Init PROVE Core
  OBVIOUS
<1>1. TypeOK
  BY TypeInit
<1>2. \A h \in Holder : ListOf(h) = << >>
  BY DEF Init, ListOf
<1>3. \A b \in Block : Holders(b) = {}
  BY <1>2, ElemsEmpty DEF Holders
<1>4. NoDup /\ RefsExact
  BY <1>2, <1>3, ElemsEmpty DEF NoDup, RefsExact, Init, live
<1>5. ScratchPrivate
  BY ElemsEmpty DEF ScratchPrivate, Init
<1>6. CallConsistent
  BY DEF CallConsistent, Init
<1> QED
  BY <1>1, <1>4, <1>5, <1>6 DEF Core

\* Steps after which the scratch lists are still private: their blocks have
\* the holders they had.
LEMMA StayPrivate ==
  ASSUME TypeOK, TypeOK', ScratchPrivate,
         \A x \in Slot : \A b \in Block :
            x \in Holders(b)' => x \in Holders(b) /\ Holders(b)' = Holders(b)
  PROVE  ScratchPrivate'
<1>1. \A x \in Slot : Private(x)
  BY PrivateForm DEF PrivateFacts
<1>2. \A x \in Slot : Private(x)'
  BY <1>1 DEF Private
<1> QED
  BY <1>2, PrivateFormPrime DEF PrivateFacts

\* Steps of the abstract pool, from what happens to the holders.
LEMMA PoolGrab ==
  ASSUME NEW b \in Block, NEW h \in Holder, Holders(b) = {}, Holders(b)' = {h},
         \A c \in Block \ {b} : Holders(c)' = Holders(c)
  PROVE  Pool!Next
<1>1. HolderMap' = [HolderMap EXCEPT ![b] = {h}] /\ HolderMap[b] = {}
  BY DEF HolderMap
<1> QED
  BY <1>1, Zenon DEF Pool!Next, Pool!Grab

\* A step that adds a holder to every block of another holder is a step of the
\* abstract pool (admit_shared's reference to every block of the prefix).
LEMMA PoolShare ==
  ASSUME NEW p \in Holder, NEW h \in Holder,
         \A b \in Block : /\ h \notin Holders(b)
                         /\ Holders(b)' = IF p \in Holders(b)
                                          THEN Holders(b) \cup {h} ELSE Holders(b)
  PROVE  Pool!Next
<1> DEFINE S == {b \in Block : p \in Holders(b)}
<1>1. \A b \in S : HolderMap[b] # {} /\ h \notin HolderMap[b]
  BY DEF HolderMap
<1>2. HolderMap' = [b \in Block |-> IF b \in S THEN HolderMap[b] \cup {h} ELSE HolderMap[b]]
  BY DEF HolderMap
<1>3. PICK T \in SUBSET Block : T = S
  OBVIOUS
<1>4. Pool!Share(T, h)
  BY <1>1, <1>2, <1>3 DEF Pool!Share
<1> QED
  BY <1>4 DEF Pool!Next

\* A step that takes one holder off one block is a step of the abstract pool
\* (_unref).
LEMMA PoolDrop ==
  ASSUME NEW d \in Block, NEW h \in Holder, h \in Holders(d),
         \A b \in Block : Holders(b)' = IF b = d THEN Holders(b) \ {h} ELSE Holders(b)
  PROVE  Pool!Next
<1>1. h \in HolderMap[d] /\ HolderMap' = [HolderMap EXCEPT ![d] = @ \ {h}]
  BY DEF HolderMap
<1> QED
  BY <1>1 DEF Pool!Next, Pool!Drop

\* A step that hands all holders of a block to a free block is a step of the
\* abstract pool (relocate).
LEMMA PoolMove ==
  ASSUME NEW b \in Block, NEW nb \in Block, b # nb, Holders(b) # {}, Holders(nb) = {},
         \A c \in Block : Holders(c)' = IF c = b THEN {} ELSE IF c = nb THEN Holders(b)
                                                            ELSE Holders(c)
  PROVE  Pool!Next
<1>1. /\ HolderMap[b] # {} /\ HolderMap[nb] = {}
      /\ HolderMap' = [HolderMap EXCEPT ![b] = {}, ![nb] = HolderMap[b]]
  BY DEF HolderMap
<1> QED
  BY <1>1 DEF Pool!Next, Pool!Move

\* A step in which one holder passes some of its blocks on, reference for
\* reference, is a step of the abstract pool (a call's locals become a table).
LEMMA PoolPass ==
  ASSUME \A b \in Block :
            \/ Holders(b)' = Holders(b)
            \/ \E h \in Holders(b), g \in Holder \ Holders(b) :
                  Holders(b)' = (Holders(b) \ {h}) \cup {g}
  PROVE  Pool!Next
<1>1. HolderMap' \in [Block -> SUBSET Holder]
  BY DEF HolderMap, Holders
<1>2. \A b \in Block : HolderMap'[b] = Holders(b)' /\ HolderMap[b] = Holders(b)
  BY DEF HolderMap
<1>3. Pool!Pass
  BY <1>1, <1>2 DEF Pool!Pass
<1> QED
  BY <1>3 DEF Pool!Next

\* Every step of the allocator keeps the invariant, and is a step of the
\* abstract pool of holders.
LEMMA CoreNext == Core /\ [Next]_vars => Core' /\ Pool!Next
<1> SUFFICES ASSUME Core, [Next]_vars PROVE Core' /\ Pool!Next
  OBVIOUS
<1>0. TypeOK /\ NoDup /\ RefsExact /\ ScratchPrivate /\ CallConsistent
  BY DEF Core
<1>t. TypeOK'
  BY <1>0, TypeNext
<1>p. /\ \A x \in Slot : Private(x)
      /\ call = "scratch" => Private(0)
  BY <1>0, PrivateForm DEF PrivateFacts, CallConsistent
<1> USE <1>0, <1>t
<1>1. ASSUME NEW s \in Seqs, NEW n \in 1 .. MaxNew, admit(s, n, num_free)
      PROVE  Core' /\ Pool!Next
  <2>1. \A h \in Holder : ListOf(h)' = ListOf(h)
    BY <1>1 DEF admit, ListOf
  <2>2. NoDup' /\ RefsExact' /\ \A b \in Block : Holders(b)' = Holders(b)
    BY <1>1, <2>1, SameLists DEF admit
  <2>3. ScratchPrivate'
    BY <2>2, StayPrivate
  <2>4. CallConsistent'
    BY <1>1 DEF admit, CallConsistent
  <2>5. Pool!Next
    BY <2>2, PoolPass
  <2> QED
    BY <2>2, <2>3, <2>4, <2>5 DEF Core
<1>2. ASSUME NEW s \in Seqs, NEW p \in Seqs, NEW n \in 0 .. MaxNew,
             p \in DOMAIN tables, admit_shared(s, tables[p], n, num_free)
      PROVE  Core' /\ Pool!Next
  <2>1. got = << >> /\ todo = << >>
    BY <1>2 DEF admit_shared, CallConsistent
  <2>2. ListOf(p) = tables[p] /\ ListOf(0) = << >> /\ p # 0 /\ p \in Holder /\ 0 \in Holder
    BY <1>2, <2>1, ListKinds, HolderKinds
  <2>3. ListOf(0)' = ListOf(p)
    BY <1>2, <2>2, ListKindsPrime DEF admit_shared
  <2>4. \A k \in Holder \ {0} : ListOf(k)' = ListOf(k)
    BY <1>2 DEF admit_shared, ListOf
  <2>5. Addref(Elems(ListOf(p)))
    BY <1>2, <2>2 DEF admit_shared
  <2>6. /\ NoDup' /\ RefsExact'
        /\ \A b \in Block : /\ 0 \notin Holders(b)
                            /\ Holders(b)' = IF p \in Holders(b)
                                             THEN Holders(b) \cup {0} ELSE Holders(b)
    BY <2>2, <2>3, <2>4, <2>5, ShareStep
  <2>7. \A x \in Slot : \A b \in Block :
            x \in Holders(b)' => x \in Holders(b) /\ Holders(b)' = Holders(b)
    BY <2>6, <1>p, HolderKinds DEF Private
  <2>8. CallConsistent'
    BY <1>2, <2>1 DEF admit_shared, CallConsistent
  <2>9. Pool!Next
    BY <2>2, <2>6, PoolShare
  <2> QED
    BY <2>6, <2>7, <2>8, <2>9, StayPrivate DEF Core
<1>3. ASSUME NEW s \in Seqs, NEW x \in Slot, NEW n \in 1 .. MaxNew,
             alloc_scratch(s, x, n, num_free)
      PROVE  Core' /\ Pool!Next
  <2>1. \A h \in Holder : ListOf(h)' = ListOf(h)
    BY <1>3 DEF alloc_scratch, ListOf
  <2>2. NoDup' /\ RefsExact' /\ \A b \in Block : Holders(b)' = Holders(b)
    BY <1>3, <2>1, SameLists DEF alloc_scratch
  <2>3. ScratchPrivate'
    BY <2>2, StayPrivate
  <2>4. CallConsistent'
    BY <1>3, ElemsEmpty DEF alloc_scratch, CallConsistent
  <2>5. Pool!Next
    BY <2>2, PoolPass
  <2> QED
    BY <2>2, <2>3, <2>4, <2>5 DEF Core
<1>4. ASSUME NEW b \in Free, alloc_next(b) PROVE Core' /\ Pool!Next
  <2>1. ListOf(0) = got /\ ListOf(0)' = Append(got, b) /\ 0 \in Holder
    BY <1>4, ListKinds, ListKindsPrime, HolderKinds DEF alloc_next
  <2>2. \A k \in Holder \ {0} : ListOf(k)' = ListOf(k)
    BY <1>4 DEF alloc_next, ListOf
  <2>3. refcount' = Put(refcount, b, 1)
    BY <1>4 DEF alloc_next, Alloc
  <2>4. /\ NoDup' /\ RefsExact' /\ Holders(b) = {} /\ Holders(b)' = {0}
        /\ \A c \in Block \ {b} : Holders(c)' = Holders(c)
    BY <2>1, <2>2, <2>3, GrabStep
  <2>5. ScratchPrivate'
    BY <2>4, StayPrivate, HolderKinds
  <2>6. call = "scratch" => Private(0)'
    BY <2>4, <1>p DEF Private
  <2>7. call = "scratch" => \A c \in Elems(got') : Holders(c)' = {0}
    BY <2>6, PrivateFormPrime DEF PrivateFacts
  <2>8. CallConsistent'
    BY <1>4, <2>7 DEF alloc_next, CallConsistent
  <2>9. b \in Block
    BY DEF Free
  <2>10. Pool!Next
    BY <2>1, <2>4, <2>9, PoolGrab
  <2> QED
    BY <2>4, <2>5, <2>8, <2>10 DEF Core
<1>5. ASSUME admit_return PROVE Core' /\ Pool!Next
  <2>1. PICK g \in Seqs : g = cur
    BY <1>5 DEF admit_return, CallConsistent
  <2>2. ListOf(0) = got /\ ListOf(0)' = << >> /\ 0 \in Holder /\ g \in Holder /\ g # 0
    BY <1>5, ListKinds, ListKindsPrime, HolderKinds DEF admit_return
  <2>3. ListOf(g) = << >>
    BY <1>5, <2>1, ListKinds DEF admit_return, CallConsistent
  <2>4. ListOf(g)' = got
    BY <1>5, <2>1, ListKindsPrime DEF admit_return, Put
  <2>5. \A h \in Holder \ {0, g} : ListOf(h)' = ListOf(h)
    BY <1>5, <2>1 DEF admit_return, ListOf, Put
  <2>6. refcount' = refcount
    BY <1>5 DEF admit_return
  <2>7. /\ NoDup' /\ RefsExact'
        /\ \A b \in Block : /\ g \notin Holders(b)
                            /\ Holders(b)' = IF 0 \in Holders(b)
                                             THEN (Holders(b) \ {0}) \cup {g} ELSE Holders(b)
    BY <2>2, <2>3, <2>4, <2>5, <2>6, PassStep
  <2>8. \A x \in Slot : \A b \in Block :
            x \in Holders(b)' => x \in Holders(b) /\ Holders(b)' = Holders(b)
    BY <2>7, <1>p, HolderKinds DEF Private
  <2>9. CallConsistent'
    BY <1>5 DEF admit_return, CallConsistent
  <2>10. Pool!Next
    BY <2>2, <2>7, PoolPass
  <2> QED
    BY <2>7, <2>8, <2>9, <2>10, StayPrivate DEF Core
<1>6. ASSUME scratch_return PROVE Core' /\ Pool!Next
  <2>1. PICK g \in Slot : g = slot
    BY <1>6 DEF scratch_return, CallConsistent
  <2>2. ListOf(0) = got /\ ListOf(0)' = << >> /\ 0 \in Holder /\ g \in Holder /\ g # 0
    BY <1>6, ListKinds, ListKindsPrime, HolderKinds DEF scratch_return
  <2>3. ListOf(g) = << >>
    BY <1>6, <2>1, ListKinds DEF scratch_return, CallConsistent
  <2>4. ListOf(g)' = got
    BY <1>6, <2>1, ListKindsPrime DEF scratch_return, TypeOK
  <2>5. \A h \in Holder \ {0, g} : ListOf(h)' = ListOf(h)
    BY <1>6, <2>1 DEF scratch_return, ListOf, TypeOK
  <2>6. refcount' = refcount
    BY <1>6 DEF scratch_return
  <2>7. /\ NoDup' /\ RefsExact'
        /\ \A b \in Block : /\ g \notin Holders(b)
                            /\ Holders(b)' = IF 0 \in Holders(b)
                                             THEN (Holders(b) \ {0}) \cup {g} ELSE Holders(b)
    BY <2>2, <2>3, <2>4, <2>5, <2>6, PassStep
  <2>8. Private(0)
    BY <1>6, <1>p DEF scratch_return
  <2>9. ASSUME NEW x \in Slot, NEW b \in Block, x \in Holders(b)'
        PROVE  Holders(b)' = {x}
    <3>1. CASE 0 \in Holders(b)
      BY <3>1, <2>7, <2>8, <2>9 DEF Private
    <3>2. CASE 0 \notin Holders(b)
      BY <3>2, <2>7, <2>9, <1>p DEF Private
    <3> QED
      BY <3>1, <3>2
  <2>10. ScratchPrivate'
    <3>1. \A x \in Slot : Private(x)'
      BY <2>9 DEF Private
    <3> QED
      BY <3>1, PrivateFormPrime DEF PrivateFacts
  <2>11. CallConsistent'
    BY <1>6 DEF scratch_return, CallConsistent
  <2>12. NoDup' /\ RefsExact'
    BY <2>7
  <2>13. Pool!Next
    BY <2>2, <2>7, PoolPass
  <2> QED
    BY <2>10, <2>11, <2>12, <2>13, Zenon DEF Core
<1>7. ASSUME NEW s \in Seqs, NEW b \in Free, append_block(s, b, num_free)
      PROVE  Core' /\ Pool!Next
  <2>1. s \in DOMAIN tables /\ s \in Holder
    BY <1>7, HolderKinds DEF append_block
  <2>2. ListOf(s) = tables[s]
    BY <2>1, ListKinds
  <2>3. ListOf(s)' = Append(tables[s], b)
    BY <1>7, <2>1, ListKindsPrime DEF append_block, TypeOK
  <2>4. \A k \in Holder \ {s} : ListOf(k)' = ListOf(k)
    BY <1>7 DEF append_block, ListOf, TypeOK, locals
  <2>5. refcount' = Put(refcount, b, 1)
    BY <1>7 DEF append_block, Alloc
  <2>6. /\ NoDup' /\ RefsExact' /\ Holders(b) = {} /\ Holders(b)' = {s}
        /\ \A c \in Block \ {b} : Holders(c)' = Holders(c)
    BY <2>1, <2>2, <2>3, <2>4, <2>5, GrabStep
  <2>7. ScratchPrivate'
    BY <2>6, StayPrivate, HolderKinds
  <2>8. CallConsistent'
    BY <1>7 DEF append_block, CallConsistent, locals
  <2>9. b \in Block
    BY DEF Free
  <2>10. Pool!Next
    BY <2>1, <2>6, <2>9, PoolGrab
  <2> QED
    BY <2>6, <2>7, <2>8, <2>10 DEF Core
<1>8. ASSUME NEW p \in Seqs, NEW c \in Seqs, fork(p, c) PROVE Core' /\ Pool!Next
  <2>1. p \in DOMAIN tables /\ c \notin DOMAIN tables /\ p # c /\ p \in Holder /\ c \in Holder
    BY <1>8, HolderKinds DEF fork
  <2>2. ListOf(p) = tables[p] /\ ListOf(c) = << >>
    BY <2>1, ListKinds
  <2>3. ListOf(c)' = tables[p]
    BY <1>8, ListKindsPrime DEF fork, Put
  <2>4. \A k \in Holder \ {c} : ListOf(k)' = ListOf(k)
    BY <1>8 DEF fork, Put, ListOf, locals
  <2>5. Addref(Elems(ListOf(p)))
    BY <1>8, <2>2 DEF fork
  <2>6. /\ NoDup' /\ RefsExact'
        /\ \A b \in Block : /\ c \notin Holders(b)
                            /\ Holders(b)' = IF p \in Holders(b)
                                             THEN Holders(b) \cup {c} ELSE Holders(b)
    BY <2>1, <2>2, <2>3, <2>4, <2>5, ShareStep
  <2>7. \A x \in Slot : \A b \in Block :
            x \in Holders(b)' => x \in Holders(b) /\ Holders(b)' = Holders(b)
    BY <2>6, <1>p, HolderKinds DEF Private
  <2>8. CallConsistent'
    BY <1>8 DEF fork, CallConsistent, locals
  <2>9. Pool!Next
    BY <2>1, <2>6, PoolShare
  <2> QED
    BY <2>6, <2>7, <2>8, <2>9, StayPrivate DEF Core
<1>9. ASSUME NEW x \in Slot, unref_blocks(x) PROVE Core' /\ Pool!Next
  <2>1. todo = << >>
    BY <1>9 DEF unref_blocks, CallConsistent
  <2>2. x \in Holder /\ -1 \in Holder /\ x # -1
    BY HolderKinds
  <2>3. ListOf(x) = scratch[x] /\ ListOf(-1) = << >>
    BY <2>1, ListKinds
  <2>4. ListOf(x)' = << >> /\ ListOf(-1)' = scratch[x]
    BY <1>9, ListKindsPrime DEF unref_blocks, TypeOK
  <2>5. \A h \in Holder \ {x, -1} : ListOf(h)' = ListOf(h)
    BY <1>9 DEF unref_blocks, ListOf, TypeOK
  <2>6. refcount' = refcount
    BY <1>9 DEF unref_blocks
  <2>7. /\ NoDup' /\ RefsExact'
        /\ \A b \in Block : /\ -1 \notin Holders(b)
                            /\ Holders(b)' = IF x \in Holders(b)
                                             THEN (Holders(b) \ {x}) \cup {-1} ELSE Holders(b)
    BY <2>2, <2>3, <2>4, <2>5, <2>6, PassStep
  <2>8. \A y \in Slot : \A b \in Block :
            y \in Holders(b)' => y \in Holders(b) /\ Holders(b)' = Holders(b)
    BY <2>7, <1>p, HolderKinds DEF Private
  <2>9. CallConsistent'
    BY <1>9 DEF unref_blocks, CallConsistent
  <2>10. Pool!Next
    BY <2>2, <2>7, PoolPass
  <2> QED
    BY <2>7, <2>8, <2>9, <2>10, StayPrivate DEF Core
<1>10. ASSUME NEW s \in Seqs, release(s) PROVE Core' /\ Pool!Next
  <2>1. todo = << >> /\ s \in DOMAIN tables
    BY <1>10 DEF release, CallConsistent
  <2>2. s \in Holder /\ -1 \in Holder /\ s # -1
    BY HolderKinds
  <2>3. ListOf(s) = tables[s] /\ ListOf(-1) = << >>
    BY <2>1, ListKinds
  <2>4. ListOf(s)' = << >> /\ ListOf(-1)' = tables[s]
    BY <1>10, ListKindsPrime DEF release, Pop
  <2>5. \A h \in Holder \ {s, -1} : ListOf(h)' = ListOf(h)
    BY <1>10 DEF release, ListOf, Pop
  <2>6. refcount' = refcount
    BY <1>10 DEF release
  <2>7. /\ NoDup' /\ RefsExact'
        /\ \A b \in Block : /\ -1 \notin Holders(b)
                            /\ Holders(b)' = IF s \in Holders(b)
                                             THEN (Holders(b) \ {s}) \cup {-1} ELSE Holders(b)
    BY <2>2, <2>3, <2>4, <2>5, <2>6, PassStep
  <2>8. \A x \in Slot : \A b \in Block :
            x \in Holders(b)' => x \in Holders(b) /\ Holders(b)' = Holders(b)
    BY <2>7, <1>p, HolderKinds DEF Private
  <2>9. CallConsistent'
    BY <1>10 DEF release, CallConsistent
  <2>10. Pool!Next
    BY <2>2, <2>7, PoolPass
  <2> QED
    BY <2>7, <2>8, <2>9, <2>10, StayPrivate DEF Core
<1>11. ASSUME NEW s \in Seqs, NEW replace_tail \in BOOLEAN, NEW x \in Slot,
              NEW keep \in 1 .. MaxNew, spec_round_adopt(s, replace_tail, x, keep)
       PROVE  Core' /\ Pool!Next
  <2>1. /\ NoDup' /\ RefsExact'
        /\ \A b \in Block :
              \/ Holders(b)' = Holders(b) /\ x \notin Holders(b)
              \/ Holders(b) = {x} /\ Holders(b)' \in {{s}, {-1}}
              \/ /\ s \in Holders(b) /\ -1 \notin Holders(b) /\ x \notin Holders(b)
                 /\ Holders(b)' = (Holders(b) \ {s}) \cup {-1}
    BY <1>11, AdoptStep
  <2>2. \A y \in Slot : \A b \in Block :
            y \in Holders(b)' => y \in Holders(b) /\ Holders(b)' = Holders(b)
    BY <2>1, <1>p, HolderKinds DEF Private
  <2>3. CallConsistent'
    BY <1>11 DEF spec_round_adopt, CallConsistent
  <2>4. Pool!Next
    <3> SUFFICES ASSUME NEW b \in Block
                 PROVE  \/ Holders(b)' = Holders(b)
                        \/ \E h \in Holders(b), g \in Holder \ Holders(b) :
                              Holders(b)' = (Holders(b) \ {h}) \cup {g}
      BY PoolPass
    <3>1. s \in Holder /\ x \in Holder /\ -1 \in Holder /\ x # s /\ x # -1
      BY HolderKinds
    <3>2. CASE Holders(b) = {x} /\ Holders(b)' = {s}
      BY <3>1, <3>2
    <3>3. CASE Holders(b) = {x} /\ Holders(b)' = {-1}
      BY <3>1, <3>3
    <3> QED
      BY <2>1, <3>1, <3>2, <3>3
  <2> QED
    BY <2>1, <2>2, <2>3, <2>4, StayPrivate DEF Core
<1>12. ASSUME NEW x \in Slot, adopt_next(x) PROVE Core' /\ Pool!Next
  <2>1. todo = << >>
    BY <1>12 DEF adopt_next
  <2>2. x \in Holder /\ -1 \in Holder /\ x # -1
    BY HolderKinds
  <2>3. ListOf(x) = scratch[x] /\ ListOf(-1) = << >>
    BY <2>1, ListKinds
  <2>4. ListOf(x)' = << >> /\ ListOf(-1)' = scratch[x]
    BY <1>12, ListKindsPrime DEF adopt_next, TypeOK
  <2>5. \A h \in Holder \ {x, -1} : ListOf(h)' = ListOf(h)
    BY <1>12 DEF adopt_next, ListOf, TypeOK
  <2>6. refcount' = refcount
    BY <1>12 DEF adopt_next
  <2>7. /\ NoDup' /\ RefsExact'
        /\ \A b \in Block : /\ -1 \notin Holders(b)
                            /\ Holders(b)' = IF x \in Holders(b)
                                             THEN (Holders(b) \ {x}) \cup {-1} ELSE Holders(b)
    BY <2>2, <2>3, <2>4, <2>5, <2>6, PassStep
  <2>8. \A y \in Slot : \A b \in Block :
            y \in Holders(b)' => y \in Holders(b) /\ Holders(b)' = Holders(b)
    BY <2>7, <1>p, HolderKinds DEF Private
  <2>9. CallConsistent'
    BY <1>12 DEF adopt_next, CallConsistent
  <2>10. Pool!Next
    BY <2>2, <2>7, PoolPass
  <2> QED
    BY <2>7, <2>8, <2>9, <2>10, StayPrivate DEF Core
<1>13. ASSUME unref_next PROVE Core' /\ Pool!Next
  <2>1. ListOf(-1)' = Tail(todo)
    BY <1>13, ListKindsPrime DEF unref_next
  <2>2. \A k \in Holder \ {-1} : ListOf(k)' = ListOf(k)
    BY <1>13 DEF unref_next, ListOf
  <2>3. todo # << >> /\ Unref(Head(todo))
    BY <1>13 DEF unref_next
  <2>4. /\ NoDup' /\ RefsExact'
        /\ \A b \in Block : Holders(b)' = IF b = Head(todo) THEN Holders(b) \ {-1}
                                                            ELSE Holders(b)
    BY <2>1, <2>2, <2>3, DropStep
  <2>5. \A b \in Block : b = Head(todo) => -1 \in Holders(b)
    <3>1. Head(todo) \in Elems(todo)
      BY <2>3 DEF TypeOK, Elems
    <3> QED
      BY <3>1, ListKinds, HolderKinds DEF Holders
  <2>6. \A x \in Slot : \A b \in Block :
            x \in Holders(b)' => x \in Holders(b) /\ Holders(b)' = Holders(b)
    BY <2>4, <2>5, <1>p, HolderKinds DEF Private
  <2>7. CallConsistent'
    BY <1>13 DEF unref_next, CallConsistent, TypeOK, Calls
  <2>8. PICK d \in Block : d = Head(todo)
    <3>1. todo \in Seq(Block)
      BY DEF TypeOK
    <3>2. Head(todo) \in Block
      BY <2>3, <3>1
    <3> QED
      BY <3>2
  <2>9. Pool!Next
    BY <2>4, <2>5, <2>8, HolderKinds, PoolDrop
  <2> QED
    BY <2>4, <2>6, <2>7, <2>9, StayPrivate DEF Core
<1>14. ASSUME unref_return PROVE Core' /\ Pool!Next
  <2>1. \A h \in Holder : ListOf(h)' = ListOf(h)
    BY <1>14 DEF unref_return, ListOf
  <2>2. NoDup' /\ RefsExact' /\ \A b \in Block : Holders(b)' = Holders(b)
    BY <1>14, <2>1, SameLists DEF unref_return
  <2>3. ScratchPrivate'
    BY <2>2, StayPrivate
  <2>4. CallConsistent'
    BY <1>14 DEF unref_return, CallConsistent
  <2>5. Pool!Next
    BY <2>2, PoolPass
  <2> QED
    BY <2>2, <2>3, <2>4, <2>5 DEF Core
<1>15. ASSUME NEW b \in live, NEW nb \in Free, InTable(b), relocate(b, nb)
       PROVE  Core' /\ Pool!Next
  <2>1. /\ NoDup' /\ RefsExact' /\ b \in Block /\ nb \in Block
        /\ Holders(b) # {} /\ Holders(nb) = {} /\ b # nb
        /\ \A c \in Block : Holders(c)' = IF c = b THEN {}
                                          ELSE IF c = nb THEN Holders(b) ELSE Holders(c)
    BY <1>15, RelocateStep DEF TypeOK
  <2>2. \A x \in Slot : x \notin Holders(b)
    <3>1. PICK s \in Seqs : s \in DOMAIN tables /\ b \in Elems(tables[s])
      BY <1>15 DEF InTable, TypeOK
    <3>2. s \in Holders(b)
      BY <3>1, ListKinds, HolderKinds DEF Holders
    <3> QED
      BY <2>1, <3>2, <1>p, HolderKinds DEF Private
  <2>3. \A x \in Slot : \A c \in Block :
            x \in Holders(c)' => x \in Holders(c) /\ Holders(c)' = Holders(c)
    BY <2>1, <2>2
  <2>4. CallConsistent'
    BY <1>15 DEF relocate, CallConsistent, locals
  <2>5. Pool!Next
    BY <2>1, PoolMove
  <2> QED
    BY <2>1, <2>3, <2>4, <2>5, StayPrivate DEF Core
<1>16. ASSUME UNCHANGED vars PROVE Core' /\ Pool!Next
  <2>1. \A h \in Holder : ListOf(h)' = ListOf(h)
    BY <1>16 DEF vars, locals, ListOf
  <2>2. NoDup' /\ RefsExact' /\ \A b \in Block : Holders(b)' = Holders(b)
    BY <1>16, <2>1, SameLists DEF vars
  <2>3. ScratchPrivate'
    BY <2>2, StayPrivate
  <2>4. call' = call /\ got' = got /\ todo' = todo /\ left' = left /\ cur' = cur
        /\ slot' = slot /\ scratch' = scratch /\ tables' = tables
    BY <1>16 DEF vars, locals
  <2>5. call = "scratch" => \A b \in Elems(got) : Holders(b)' = {0}
    <3>1. call = "scratch" => Private(0)'
      BY <2>2, <1>p DEF Private
    <3> QED
      BY <3>1, <2>4, PrivateFormPrime DEF PrivateFacts
  <2>6. CallConsistent'
    BY <2>4, <2>5 DEF CallConsistent
  <2>7. Pool!Next
    BY <2>2, PoolPass
  <2> QED
    BY <2>2, <2>3, <2>6, <2>7 DEF Core
<1> QED
  BY <1>1, <1>2, <1>3, <1>4, <1>5, <1>6, <1>7, <1>8, <1>9, <1>10, <1>11,
     <1>12, <1>13, <1>14, <1>15, <1>16 DEF Next

-----------------------------------------------------------------------------
(* Counting: gate 5, and room for the call in progress *)

Counts == Conservation /\ RoomForCall

\* The live blocks are finite in number, so num_live is a count.
LEMMA LiveFinite == TypeOK => IsFiniteSet(live) /\ num_live \in Nat
<1>1. IsFiniteSet(Block)
  BY FS_Interval DEF Block
<1> QED
  BY <1>1, FS_Subset, FS_CardinalityType DEF TypeOK, num_live

\* The empty allocator satisfies the counting invariants.
LEMMA CountsInit == Init => Counts
  BY FS_EmptySet DEF Init, Counts, Conservation, RoomForCall, num_live, live

\* Every step keeps the counting invariants: allocated minus freed is live, and
\* the call in progress finds the room that it checked for.
LEMMA CountsNext == Core /\ Counts /\ [Next]_vars => Counts'
<1> SUFFICES ASSUME Core, Counts, [Next]_vars PROVE Counts'
  OBVIOUS
<1>0. TypeOK /\ CallConsistent /\ RefsExact /\ NoDup
  BY DEF Core
<1>f. IsFiniteSet(live) /\ num_live \in Nat
  BY <1>0, LiveFinite
\* Steps that keep the live blocks, the counters, and start no allocation.
<1>s. ASSUME live' = live, allocated_total' = allocated_total,
             freed_total' = freed_total,
             call' \in {"admit", "scratch"} => left' <= num_free
      PROVE  Counts'
  BY <1>s DEF Counts, Conservation, RoomForCall, num_free, num_live
<1>a. ASSUME NEW b \in Free, Alloc(b)
      PROVE  num_live' = num_live + 1 /\ allocated_total' = allocated_total + 1
  <2>1. live' = live \cup {b} /\ b \notin live
    BY <1>a DEF Alloc, Put, live, Free
  <2> QED
    BY <1>a, <1>f, <2>1, FS_AddElement DEF Alloc, num_live
<1>1. ASSUME NEW s \in Seqs, NEW n \in 1 .. MaxNew, admit(s, n, num_free)
      PROVE  Counts'
  BY <1>1, <1>s, <1>f DEF admit, live, num_free
<1>2. ASSUME NEW s \in Seqs, NEW p \in Seqs, NEW n \in 0 .. MaxNew,
             p \in DOMAIN tables, admit_shared(s, tables[p], n, num_free)
      PROVE  Counts'
  BY <1>2, <1>s, <1>f DEF admit_shared, Addref, live, num_free
<1>3. ASSUME NEW s \in Seqs, NEW x \in Slot, NEW n \in 1 .. MaxNew,
             alloc_scratch(s, x, n, num_free)
      PROVE  Counts'
  BY <1>3, <1>s, <1>f DEF alloc_scratch, live, num_free
<1>4. ASSUME NEW b \in Free, alloc_next(b) PROVE Counts'
  <2>1. num_live' = num_live + 1 /\ allocated_total' = allocated_total + 1
    BY <1>4, <1>a DEF alloc_next
  <2>2. left' = left - 1 /\ call' = call /\ freed_total' = freed_total
        /\ call \in {"admit", "scratch"}
    BY <1>4 DEF alloc_next
  <2>3. Conservation'
    BY <1>0, <1>f, <2>1, <2>2 DEF Counts, Conservation, TypeOK
  <2>4. left <= NumBlocks - num_live /\ left \in Nat
    BY <1>0, <2>2 DEF Counts, RoomForCall, num_free, TypeOK
  <2>5. left' <= NumBlocks - num_live'
    BY <1>f, <2>1, <2>2, <2>4
  <2> QED
    BY <2>3, <2>5 DEF Counts, RoomForCall, num_free
<1>5. ASSUME admit_return PROVE Counts'
  BY <1>5, <1>s DEF admit_return, live
<1>6. ASSUME scratch_return PROVE Counts'
  BY <1>6, <1>s DEF scratch_return, live
<1>7. ASSUME NEW s \in Seqs, NEW b \in Free, append_block(s, b, num_free)
      PROVE  Counts'
  <2>1. num_live' = num_live + 1 /\ allocated_total' = allocated_total + 1
    BY <1>7, <1>a DEF append_block
  <2>2. call' = "none" /\ freed_total' = freed_total
    BY <1>7 DEF append_block
  <2> QED
    BY <1>0, <1>f, <2>1, <2>2 DEF Counts, Conservation, RoomForCall, TypeOK
<1>8. ASSUME NEW p \in Seqs, NEW c \in Seqs, fork(p, c) PROVE Counts'
  BY <1>8, <1>s DEF fork, Addref, live
<1>9. ASSUME NEW x \in Slot, unref_blocks(x) PROVE Counts'
  BY <1>9, <1>s DEF unref_blocks, live
<1>10. ASSUME NEW s \in Seqs, release(s) PROVE Counts'
  BY <1>10, <1>s DEF release, live
<1>11. ASSUME NEW s \in Seqs, NEW replace_tail \in BOOLEAN, NEW x \in Slot,
              NEW keep \in 1 .. MaxNew, spec_round_adopt(s, replace_tail, x, keep)
       PROVE  Counts'
  BY <1>11, <1>s DEF spec_round_adopt, live
<1>12. ASSUME NEW x \in Slot, adopt_next(x) PROVE Counts'
  BY <1>12, <1>s DEF adopt_next, live
<1>13. ASSUME unref_next PROVE Counts'
  <2>1. call' = call /\ left' = left /\ allocated_total' = allocated_total
        /\ todo # << >> /\ Unref(Head(todo))
    BY <1>13 DEF unref_next
  <2>2. call \notin {"admit", "scratch"}
    BY <1>0, <2>1 DEF CallConsistent
  <2>3. PICK d \in Block : d = Head(todo)
    BY <1>0, <2>1 DEF TypeOK
  <2>4. d \in live
    <3>1. d \in Elems(todo)
      BY <1>0, <2>1, <2>3 DEF TypeOK, Elems
    <3>2. -1 \in Holders(d)
      BY <1>0, <3>1, ListKinds, HolderKinds DEF Holders
    <3> QED
      BY <1>0, <3>2 DEF RefsExact
  <2>5. CASE refcount[d] = 1
    <3>1. live' = live \ {d} /\ freed_total' = freed_total + 1
      BY <2>1, <2>3, <2>5 DEF Unref, Pop, live
    <3>2. num_live' = num_live - 1
      BY <3>1, <2>4, <1>f, FS_RemoveElement DEF num_live
    <3> QED
      BY <1>0, <1>f, <2>1, <2>2, <3>1, <3>2
         DEF Counts, Conservation, RoomForCall, TypeOK
  <2>6. CASE refcount[d] # 1
    <3>1. live' = live /\ freed_total' = freed_total
      BY <2>1, <2>3, <2>6 DEF Unref, live
    <3> QED
      BY <1>s, <2>1, <2>2, <3>1
  <2> QED
    BY <2>5, <2>6
<1>14. ASSUME unref_return PROVE Counts'
  BY <1>14, <1>s DEF unref_return, live
<1>15. ASSUME NEW b \in live, NEW nb \in Free, InTable(b), relocate(b, nb)
       PROVE  Counts'
  <2>1. live' = (live \ {b}) \cup {nb} /\ nb \notin live
    BY <1>15 DEF relocate, Put, Pop, Free, live
  <2>2. num_live' = num_live
    BY <2>1, <1>f, SwapCard DEF num_live
  <2>3. call' = "none" /\ allocated_total' = allocated_total /\ freed_total' = freed_total
    BY <1>15 DEF relocate
  <2> QED
    BY <2>2, <2>3 DEF Counts, Conservation, RoomForCall
<1>16. ASSUME UNCHANGED vars PROVE Counts'
  BY <1>16, <1>s DEF vars, locals, live, Counts, RoomForCall
<1> QED
  BY <1>1, <1>2, <1>3, <1>4, <1>5, <1>6, <1>7, <1>8, <1>9, <1>10, <1>11,
     <1>12, <1>13, <1>14, <1>15, <1>16 DEF Next

-----------------------------------------------------------------------------
(* The theorems *)

\* The type invariant of the allocator's state.
THEOREM TypeCorrect == Spec => []TypeOK
<1>1. Core => TypeOK
  BY DEF Core
<1>2. Core /\ [Next]_vars => Core'
  BY CoreNext
<1> QED
  BY CoreInit, <1>1, <1>2, PTL DEF Spec

\* For every pool and every order of calls the reference count of a block is
\* the number of tables and lists that hold it, and a block nobody holds is
\* not live (_alloc, _unref, admit_shared, fork, spec_round_adopt, release,
\* compact).
THEOREM RefcountsExact == Spec => []RefsExact
<1>1. Core => RefsExact
  BY DEF Core
<1>2. Core /\ [Next]_vars => Core'
  BY CoreNext
<1> QED
  BY CoreInit, <1>1, <1>2, PTL DEF Spec

\* No table and no list of the call in progress ever holds a block twice, so
\* that the loops over a table (release, admit_shared) touch each block once.
THEOREM TablesRepeatNothing == Spec => []NoDup
<1>1. Core => NoDup
  BY DEF Core
<1>2. Core /\ [Next]_vars => Core'
  BY CoreNext
<1> QED
  BY CoreInit, <1>1, <1>2, PTL DEF Spec

\* Speculative branches stay private to their caller until one is adopted.
THEOREM ScratchStaysPrivate == Spec => []ScratchPrivate
<1>1. Core => ScratchPrivate
  BY DEF Core
<1>2. Core /\ [Next]_vars => Core'
  BY CoreNext
<1> QED
  BY CoreInit, <1>1, <1>2, PTL DEF Spec

\* Gate 5 (assert_conservation) holds in every intermediate state.
THEOREM GateFive == Spec => []Conservation
<1>1. Core /\ Counts => Conservation
  BY DEF Counts
<1>2. Core /\ [Next]_vars => Core'
  BY CoreNext
<1> QED
  BY CoreInit, CountsInit, CountsNext, <1>1, <1>2, PTL DEF Spec

\* An admission that passed its check of num_free never fails half way.
THEOREM CallsFindRoom == Spec => []RoomForCall
<1>1. Core /\ Counts => RoomForCall
  BY DEF Counts
<1>2. Core /\ [Next]_vars => Core'
  BY CoreNext
<1> QED
  BY CoreInit, CountsInit, CountsNext, <1>1, <1>2, PTL DEF Spec

\* The allocator implements the abstract pool of holders: a block is handed
\* out only while nobody holds it, and no reference is lost or duplicated.
THEOREM ImplementsPool == Spec => PoolSpec
<1>1. Init => Pool!Init
  <2> SUFFICES ASSUME Init PROVE HolderMap = [b \in Block |-> {}]
    BY DEF Pool!Init
  <2>1. \A h \in Holder : ListOf(h) = << >>
    BY DEF Init, ListOf
  <2>2. \A b \in Block : Holders(b) = {}
    BY <2>1, ElemsEmpty DEF Holders
  <2> QED
    BY <2>2 DEF HolderMap
<1>2. Core /\ [Next]_vars => Core' /\ [Pool!Next]_HolderMap
  BY CoreNext
<1> QED
  BY CoreInit, <1>1, <1>2, PTL DEF Spec, PoolSpec, Pool!Spec
=============================================================================
