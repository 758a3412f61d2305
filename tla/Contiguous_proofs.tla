-------------------------- MODULE Contiguous_proofs --------------------------
(***************************************************************************)
(* Proofs about ContiguousOracle.  The properties of Contiguous are about  *)
(* cardinalities and concatenations; the invariant CInv says the same in   *)
(* terms the calls can be seen to preserve: pieces that lie beside one     *)
(* another, lists that are runs of blocks, and totals that are sums.       *)
(***************************************************************************)
EXTENDS Contiguous, Counting_proofs, SequenceTheorems, TLAPS

-----------------------------------------------------------------------------
(* Runs of blocks *)

\* The pieces of the pool: extents and spans.
Piece == [start : Block, size : 1 .. NumBlocks]

\* l is the list of the blocks from c on.
Run(l, c) == l \in Seq(Block) /\ \A i \in 1 .. Len(l) : l[i] = c + i - 1

\* A run occupies an interval of blocks, one for each entry.
LEMMA RunElems ==
  ASSUME NEW l, NEW c \in Int, Run(l, c)
  PROVE  /\ Elems(l) = c .. c + Len(l) - 1
         /\ IsFiniteSet(Elems(l)) /\ Cardinality(Elems(l)) = Len(l)
<1>1. Len(l) \in Nat /\ DOMAIN l = 1 .. Len(l)
  BY DEF Run
<1>2. Elems(l) = c .. c + Len(l) - 1
  <2>1. ASSUME NEW b \in c .. c + Len(l) - 1 PROVE b \in Elems(l)
    <3>1. b - c + 1 \in 1 .. Len(l) /\ l[b - c + 1] = b
      BY <1>1 DEF Run
    <3> QED
      BY <1>1, <3>1 DEF Elems
  <2>2. ASSUME NEW b \in Elems(l) PROVE b \in c .. c + Len(l) - 1
    BY <1>1 DEF Elems, Run
  <2> QED
    BY <2>1, <2>2
<1>3. PICK d \in Int : d = c + Len(l) - 1
  BY <1>1
<1>4. IsFiniteSet(c .. d) /\ Cardinality(c .. d) = IF c > d THEN 0 ELSE d - c + 1
  BY FS_Interval
<1>5. Cardinality(c .. d) = Len(l)
  BY <1>1, <1>3, <1>4
<1> QED
  BY <1>2, <1>3, <1>4, <1>5

\* Appending the next block keeps a run (append_block on the table).
LEMMA RunAppend ==
  ASSUME NEW l, NEW c \in Int, Run(l, c), NEW b \in Block, b = c + Len(l)
  PROVE  Run(Append(l, b), c) /\ Len(Append(l, b)) = Len(l) + 1
<1>1. l \in Seq(Block) /\ Len(l) \in Nat
  BY DEF Run
<1>2. /\ Append(l, b) \in Seq(Block)
      /\ Len(Append(l, b)) = Len(l) + 1
      /\ \A i \in 1 .. Len(l) : Append(l, b)[i] = l[i]
      /\ Append(l, b)[Len(l) + 1] = b
  BY <1>1, AppendProperties
<1>3. ASSUME NEW i \in 1 .. Len(l) + 1 PROVE Append(l, b)[i] = c + i - 1
  <2>1. CASE i \in 1 .. Len(l)
    BY <1>2, <2>1 DEF Run
  <2>2. CASE i = Len(l) + 1
    <3>1. Append(l, b)[i] = b
      BY <1>2, <2>2, Zenon
    <3> QED
      BY <1>1, <2>2, <3>1
  <2> QED
    BY <1>1, <2>1, <2>2
<1> QED
  BY <1>2, <1>3 DEF Run

\* A run without its first block is a run (append_block on the reservation).
LEMMA RunTail ==
  ASSUME NEW l, NEW c \in Int, Run(l, c), l # << >>
  PROVE  /\ Head(l) = c /\ c \in Block /\ Len(l) \in Nat \ {0}
         /\ Run(Tail(l), c + 1) /\ Len(Tail(l)) = Len(l) - 1
<1>1. l \in Seq(Block) /\ Len(l) \in Nat \ {0}
  BY DEF Run
<1>2. /\ Tail(l) \in Seq(Block) /\ Len(Tail(l)) = Len(l) - 1
      /\ \A i \in 1 .. Len(Tail(l)) : Tail(l)[i] = l[i + 1]
  BY <1>1, HeadTailProperties
<1>3. Head(l) = l[1] /\ l[1] = c /\ l[1] \in Block
  BY <1>1 DEF Run
<1>4. \A i \in 1 .. Len(Tail(l)) : Tail(l)[i] = (c + 1) + i - 1
  BY <1>1, <1>2 DEF Run
<1> QED
  BY <1>1, <1>2, <1>3, <1>4 DEF Run

\* Cutting the last n blocks off a run leaves two runs (take_scratch).
LEMMA RunCut ==
  ASSUME NEW l, NEW c \in Int, Run(l, c), NEW n \in Nat \ {0}, Len(l) >= n
  PROVE  /\ Run(SubSeq(l, 1, Len(l) - n), c)
         /\ Len(SubSeq(l, 1, Len(l) - n)) = Len(l) - n
         /\ Run(SubSeq(l, Len(l) - n + 1, Len(l)), c + (Len(l) - n))
         /\ Len(SubSeq(l, Len(l) - n + 1, Len(l))) = n
<1>1. Len(l) \in Nat /\ \A i \in 1 .. Len(l) : l[i] \in Block /\ l[i] = c + i - 1
  BY DEF Run
<1>0. Len(l) - n \in Nat
  BY <1>1
<1>2. PICK m \in Nat : m = Len(l) - n
  BY <1>0
<1>3. PICK k \in Nat : k = Len(l)
  BY <1>1
<1>4. \A i \in 1 .. m : l[i] \in Block /\ i \in 1 .. k
  BY <1>1, <1>2, <1>3
<1>5. \A i \in m + 1 .. k : l[i] \in Block
  BY <1>1, <1>2, <1>3
<1>6. PICK j \in Int : j = m + 1
  OBVIOUS
<1>10. PICK o \in Int : o = 1
  OBVIOUS
<1>7. /\ SubSeq(l, o, m) \in Seq(Block)
      /\ Len(SubSeq(l, o, m)) = IF o <= m THEN m - o + 1 ELSE 0
      /\ \A i \in 1 .. m - o + 1 : SubSeq(l, o, m)[i] = l[o + i - 1]
  BY <1>4, <1>10, SubSeqProperties
<1>8. /\ SubSeq(l, j, k) \in Seq(Block)
      /\ Len(SubSeq(l, j, k)) = IF j <= k THEN k - j + 1 ELSE 0
      /\ \A i \in 1 .. k - j + 1 : SubSeq(l, j, k)[i] = l[j + i - 1]
  BY <1>5, <1>6, SubSeqProperties
<1>9. k = m + n
  BY <1>2, <1>3
<1>11. Len(SubSeq(l, o, m)) = m /\ Len(SubSeq(l, j, k)) = n
  BY <1>6, <1>7, <1>8, <1>9, <1>10
<1>12. ASSUME NEW i \in 1 .. m PROVE SubSeq(l, o, m)[i] = c + i - 1
  <2>1. SubSeq(l, o, m)[i] = l[i]
    BY <1>7, <1>10
  <2> QED
    BY <1>1, <1>3, <1>4, <2>1
<1>13. ASSUME NEW i \in 1 .. n PROVE SubSeq(l, j, k)[i] = (c + m) + i - 1
  <2>1. SubSeq(l, j, k)[i] = l[m + i]
    BY <1>6, <1>8, <1>9
  <2>2. m + i \in 1 .. k
    BY <1>9
  <2> QED
    BY <1>1, <1>3, <2>1, <2>2
<1>14. Run(SubSeq(l, o, m), c) /\ Run(SubSeq(l, j, k), c + m)
  BY <1>7, <1>8, <1>11, <1>12, <1>13 DEF Run
<1> QED
  BY <1>2, <1>3, <1>6, <1>10, <1>11, <1>14

\* A least element is what Min chooses.
LEMMA MinIs ==
  ASSUME NEW S, S \subseteq Int, NEW v \in S, \A y \in S : v <= y
  PROVE  Min(S) = v
<1>1. Min(S) \in S /\ \A y \in S : Min(S) <= y
  BY DEF Min
<1>2. Min(S) \in Int /\ Min(S) <= v /\ v <= Min(S)
  BY <1>1
<1> QED
  BY <1>2

-----------------------------------------------------------------------------
(* Merging extents *)

\* e and f do not touch, and do not overlap.
Between(e, f) == End(e) < f.start \/ End(f) < e.start
Beside(e, f) == End(e) <= f.start \/ End(f) <= e.start

\* x is freed among the extents E, which are apart; a and z are the bounds of
\* the extent it becomes part of.
Joins(E, x, a, z) ==
  /\ E \subseteq Piece /\ x \in Piece /\ a \in Int /\ z \in Int
  /\ \A e, f \in E : e = f \/ Between(e, f)
  /\ \A e \in E : Beside(e, x)
  /\ \/ a = x.start /\ \A e \in E : End(e) # x.start
     \/ \E e \in E : End(e) = x.start /\ a = e.start
  /\ \/ z = End(x) /\ \A e \in E : e.start # End(x)
     \/ \E e \in E : e.start = End(x) /\ z = End(e)

\* The extents that do not become part of the extent from a to z.
Kept(E, a, z) == {e \in E : End(e) < a \/ z < e.start}

\* The bounds of a piece.
LEMMA PieceFacts ==
  ASSUME NEW e \in Piece
  PROVE  /\ e.start \in Nat /\ e.size \in Nat \ {0} /\ End(e) = e.start + e.size
         /\ End(e) \in Nat /\ e.start < End(e) /\ e = Extent(e.start, End(e) - e.start)
         /\ End(e) - e.start = e.size
<1>1. e.start \in Nat /\ e.size \in Nat \ {0} /\ e = [start |-> e.start, size |-> e.size]
  BY ContiguousAssumption DEF Piece, Block
<1> QED
  BY <1>1 DEF End, Extent

\* A freed piece always joins into some bounds.
LEMMA JoinExists ==
  ASSUME NEW E, NEW x, E \subseteq Piece, x \in Piece,
         \A e, f \in E : e = f \/ Between(e, f), \A e \in E : Beside(e, x)
  PROVE  \E a, z \in Int : Joins(E, x, a, z)
<1>1. x.start \in Int /\ End(x) \in Int /\ \A e \in E : e.start \in Int /\ End(e) \in Int
  BY PieceFacts
<1>2. PICK a \in Int : \/ a = x.start /\ \A e \in E : End(e) # x.start
                       \/ \E e \in E : End(e) = x.start /\ a = e.start
  BY <1>1
<1>3. PICK z \in Int : \/ z = End(x) /\ \A e \in E : e.start # End(x)
                       \/ \E e \in E : e.start = End(x) /\ z = End(e)
  BY <1>1
<1> QED
  BY <1>2, <1>3 DEF Joins

\* Where an extent lies with respect to the freed piece.
LEMMA JoinFacts ==
  ASSUME NEW E, NEW x, NEW a \in Int, NEW z \in Int, Joins(E, x, a, z)
  PROVE  /\ a <= x.start /\ End(x) <= z
         /\ a \in Nat
         /\ \A e \in E : \/ End(e) < a
                         \/ z < e.start
                         \/ End(e) = x.start /\ e.start = a
                         \/ e.start = End(x) /\ End(e) = z
         /\ \A e \in E : End(e) = x.start => e.start = a
         /\ \A e \in E : e.start = End(x) => End(e) = z
<1>1. /\ x.start \in Nat /\ End(x) \in Nat /\ x.start < End(x)
      /\ \A e \in E : e.start \in Nat /\ End(e) \in Nat /\ e.start < End(e)
  BY PieceFacts DEF Joins
<1>2. \A e, f \in E : e = f \/ End(e) < f.start \/ End(f) < e.start
  BY DEF Joins, Between
<1>3. \A e \in E : End(e) <= x.start \/ End(x) <= e.start
  BY DEF Joins, Beside
<1>4. \/ a = x.start /\ \A e \in E : End(e) # x.start
      \/ \E e \in E : End(e) = x.start /\ a = e.start
  BY DEF Joins
<1>5. \/ z = End(x) /\ \A e \in E : e.start # End(x)
      \/ \E e \in E : e.start = End(x) /\ z = End(e)
  BY DEF Joins
<1>6. \A e \in E : End(e) = x.start => e.start = a
  BY <1>1, <1>2, <1>4
<1>7. \A e \in E : e.start = End(x) => End(e) = z
  BY <1>1, <1>2, <1>5
<1>8. a <= x.start /\ End(x) <= z /\ a \in Nat
  BY <1>1, <1>4, <1>5
<1>9. \A e \in E : End(e) < x.start => End(e) < a
  BY <1>1, <1>2, <1>4
<1>10. \A e \in E : End(x) < e.start => z < e.start
  BY <1>1, <1>2, <1>5
<1>11. ASSUME NEW e \in E
       PROVE  \/ End(e) < a
              \/ z < e.start
              \/ End(e) = x.start /\ e.start = a
              \/ e.start = End(x) /\ End(e) = z
  <2>1. CASE End(e) < x.start
    BY <1>9, <2>1
  <2>2. CASE End(e) = x.start
    BY <1>6, <2>2
  <2>3. CASE e.start = End(x)
    BY <1>7, <2>3
  <2>4. CASE End(x) < e.start
    BY <1>10, <2>4
  <2> QED
    BY <1>1, <1>3, <2>1, <2>2, <2>3, <2>4
<1> QED
  BY <1>6, <1>7, <1>8, <1>11

\* The boundaries that remain after merging.
LEMMA JoinEdges ==
  ASSUME NEW E, NEW x, NEW a \in Int, NEW z \in Int, Joins(E, x, a, z)
  PROVE  /\ Starts(E \cup {x}) \ Ends(E \cup {x}) = {e.start : e \in Kept(E, a, z)} \cup {a}
         /\ Ends(E \cup {x}) \ Starts(E \cup {x}) = {End(e) : e \in Kept(E, a, z)} \cup {z}
<1>1. /\ x.start \in Nat /\ End(x) \in Nat /\ x.start < End(x)
      /\ \A e \in E : e.start \in Nat /\ End(e) \in Nat /\ e.start < End(e)
  BY PieceFacts DEF Joins
<1>2. \A e, f \in E : e = f \/ End(e) < f.start \/ End(f) < e.start
  BY DEF Joins, Between
<1>3. \A e \in E : End(e) <= x.start \/ End(x) <= e.start
  BY DEF Joins, Beside
<1>4. /\ a <= x.start /\ End(x) <= z
      /\ \A e \in E : \/ End(e) < a
                      \/ z < e.start
                      \/ End(e) = x.start /\ e.start = a
                      \/ e.start = End(x) /\ End(e) = z
      /\ \A e \in E : End(e) = x.start => e.start = a
      /\ \A e \in E : e.start = End(x) => End(e) = z
  BY JoinFacts
<1>5. \/ a = x.start /\ \A e \in E : End(e) # x.start
      \/ \E e \in E : End(e) = x.start /\ a = e.start
  BY DEF Joins
<1>6. \/ z = End(x) /\ \A e \in E : e.start # End(x)
      \/ \E e \in E : e.start = End(x) /\ z = End(e)
  BY DEF Joins
<1>7. \A e, f \in E : e.start # End(f)
  BY <1>1, <1>2
<1>8. Starts(E \cup {x}) = {e.start : e \in E} \cup {x.start} /\ Ends(E \cup {x}) = {End(e) : e \in E} \cup {End(x)}
  BY DEF Starts, Ends
<1>9. ASSUME NEW e \in Kept(E, a, z)
      PROVE  /\ e \in E /\ e.start # End(x) /\ End(e) # x.start
             /\ \A f \in E : e.start # End(f) /\ End(e) # f.start
  <2>1. e \in E /\ (End(e) < a \/ z < e.start)
    BY DEF Kept
  <2> QED
    BY <1>1, <1>4, <1>7, <2>1
<1>10. /\ a # End(x) /\ \A f \in E : a # End(f)
       /\ a \in {e.start : e \in E} \cup {x.start}
  BY <1>1, <1>4, <1>5, <1>7
<1>11. /\ z # x.start /\ \A f \in E : z # f.start
       /\ z \in {End(e) : e \in E} \cup {End(x)}
  BY <1>1, <1>4, <1>6, <1>7
<1>12. ASSUME NEW e \in E, e \notin Kept(E, a, z), e.start # End(x) PROVE e.start = a
  BY <1>4, <1>12 DEF Kept
<1>13. ASSUME NEW e \in E, e \notin Kept(E, a, z), End(e) # x.start PROVE End(e) = z
  BY <1>4, <1>13 DEF Kept
<1>14. (\A f \in E : x.start # End(f)) => x.start = a
  BY <1>5
<1>15. (\A f \in E : End(x) # f.start) => End(x) = z
  BY <1>6
<1>16. Starts(E \cup {x}) \ Ends(E \cup {x}) = {e.start : e \in Kept(E, a, z)} \cup {a}
  BY <1>8, <1>9, <1>10, <1>12, <1>14
<1>17. Ends(E \cup {x}) \ Starts(E \cup {x}) = {End(e) : e \in Kept(E, a, z)} \cup {z}
  BY <1>8, <1>9, <1>11, <1>13, <1>15
<1> QED
  BY <1>16, <1>17

\* What merging does with a freed piece.
LEMMA MergedIs ==
  ASSUME NEW E, NEW x, NEW a \in Int, NEW z \in Int, Joins(E, x, a, z)
  PROVE  Merged(E \cup {x}) = Kept(E, a, z) \cup {Extent(a, z - a)}
<1>1. /\ x.start \in Nat /\ End(x) \in Nat /\ x.start < End(x)
      /\ \A e \in E : e.start \in Nat /\ End(e) \in Nat /\ e.start < End(e)
  BY PieceFacts DEF Joins
<1>2. \A e, f \in E : e = f \/ End(e) < f.start \/ End(f) < e.start
  BY DEF Joins, Between
<1>3. a <= x.start /\ End(x) <= z
  BY JoinFacts
<1>4. PICK K : K = Kept(E, a, z)
  OBVIOUS
<1>5. K \subseteq E /\ \A e \in K : End(e) < a \/ z < e.start
  BY <1>4 DEF Kept
<1>6. PICK U : U = {End(e) : e \in K} \cup {z}
  OBVIOUS
<1>7. /\ Starts(E \cup {x}) \ Ends(E \cup {x}) = {e.start : e \in K} \cup {a}
      /\ Ends(E \cup {x}) \ Starts(E \cup {x}) = U
  BY <1>4, <1>6, JoinEdges
<1>8. U \subseteq Int
  BY <1>1, <1>5, <1>6
<1>9. Min({y \in U : y > a}) = z
  <2>1. {y \in U : y > a} \subseteq Int /\ z \in {y \in U : y > a}
    BY <1>1, <1>3, <1>6, <1>8
  <2>2. \A e \in K : End(e) > a => z <= End(e)
    BY <1>1, <1>5
  <2>3. \A y \in {y \in U : y > a} : z <= y
    BY <1>6, <2>2
  <2> QED
    BY <2>1, <2>3, MinIs
<1>10. ASSUME NEW e \in K PROVE Min({y \in U : y > e.start}) = End(e)
  <2>1. {y \in U : y > e.start} \subseteq Int /\ End(e) \in {y \in U : y > e.start}
    BY <1>1, <1>5, <1>6, <1>8
  <2>2. \A f \in K : End(f) > e.start => End(e) <= End(f)
    BY <1>1, <1>2, <1>5
  <2>3. z > e.start => End(e) <= z
    BY <1>1, <1>3, <1>5
  <2>4. \A y \in {y \in U : y > e.start} : End(e) <= y
    BY <1>6, <2>2, <2>3
  <2> QED
    BY <2>1, <2>4, MinIs
<1>11. \A e \in K : Extent(e.start, End(e) - e.start) = e
  BY <1>5, PieceFacts DEF Joins
<1> DEFINE M(s) == Extent(s, Min({y \in U : y > s}) - s)
<1>12. Merged(E \cup {x}) = {M(s) : s \in {e.start : e \in K} \cup {a}}
  BY <1>7, Zenon DEF Merged
<1>13. M(a) = Extent(a, z - a) /\ \A e \in K : M(e.start) = e
  BY <1>9, <1>10, <1>11, Zenon
<1> HIDE DEF M
<1>14. {M(s) : s \in {e.start : e \in K} \cup {a}} = K \cup {Extent(a, z - a)}
  BY <1>13
<1> QED
  BY <1>4, <1>12, <1>14

\* The number of blocks of a piece.
Size == [e \in Piece |-> e.size]



\* Merging conserves the number of free blocks.
LEMMA MergedSum ==
  ASSUME NEW E, NEW x, NEW a \in Int, NEW z \in Int, Joins(E, x, a, z), IsFiniteSet(E), z <= NumBlocks
  PROVE  SumFunctionOnSet(Size, Merged(E \cup {x})) = SumFunctionOnSet(Size, E) + x.size
<1>1. /\ x \in Piece /\ E \subseteq Piece
      /\ x.start \in Nat /\ End(x) \in Nat /\ x.start < End(x) /\ End(x) - x.start = x.size
      /\ \A e \in E : /\ e.start \in Nat /\ End(e) \in Nat /\ e.start < End(e)
                      /\ Size[e] = End(e) - e.start
  BY PieceFacts DEF Joins, Size
<1>2. /\ a <= x.start /\ End(x) <= z /\ a \in Nat
      /\ \A e \in E : \/ End(e) < a
                      \/ z < e.start
                      \/ End(e) = x.start /\ e.start = a
                      \/ e.start = End(x) /\ End(e) = z
      /\ \A e \in E : End(e) = x.start => e.start = a
      /\ \A e \in E : e.start = End(x) => End(e) = z
  BY JoinFacts
<1>3. \A e, f \in E : e = f \/ End(e) < f.start \/ End(f) < e.start
  BY DEF Joins, Between
<1>4. PICK A : A = {e \in E : End(e) = x.start}
  OBVIOUS
<1>5. PICK B : B = {e \in E : e.start = End(x)}
  OBVIOUS
<1>6. PICK K : K = Kept(E, a, z)
  OBVIOUS
<1>7. PICK n : n = Extent(a, z - a)
  OBVIOUS
<1>8. A \subseteq E /\ B \subseteq E /\ K \subseteq E
  BY <1>4, <1>5, <1>6 DEF Kept
<1>9. IsFiniteSet(A) /\ IsFiniteSet(B) /\ IsFiniteSet(K) /\ IsFiniteSet(A \cup B)
  BY <1>8, FS_Subset, FS_Union
<1>10. E \ K = A \cup B /\ (A \cup B) \ A = B /\ A \subseteq A \cup B
  <2>1. \A e \in E : e \in K <=> ~ (e \in A \/ e \in B)
    BY <1>1, <1>2, <1>4, <1>5, <1>6 DEF Kept
  <2>2. \A e \in B : e \notin A
    BY <1>1, <1>4, <1>5
  <2> QED
    BY <1>8, <2>1, <2>2
<1>11. SumFunctionOnSet(Size, A) = x.start - a
  <2>1. CASE A = {}
    <3>1. a = x.start
      BY <1>4, <2>1 DEF Joins
    <3> QED
      BY <1>1, <2>1, <3>1, SumEmpty
  <2>2. CASE A # {}
    <3>1. PICK e \in A : TRUE
      BY <2>2
    <3>2. e \in E /\ End(e) = x.start /\ e.start = a
      BY <1>2, <1>4, <3>1
    <3>3. \A f \in A : f = e
      BY <1>1, <1>3, <1>4, <3>1
    <3>4. A = {e}
      BY <3>1, <3>3
    <3>5. Size[e] = x.start - a /\ Size[e] \in Int
      BY <1>1, <3>2
    <3> QED
      BY <3>4, <3>5, SumOne
  <2> QED
    BY <2>1, <2>2
<1>12. SumFunctionOnSet(Size, B) = z - End(x)
  <2>1. CASE B = {}
    <3>1. z = End(x)
      BY <1>5, <2>1 DEF Joins
    <3> QED
      BY <1>1, <2>1, <3>1, SumEmpty
  <2>2. CASE B # {}
    <3>1. PICK e \in B : TRUE
      BY <2>2
    <3>2. e \in E /\ End(e) = z /\ e.start = End(x)
      BY <1>2, <1>5, <3>1
    <3>3. \A f \in B : f = e
      BY <1>1, <1>3, <1>5, <3>1
    <3>4. B = {e}
      BY <3>1, <3>3
    <3>5. Size[e] = z - End(x) /\ Size[e] \in Int
      BY <1>1, <3>2
    <3> QED
      BY <3>4, <3>5, SumOne
  <2> QED
    BY <2>1, <2>2
<1>13. \A e \in E : Size[e] \in Int
  BY <1>1
<1>14. SumFunctionOnSet(Size, E) = SumFunctionOnSet(Size, K) + SumFunctionOnSet(Size, E \ K)
  BY <1>8, <1>13, SumSplit
<1>15. \A e \in A \cup B : Size[e] \in Int
  BY <1>8, <1>13
<1>16. SumFunctionOnSet(Size, A \cup B) = SumFunctionOnSet(Size, A) + SumFunctionOnSet(Size, (A \cup B) \ A)
  BY <1>9, <1>10, <1>15, SumSplit
<1>17. n \in Piece /\ n.start = a /\ n.size = z - a /\ Size[n] = z - a
  <2>1. a \in Block /\ z - a \in 1 .. NumBlocks
    BY <1>1, <1>2, ContiguousAssumption DEF Block
  <2> QED
    BY <1>7, <2>1 DEF Piece, Extent, Size
<1>18. n \notin K
  BY <1>1, <1>2, <1>6, <1>17 DEF Kept, End
<1>19. \A e \in K \cup {n} : Size[e] \in Int
  BY <1>8, <1>13, <1>17
<1>20. SumFunctionOnSet(Size, K \cup {n}) = Size[n] + SumFunctionOnSet(Size, K)
  BY <1>9, <1>18, <1>19, SumAdd
<1>21. SumFunctionOnSet(Size, K) \in Int
  BY <1>8, <1>9, <1>13, SumRemove
<1>22. Merged(E \cup {x}) = K \cup {n}
  BY <1>6, <1>7, MergedIs
<1>23. SumFunctionOnSet(Size, E) = SumFunctionOnSet(Size, K) + ((x.start - a) + (z - End(x)))
  BY <1>10, <1>11, <1>12, <1>14, <1>16, Zenon
<1>24. SumFunctionOnSet(Size, Merged(E \cup {x})) = (z - a) + SumFunctionOnSet(Size, K)
  BY <1>17, <1>20, <1>22, Zenon
<1> QED
  BY <1>1, <1>21, <1>23, <1>24

\* Freeing a piece beside the extents.
LEMMA MergedFrees ==
  ASSUME NEW E, NEW x, E \subseteq Piece, IsFiniteSet(E), x \in Piece, End(x) <= NumBlocks,
         \A e \in E : End(e) <= NumBlocks,
         \A e, f \in E : e = f \/ Between(e, f), \A e \in E : Beside(e, x)
  PROVE  /\ Merged(E \cup {x}) \subseteq Piece /\ IsFiniteSet(Merged(E \cup {x}))
         /\ \A e \in Merged(E \cup {x}) : End(e) <= NumBlocks
         /\ \A e, f \in Merged(E \cup {x}) : e = f \/ Between(e, f)
         /\ \A t \in Piece : Beside(x, t) /\ (\A e \in E : Beside(e, t))
                               => \A e \in Merged(E \cup {x}) : Beside(e, t)
         /\ \A b \in Int : (\E e \in E : b \in BlocksOf(e)) \/ b \in BlocksOf(x)
                               => \E e \in Merged(E \cup {x}) : b \in BlocksOf(e)
         /\ SumFunctionOnSet(Size, Merged(E \cup {x})) = SumFunctionOnSet(Size, E) + x.size
<1>0. PICK a \in Int, z \in Int : Joins(E, x, a, z)
  BY JoinExists
<1>1. /\ x.start \in Nat /\ End(x) \in Nat /\ x.start < End(x)
      /\ \A e \in E : e.start \in Nat /\ End(e) \in Nat /\ e.start < End(e)
  BY PieceFacts
<1>2. /\ a <= x.start /\ End(x) <= z /\ a \in Nat
      /\ \A e \in E : \/ End(e) < a
                      \/ z < e.start
                      \/ End(e) = x.start /\ e.start = a
                      \/ e.start = End(x) /\ End(e) = z
  BY <1>0, JoinFacts
<1>3. \A e, f \in E : e = f \/ End(e) < f.start \/ End(f) < e.start
  BY DEF Between
<1>4. /\ \/ a = x.start /\ \A e \in E : End(e) # x.start
         \/ \E e \in E : End(e) = x.start /\ a = e.start
      /\ \/ z = End(x) /\ \A e \in E : e.start # End(x)
         \/ \E e \in E : e.start = End(x) /\ z = End(e)
  BY <1>0 DEF Joins
<1>5. z <= NumBlocks
  BY <1>4
<1>6. PICK K : K = Kept(E, a, z)
  OBVIOUS
<1>7. PICK n : n = Extent(a, z - a)
  OBVIOUS
<1>8. PICK X : X = Merged(E \cup {x})
  OBVIOUS
<1>9. X = K \cup {n}
  BY <1>0, <1>6, <1>7, <1>8, MergedIs
<1>10. K \subseteq E /\ \A e \in K : End(e) < a \/ z < e.start
  BY <1>6 DEF Kept
<1>11. n \in Piece /\ n.start = a /\ n.size = z - a /\ End(n) = z
  <2>1. a \in Block /\ z - a \in 1 .. NumBlocks
    BY <1>1, <1>2, <1>5, ContiguousAssumption DEF Block
  <2> QED
    BY <1>7, <2>1 DEF Piece, Extent, End
<1>12. X \subseteq Piece /\ IsFiniteSet(X) /\ \A e \in X : End(e) <= NumBlocks
  <2>1. IsFiniteSet(K)
    BY <1>10, FS_Subset
  <2>2. IsFiniteSet(K \cup {n})
    BY <2>1, FS_AddElement
  <2> QED
    BY <1>5, <1>9, <1>10, <1>11, <2>2
<1>13. \A e, f \in X : e = f \/ Between(e, f)
  BY <1>9, <1>10, <1>11 DEF Between
<1>14. ASSUME NEW t \in Piece, Beside(x, t), \A e \in E : Beside(e, t), NEW e \in X
       PROVE  Beside(e, t)
  <2>1. t.start \in Nat /\ End(t) \in Nat /\ t.start < End(t)
    BY PieceFacts
  <2>2. \A f \in E : End(f) <= t.start \/ End(t) <= f.start
    BY <1>14 DEF Beside
  <2>3. End(x) <= t.start \/ End(t) <= x.start
    BY <1>14 DEF Beside
  <2>4. CASE End(x) <= t.start
    <3>1. z <= t.start
      BY <1>1, <1>4, <2>1, <2>2, <2>4
    <3> QED
      BY <1>9, <1>10, <1>11, <1>14, <3>1 DEF Beside
  <2>5. CASE End(t) <= x.start
    <3>1. End(t) <= a
      BY <1>1, <1>4, <2>1, <2>2, <2>5
    <3> QED
      BY <1>9, <1>10, <1>11, <1>14, <3>1 DEF Beside
  <2> QED
    BY <2>3, <2>4, <2>5
<1>15. ASSUME NEW b \in Int, (\E e \in E : b \in BlocksOf(e)) \/ b \in BlocksOf(x)
       PROVE  \E e \in X : b \in BlocksOf(e)
  <2>1. CASE a <= b /\ b < z
    BY <1>9, <1>11, <2>1 DEF BlocksOf
  <2>2. CASE ~ (a <= b /\ b < z)
    <3>1. b \notin BlocksOf(x)
      BY <1>1, <1>2, <2>2 DEF BlocksOf
    <3>2. PICK e \in E : b \in BlocksOf(e)
      BY <1>15, <3>1
    <3>3. e.start <= b /\ b < End(e)
      BY <1>1, <3>2 DEF BlocksOf
    <3>4. End(e) < a \/ z < e.start
      BY <1>1, <1>2, <2>2, <3>3
    <3>5. e \in X
      BY <1>6, <1>9, <3>4 DEF Kept
    <3> QED
      BY <3>2, <3>5
  <2> QED
    BY <2>1, <2>2
<1>16. SumFunctionOnSet(Size, X) = SumFunctionOnSet(Size, E) + x.size
  BY <1>0, <1>5, <1>8, MergedSum
<1> QED
  BY <1>8, <1>12, <1>13, <1>14, <1>15, <1>16

-----------------------------------------------------------------------------
(* Taking from an extent *)

\* First fit finds an extent whenever one is large enough.
LEMMA FirstFitFits ==
  ASSUME NEW n, extents \subseteq Piece, Fits(n) # {}
  PROVE  FirstFit(n) \in extents /\ FirstFit(n).size >= n
<1>1. \A e \in Fits(n) : e.start \in Nat
  BY PieceFacts DEF Fits
<1>2. PICK S : S = {e.start : e \in Fits(n)}
  OBVIOUS
<1>3. S \subseteq Nat /\ S # {}
  BY <1>1, <1>2
<1>4. PICK m \in S : \A k \in S : m <= k
  BY <1>3, NatMin
<1>5. \E e \in Fits(n) : \A g \in Fits(n) : e.start <= g.start
  BY <1>2, <1>4
<1>6. FirstFit(n) \in Fits(n)
  BY <1>5, Zenon DEF FirstFit
<1> QED
  BY <1>6 DEF Fits

\* The state of the extents that a call may rely on.
ExtentsOK ==
  /\ extents \subseteq Piece /\ IsFiniteSet(extents)
  /\ \A e \in extents : End(e) <= NumBlocks
  /\ \A e, f \in extents : e = f \/ Between(e, f)

\* Taking the first n blocks of an extent.
LEMMA TakeSplits ==
  ASSUME ExtentsOK, NEW e \in extents, NEW n \in Nat \ {0}, e.size >= n
  PROVE  /\ Extent(e.start, n) \in Piece /\ End(Extent(e.start, n)) <= NumBlocks
         /\ Take(e, n) \subseteq Piece /\ IsFiniteSet(Take(e, n))
         /\ \A f \in Take(e, n) : End(f) <= NumBlocks
         /\ \A f, g \in Take(e, n) : f = g \/ Between(f, g)
         /\ \A f \in Take(e, n) : Beside(f, Extent(e.start, n))
         /\ \A t \in Piece : (\A f \in extents : Beside(f, t))
               => Beside(Extent(e.start, n), t) /\ \A f \in Take(e, n) : Beside(f, t)
         /\ \A b \in Int : (\E f \in extents : b \in BlocksOf(f))
               => b \in BlocksOf(Extent(e.start, n)) \/ \E f \in Take(e, n) : b \in BlocksOf(f)
         /\ SumFunctionOnSet(Size, Take(e, n)) = SumFunctionOnSet(Size, extents) - n
<1>1. /\ extents \subseteq Piece /\ IsFiniteSet(extents)
      /\ \A f \in extents : /\ f.start \in Nat /\ End(f) \in Nat /\ f.start < End(f) /\ f \in Piece
                            /\ End(f) <= NumBlocks /\ f.size = End(f) - f.start /\ Size[f] = f.size
                            /\ f.size \in Nat
      /\ \A f, g \in extents : f = g \/ Between(f, g)
  BY PieceFacts DEF ExtentsOK, Size
<1>2. PICK x : x = Extent(e.start, n)
  OBVIOUS
<1>3. x \in Piece /\ x.start = e.start /\ End(x) = e.start + n /\ End(x) <= End(e)
  <2>1. e.start \in Block /\ n \in 1 .. NumBlocks
    BY <1>1, ContiguousAssumption DEF Block
  <2> QED
    BY <1>1, <1>2, <2>1 DEF Piece, Extent, End
<1>4. PICK D : D = extents \ {e}
  OBVIOUS
<1>5. IsFiniteSet(D) /\ D \subseteq extents /\ e \notin D /\ extents = D \cup {e}
  BY <1>1, <1>4, FS_RemoveElement
<1>6. PICK T : T = Take(e, n)
  OBVIOUS
<1>7. \A f \in D : End(f) < e.start \/ End(e) < f.start
  BY <1>1, <1>5 DEF Between
<1>8. SumFunctionOnSet(Size, extents) = e.size + SumFunctionOnSet(Size, D) /\ SumFunctionOnSet(Size, D) \in Int
  <2>1. \A f \in extents : Size[f] \in Int
    BY <1>1
  <2>2. SumFunctionOnSet(Size, extents) = Size[e] + SumFunctionOnSet(Size, extents \ {e})
    BY <1>1, <2>1, SumRemove
  <2>3. \A f \in D : Size[f] \in Int
    BY <1>5, <2>1
  <2>4. SumFunctionOnSet(Size, D) \in Int
    BY <1>5, <2>3, SumRemove
  <2> QED
    BY <1>1, <1>4, <2>2, <2>4
<1>9. CASE e.size = n
  <2>1. T = D
    BY <1>4, <1>6, <1>9 DEF Take
  <2>2. /\ T \subseteq Piece /\ IsFiniteSet(T)
        /\ \A f \in T : End(f) <= NumBlocks
        /\ \A f, g \in T : f = g \/ Between(f, g)
    BY <1>1, <1>5, <2>1
  <2>3. \A f \in T : Beside(f, x)
    BY <1>1, <1>3, <1>5, <1>7, <2>1 DEF Beside
  <2>4. ASSUME NEW t \in Piece, \A f \in extents : Beside(f, t)
        PROVE  Beside(x, t) /\ \A f \in T : Beside(f, t)
    <3>1. t.start \in Nat /\ End(t) \in Nat
      BY PieceFacts
    <3> QED
      BY <1>1, <1>3, <1>5, <2>1, <2>4, <3>1 DEF Beside
  <2>5. ASSUME NEW b \in Int, \E f \in extents : b \in BlocksOf(f)
        PROVE  b \in BlocksOf(x) \/ \E f \in T : b \in BlocksOf(f)
    BY <1>1, <1>3, <1>5, <1>9, <2>1, <2>5 DEF BlocksOf
  <2>6. SumFunctionOnSet(Size, T) = SumFunctionOnSet(Size, extents) - n
    BY <1>8, <1>9, <2>1
  <2>7. End(x) <= NumBlocks
    BY <1>1, <1>3, ContiguousAssumption
  <2> QED
    BY <1>2, <1>3, <1>6, <2>2, <2>3, <2>4, <2>5, <2>6, <2>7
<1>10. CASE e.size # n
  <2>1. PICK r : r = Extent(e.start + n, e.size - n)
    OBVIOUS
  <2>2. T = D \cup {r}
    BY <1>4, <1>6, <1>10, <2>1 DEF Take
  <2>3. /\ r \in Piece /\ r.start = e.start + n /\ r.size = e.size - n /\ End(r) = End(e)
        /\ Size[r] = e.size - n
    <3>1. e.start + n \in Block /\ e.size - n \in 1 .. NumBlocks
      BY <1>1, <1>10, ContiguousAssumption DEF Block
    <3> QED
      BY <1>1, <2>1, <3>1 DEF Piece, Extent, End, Size
  <2>4. /\ T \subseteq Piece /\ IsFiniteSet(T)
        /\ \A f \in T : End(f) <= NumBlocks
    BY <1>1, <1>5, <2>2, <2>3, FS_AddElement
  <2>5. \A f \in D : End(f) < r.start \/ End(r) < f.start
    BY <1>1, <1>5, <1>7, <2>3
  <2>6. \A f, g \in T : f = g \/ Between(f, g)
    BY <1>1, <1>5, <2>2, <2>5 DEF Between
  <2>7. \A f \in T : Beside(f, x)
    BY <1>1, <1>3, <1>5, <1>7, <2>2, <2>3 DEF Beside
  <2>8. ASSUME NEW t \in Piece, \A f \in extents : Beside(f, t)
        PROVE  Beside(x, t) /\ \A f \in T : Beside(f, t)
    <3>1. t.start \in Nat /\ End(t) \in Nat
      BY PieceFacts
    <3> QED
      BY <1>1, <1>3, <1>5, <2>2, <2>3, <2>8, <3>1 DEF Beside
  <2>9. ASSUME NEW b \in Int, \E f \in extents : b \in BlocksOf(f)
        PROVE  b \in BlocksOf(x) \/ \E f \in T : b \in BlocksOf(f)
    BY <1>1, <1>3, <1>5, <2>2, <2>3, <2>9 DEF BlocksOf
  <2>10. r \notin D
    BY <1>1, <1>5, <1>7, <2>3
  <2>11. \A f \in D \cup {r} : Size[f] \in Int
    BY <1>1, <1>5, <2>3
  <2>12. SumFunctionOnSet(Size, D \cup {r}) = Size[r] + SumFunctionOnSet(Size, D)
    BY <1>5, <2>10, <2>11, SumAdd
  <2>13. SumFunctionOnSet(Size, T) = (e.size - n) + SumFunctionOnSet(Size, D)
    BY <2>2, <2>3, <2>12, Zenon
  <2>14. SumFunctionOnSet(Size, T) = SumFunctionOnSet(Size, extents) - n
    BY <1>1, <1>8, <2>13
  <2>15. End(x) <= NumBlocks
    BY <1>1, <1>3, ContiguousAssumption
  <2> QED
    BY <1>2, <1>3, <1>6, <2>4, <2>6, <2>7, <2>8, <2>9, <2>14, <2>15
<1> QED
  BY <1>9, <1>10

-----------------------------------------------------------------------------
(* The inductive invariant *)

\* Types; the dictionaries of the allocator have the same keys.
Shape ==
  /\ DOMAIN tables \subseteq Seqs /\ closing \in DOMAIN tables \cup {Null}
  /\ spans \in [DOMAIN tables -> Piece]
  /\ tables \in [DOMAIN tables -> Seq(Block)]
  /\ reserved \in [DOMAIN tables -> Seq(Block)]
  /\ scratch \in [DOMAIN tables -> Seq(Block)]

\* No two pieces overlap, and no two extents touch.
Apart ==
  /\ ExtentsOK
  /\ \A s \in DOMAIN tables : End(spans[s]) <= NumBlocks
  /\ \A e \in extents, s \in DOMAIN tables : Beside(e, spans[s])
  /\ \A s, t \in DOMAIN tables : s = t \/ Beside(spans[s], spans[t])

\* Every block is in a piece.
Covered ==
  \A b \in Block : \/ \E e \in extents : b \in BlocksOf(e)
                   \/ \E s \in DOMAIN tables : b \in BlocksOf(spans[s])

\* The table of a sequence, its reservation and its scratch region in its
\* span x, with nothing between them while the span is whole.
Layout(tab, res, scr, x, whole) ==
  /\ Run(tab, x.start)
  /\ Run(res, x.start + Len(tab))
  /\ Run(scr, End(x) - Len(scr))
  /\ Len(tab) + Len(res) + Len(scr) <= x.size
  /\ whole => Len(tab) + Len(res) + Len(scr) = x.size

\* Every sequence is laid out in its span, which is whole unless its scratch
\* region was dropped.
Laid ==
  \A s \in DOMAIN tables : Layout(tables[s], reserved[s], scratch[s], spans[s], s # closing)

\* The blocks of a sequence that are counted.
Used(s) == Elems(tables[s]) \cup Elems(scratch[s])

\* The blocks counted and the blocks spanned, by sequence.
HeldLen == [s \in Seqs |-> IF s \in DOMAIN tables THEN Len(tables[s]) + Len(scratch[s]) ELSE 0]
SpanLen == [s \in Seqs |-> IF s \in DOMAIN tables THEN spans[s].size ELSE 0]

\* The counted blocks are those of the tables and the scratch regions.
LiveUsed == live \subseteq Block /\ \A b \in Block : b \in live <=> \E s \in DOMAIN tables : b \in Used(s)

\* The totals.  The count of the live blocks is a sum over the sequences, and
\* the free and the spanned blocks are all of them.
Counted ==
  /\ balance = Cardinality(live)
  /\ balance = SumFunctionOnSet(HeldLen, Seqs)
  /\ SumFunctionOnSet(Size, extents) + SumFunctionOnSet(SpanLen, Seqs) = NumBlocks

\* The inductive invariant.
CInv == Shape /\ Apart /\ Covered /\ Laid /\ LiveUsed /\ Counted

\* A layout in numbers: k blocks of the table from c, m reserved ones, and r of
\* scratch at the end of the w blocks of the span.
Numbers(tab, res, scr, x, whole, c, w, k, m, r) ==
  /\ c = x.start /\ w = x.size /\ End(x) = c + w
  /\ k = Len(tab) /\ m = Len(res) /\ r = Len(scr)
  /\ Run(tab, c) /\ Run(res, c + k) /\ Run(scr, (c + w) - r)
  /\ k + m + r <= w /\ k <= w /\ r <= w /\ (whole => k + m + r = w)
  /\ Elems(tab) = c .. c + k - 1
  /\ Elems(scr) = (c + w) - r .. (c + w) - 1
  /\ BlocksOf(x) = c .. (c + w) - 1

\* Every layout has them.
LEMMA LayoutNumbers ==
  ASSUME NEW tab, NEW res, NEW scr, NEW x \in Piece, NEW whole \in BOOLEAN, Layout(tab, res, scr, x, whole)
  PROVE  \E c, w, k, m, r \in Nat : Numbers(tab, res, scr, x, whole, c, w, k, m, r)
<1>1. x.start \in Nat /\ x.size \in Nat /\ End(x) = x.start + x.size
  BY PieceFacts
<1>2. Len(tab) \in Nat /\ Len(res) \in Nat /\ Len(scr) \in Nat
  BY DEF Layout, Run
<1>3. PICK c, w, k, m, r \in Nat : /\ c = x.start /\ w = x.size
                                  /\ k = Len(tab) /\ m = Len(res) /\ r = Len(scr)
  BY <1>1, <1>2
<1>4. End(x) = c + w
  BY <1>1, <1>3, Zenon
<1>5. PICK f \in Int : f = (c + w) - r
  OBVIOUS
<1>6. /\ Run(tab, c) /\ Run(res, c + k) /\ Run(scr, f)
      /\ k + m + r <= w /\ (whole => k + m + r = w)
  BY <1>3, <1>4, <1>5, Zenon DEF Layout
<1>7. c \in Int
  OBVIOUS
<1>8. Elems(tab) = c .. c + k - 1 /\ Elems(scr) = f .. f + r - 1
  <2>1. Elems(tab) = c .. c + Len(tab) - 1
    BY <1>6, <1>7, RunElems
  <2>2. Elems(scr) = f .. f + Len(scr) - 1
    BY <1>6, RunElems
  <2> QED
    BY <1>3, <2>1, <2>2, Zenon
<1>9. f + r - 1 = (c + w) - 1
  BY <1>5
<1>10. Elems(scr) = (c + w) - r .. (c + w) - 1
  BY <1>5, <1>8, <1>9, Zenon
<1>11. k <= w /\ r <= w
  <2>1. k + m + r <= w
    BY <1>6
  <2> QED
    BY <2>1
<1>12. BlocksOf(x) = c .. (c + w) - 1
  BY <1>3, <1>4, Zenon DEF BlocksOf
<1>13. Numbers(tab, res, scr, x, whole, c, w, k, m, r)
  BY <1>3, <1>4, <1>5, <1>6, <1>8, <1>10, <1>11, <1>12, Zenon DEF Numbers
<1> QED
  BY <1>13, Zenon

\* The numbers determine a layout.
LEMMA LayoutHolds ==
  ASSUME NEW tab, NEW res, NEW scr, NEW x, NEW whole,
         NEW c \in Nat, NEW w \in Nat, NEW k \in Nat, NEW m \in Nat, NEW r \in Nat,
         c = x.start, w = x.size, k = Len(tab), m = Len(res), r = Len(scr),
         Run(tab, c), Run(res, c + k), Run(scr, (c + w) - r),
         k + m + r <= w, whole => k + m + r = w
  PROVE  Layout(tab, res, scr, x, whole)
<1>1. End(x) = c + w
  BY DEF End
<1> QED
  BY <1>1, Zenon DEF Layout

\* What the invariant says of one sequence.
LEMMA LaidFacts ==
  ASSUME Shape, Laid, NEW s \in DOMAIN tables
  PROVE  /\ s \in Seqs /\ spans[s] \in Piece
         /\ \E c, w, k, m, r \in Nat :
               Numbers(tables[s], reserved[s], scratch[s], spans[s], s # closing, c, w, k, m, r)
         /\ spans[s].start \in Nat /\ End(spans[s]) \in Nat /\ spans[s].size \in Nat
         /\ Len(tables[s]) \in Nat /\ Len(scratch[s]) \in Nat
         /\ Used(s) \subseteq BlocksOf(spans[s])
<1>1. /\ s \in Seqs /\ spans[s] \in Piece
      /\ Layout(tables[s], reserved[s], scratch[s], spans[s], s # closing)
  BY DEF Shape, Laid
<1>2. PICK o \in BOOLEAN : o = (s # closing)
  OBVIOUS
<1>3. PICK c, w, k, m, r \in Nat :
         Numbers(tables[s], reserved[s], scratch[s], spans[s], o, c, w, k, m, r)
  <2>1. Layout(tables[s], reserved[s], scratch[s], spans[s], o)
    BY <1>1, <1>2
  <2> QED
    BY <1>1, <2>1, LayoutNumbers
<1>4. k <= w /\ r <= w
  BY <1>3 DEF Numbers
<1>5. (c .. c + k - 1) \subseteq (c .. (c + w) - 1) /\ ((c + w) - r .. (c + w) - 1) \subseteq (c .. (c + w) - 1)
  BY <1>4
<1>6. Used(s) \subseteq BlocksOf(spans[s])
  BY <1>3, <1>5, Zenon DEF Used, Numbers
<1>7. /\ spans[s].start \in Nat /\ spans[s].size \in Nat
      /\ Len(tables[s]) \in Nat /\ Len(scratch[s]) \in Nat
  BY <1>3, Zenon DEF Numbers
<1>8. End(spans[s]) \in Nat
  BY <1>7 DEF End
<1>9. Numbers(tables[s], reserved[s], scratch[s], spans[s], s # closing, c, w, k, m, r)
  BY <1>2, <1>3, Zenon
<1> QED
  BY <1>1, <1>6, <1>7, <1>8, <1>9, Zenon

\* No block is counted for two sequences.
LEMMA UsedApart ==
  ASSUME Shape, Laid, Apart, NEW s \in DOMAIN tables, NEW t \in DOMAIN tables, s # t
  PROVE  Used(s) \cap Used(t) = {}
<1>1. Used(s) \subseteq BlocksOf(spans[s]) /\ Used(t) \subseteq BlocksOf(spans[t])
  BY LaidFacts
<1>2. /\ spans[s].start \in Nat /\ End(spans[s]) \in Nat
      /\ spans[t].start \in Nat /\ End(spans[t]) \in Nat
  BY LaidFacts
<1>3. Beside(spans[s], spans[t])
  BY DEF Apart
<1> QED
  BY <1>1, <1>2, <1>3 DEF Beside, BlocksOf

\* The counters, when one sequence's lists grow or shrink.
LEMMA CountGrow ==
  ASSUME NEW L, L \subseteq Block, NEW M, M \subseteq Block, L \cap M = {}
  PROVE  /\ IsFiniteSet(L) /\ IsFiniteSet(M)
         /\ Cardinality(L) \in Nat /\ Cardinality(M) \in Nat
         /\ Cardinality(L \cup M) = Cardinality(L) + Cardinality(M)
<1>1. PICK o \in Int, n \in Int : o = 0 /\ n = NumBlocks - 1
  BY ContiguousAssumption
<1>2. IsFiniteSet(o .. n) /\ Block = o .. n
  BY <1>1, FS_Interval DEF Block
<1>3. IsFiniteSet(L) /\ IsFiniteSet(M)
  BY <1>2, FS_Subset
<1>4. Cardinality(L \cap M) = 0
  BY FS_EmptySet
<1>5. Cardinality(L) \in Nat /\ Cardinality(M) \in Nat
  BY <1>3, FS_CardinalityType
<1>6. Cardinality(L \cup M) = Cardinality(L) + Cardinality(M) - Cardinality(L \cap M)
  BY <1>3, FS_Union
<1> QED
  BY <1>3, <1>4, <1>5, <1>6

\* Removing blocks from a set of blocks.
LEMMA CountShrink ==
  ASSUME NEW L, L \subseteq Block, NEW M, M \subseteq L
  PROVE  /\ IsFiniteSet(L) /\ IsFiniteSet(M)
         /\ Cardinality(L) \in Nat /\ Cardinality(M) \in Nat
         /\ Cardinality(L \ M) = Cardinality(L) - Cardinality(M)
<1>1. PICK R : R = L \ M
  OBVIOUS
<1>2. R \subseteq Block /\ M \subseteq Block /\ R \cap M = {} /\ R \cup M = L
  BY <1>1
<1>3. /\ IsFiniteSet(R) /\ IsFiniteSet(M)
      /\ Cardinality(R) \in Nat /\ Cardinality(M) \in Nat
      /\ Cardinality(R \cup M) = Cardinality(R) + Cardinality(M)
  BY <1>2, CountGrow
<1>4. IsFiniteSet(L) /\ Cardinality(L) \in Nat
  BY <1>2, <1>3, FS_Union, FS_CardinalityType
<1>5. Cardinality(L) = Cardinality(R) + Cardinality(M)
  BY <1>2, <1>3, Zenon
<1>6. Cardinality(L \ M) = Cardinality(R)
  BY <1>1, Zenon
<1> QED
  BY <1>3, <1>4, <1>5, <1>6

\* The sequence ids are finite and Null is not one.
LEMMA SeqsFinite == IsFiniteSet(Seqs) /\ Null \notin Seqs
  BY ContiguousAssumption

\* The summands of the counters.
LEMMA HeldNat ==
  ASSUME Shape, Laid
  PROVE  \A s \in Seqs : HeldLen[s] \in Nat /\ SpanLen[s] \in Nat
<1>1. \A s \in DOMAIN tables : /\ Len(tables[s]) \in Nat /\ Len(scratch[s]) \in Nat
                               /\ spans[s].size \in Nat
  BY LaidFacts
<1> QED
  BY <1>1 DEF HeldLen, SpanLen

\* Steps that only move blocks within the span of s.
LEMMA WithinSpan ==
  ASSUME Shape, Apart, Covered, UNCHANGED <<extents, spans>>, DOMAIN tables' = DOMAIN tables
  PROVE  Apart' /\ Covered'
<1>1. Apart'
  BY DEF Apart, ExtentsOK
<1>2. Covered'
  BY DEF Covered
<1> QED
  BY <1>1, <1>2

\* Steps that add the blocks M to what is counted for s, or remove them.
LEMMA CountUp ==
  ASSUME CInv, Shape', Laid', NEW s \in DOMAIN tables, UNCHANGED <<extents, spans>>,
         DOMAIN tables' = DOMAIN tables,
         \A t \in DOMAIN tables : t # s => tables'[t] = tables[t] /\ scratch'[t] = scratch[t],
         NEW M, M \subseteq Block, live' = live \cup M, Used(s)' = Used(s) \cup M,
         M \cap Used(s) = {}, M \subseteq BlocksOf(spans[s]),
         balance' = balance + Cardinality(M),
         Len(tables'[s]) + Len(scratch'[s]) = Len(tables[s]) + Len(scratch[s]) + Cardinality(M)
  PROVE  LiveUsed' /\ Counted'
<1>0. Shape /\ Laid /\ Apart /\ LiveUsed /\ Counted /\ s \in Seqs /\ IsFiniteSet(Seqs)
  BY LaidFacts, SeqsFinite DEF CInv
<1>1. \A t \in DOMAIN tables : t # s => Used(t)' = Used(t)
  BY Zenon DEF Used
<1>2. LiveUsed'
  <2>1. live' \subseteq Block
    BY <1>0 DEF LiveUsed
  <2>2. \A b \in Block : b \in live <=> \E t \in DOMAIN tables : b \in Used(t)
    BY <1>0 DEF LiveUsed
  <2>3. ASSUME NEW b \in Block PROVE b \in live' <=> \E t \in DOMAIN tables' : b \in Used(t)'
    BY <1>1, <2>2
  <2> QED
    BY <2>1, <2>3 DEF LiveUsed, Block
<1>3. live \cap M = {}
  <2>1. ASSUME NEW b \in live, b \in M PROVE FALSE
    <3>1. PICK t \in DOMAIN tables : b \in Used(t)
      BY <1>0, <2>1 DEF LiveUsed
    <3>2. t # s
      BY <2>1, <3>1
    <3>3. b \in BlocksOf(spans[t]) /\ b \in BlocksOf(spans[s])
      BY <1>0, <2>1, <3>1, LaidFacts
    <3>4. Beside(spans[s], spans[t])
      BY <1>0, <3>2 DEF Apart
    <3>5. /\ spans[s].start \in Nat /\ End(spans[s]) \in Nat
          /\ spans[t].start \in Nat /\ End(spans[t]) \in Nat
      BY <1>0, LaidFacts
    <3> QED
      BY <3>3, <3>4, <3>5 DEF Beside, BlocksOf
  <2> QED
    BY <2>1
<1>4. Cardinality(live') = Cardinality(live) + Cardinality(M) /\ Cardinality(M) \in Nat
  <2>1. live \subseteq Block
    BY <1>0 DEF LiveUsed
  <2>2. Cardinality(live \cup M) = Cardinality(live) + Cardinality(M) /\ Cardinality(M) \in Nat
    BY <1>3, <2>1, CountGrow
  <2> QED
    BY <2>2
<1>5. PICK g, h : g = HeldLen /\ h = HeldLen'
  OBVIOUS
<1>6. \A t \in Seqs : g[t] \in Int /\ h[t] \in Int /\ (t # s => h[t] = g[t])
  <2>1. \A t \in Seqs : HeldLen[t] \in Int /\ HeldLen'[t] \in Int
    <3>1. \A t \in Seqs : HeldLen[t] \in Nat
      BY <1>0, HeldNat
    <3>2. \A t \in Seqs : HeldLen'[t] \in Nat
      <4>1. \A t \in DOMAIN tables' : Len(tables'[t]) \in Nat /\ Len(scratch'[t]) \in Nat
        BY DEF Shape
      <4> QED
        BY <4>1 DEF HeldLen
    <3> QED
      BY <3>1, <3>2
  <2>2. \A t \in Seqs : t # s => HeldLen'[t] = HeldLen[t]
    BY DEF HeldLen
  <2> QED
    BY <1>5, <2>1, <2>2
<1>7. h[s] - g[s] = Cardinality(M)
  <2>1. g[s] = Len(tables[s]) + Len(scratch[s]) /\ h[s] = Len(tables'[s]) + Len(scratch'[s])
    BY <1>0, <1>5 DEF HeldLen
  <2>2. h[s] = g[s] + Cardinality(M)
    BY <2>1, Zenon
  <2>3. g[s] \in Int
    BY <1>0, <1>6
  <2> QED
    BY <1>4, <2>2, <2>3
<1>8. SumFunctionOnSet(h, Seqs) = SumFunctionOnSet(g, Seqs) + (h[s] - g[s])
  BY <1>0, <1>6, SumAt
<1>9. SpanLen' = SpanLen
  BY DEF SpanLen
<1>10. Counted'
  BY <1>0, <1>4, <1>5, <1>7, <1>8, <1>9 DEF Counted, Size, Piece, Block
<1> QED
  BY <1>2, <1>10

\* The same for a step that takes the blocks M away.
LEMMA CountDown ==
  ASSUME CInv, Shape', Laid', NEW s \in DOMAIN tables, UNCHANGED <<extents, spans>>,
         DOMAIN tables' = DOMAIN tables,
         \A t \in DOMAIN tables : t # s => tables'[t] = tables[t] /\ scratch'[t] = scratch[t],
         NEW M, M \subseteq Used(s), live' = live \ M, Used(s)' = Used(s) \ M,
         balance' = balance - Cardinality(M),
         Len(tables'[s]) + Len(scratch'[s]) = (Len(tables[s]) + Len(scratch[s])) - Cardinality(M)
  PROVE  LiveUsed' /\ Counted'
<1>0. Shape /\ Laid /\ Apart /\ LiveUsed /\ Counted /\ s \in Seqs /\ IsFiniteSet(Seqs)
  BY LaidFacts, SeqsFinite DEF CInv
<1>1. \A t \in DOMAIN tables : t # s => Used(t)' = Used(t) /\ Used(s) \cap Used(t) = {}
  <2>1. \A t \in DOMAIN tables : t # s => Used(t)' = Used(t)
    BY Zenon DEF Used
  <2>2. \A t \in DOMAIN tables : t # s => Used(s) \cap Used(t) = {}
    BY <1>0, UsedApart
  <2> QED
    BY <2>1, <2>2
<1>2. \A b \in Block : b \in live <=> \E t \in DOMAIN tables : b \in Used(t)
  BY <1>0 DEF LiveUsed
<1>3. LiveUsed'
  <2>1. live' \subseteq Block
    BY <1>0 DEF LiveUsed
  <2>3. ASSUME NEW b \in Block PROVE b \in live' <=> \E t \in DOMAIN tables' : b \in Used(t)'
    <3>1. CASE b \in M
      BY <1>1, <3>1
    <3>2. CASE b \notin M
      BY <1>1, <1>2, <3>2
    <3> QED
      BY <3>1, <3>2
  <2> QED
    BY <2>1, <2>3 DEF LiveUsed, Block
<1>4. Cardinality(live') = Cardinality(live) - Cardinality(M) /\ Cardinality(M) \in Nat
      /\ Cardinality(live) \in Nat
  <2>1. live \subseteq Block /\ M \subseteq live
    <3>1. Used(s) \subseteq Block
      BY <1>0 DEF Used, Shape, Elems
    <3> QED
      BY <1>0, <1>2, <3>1 DEF LiveUsed
  <2>2. Cardinality(live \ M) = Cardinality(live) - Cardinality(M) /\ Cardinality(M) \in Nat
        /\ Cardinality(live) \in Nat
    BY <2>1, CountShrink
  <2> QED
    BY <2>2
<1>5. PICK g, h : g = HeldLen /\ h = HeldLen'
  OBVIOUS
<1>6. \A t \in Seqs : g[t] \in Int /\ h[t] \in Int /\ (t # s => h[t] = g[t])
  <2>1. \A t \in Seqs : HeldLen[t] \in Nat
    BY <1>0, HeldNat
  <2>2. \A t \in DOMAIN tables' : Len(tables'[t]) \in Nat /\ Len(scratch'[t]) \in Nat
    BY DEF Shape
  <2>3. \A t \in Seqs : HeldLen'[t] \in Nat
    BY <2>2 DEF HeldLen
  <2>4. \A t \in Seqs : t # s => HeldLen'[t] = HeldLen[t]
    BY DEF HeldLen
  <2> QED
    BY <1>5, <2>1, <2>3, <2>4
<1>7. h[s] - g[s] = 0 - Cardinality(M)
  <2>1. g[s] = Len(tables[s]) + Len(scratch[s]) /\ h[s] = Len(tables'[s]) + Len(scratch'[s])
    BY <1>0, <1>5 DEF HeldLen
  <2>2. h[s] = g[s] - Cardinality(M)
    BY <2>1, Zenon
  <2>3. g[s] \in Int
    BY <1>0, <1>6
  <2> QED
    BY <1>4, <2>2, <2>3
<1>8. SumFunctionOnSet(h, Seqs) = SumFunctionOnSet(g, Seqs) + (h[s] - g[s])
  BY <1>0, <1>6, SumAt
<1>9. SpanLen' = SpanLen
  BY DEF SpanLen
<1>10. Counted'
  BY <1>0, <1>4, <1>5, <1>7, <1>8, <1>9 DEF Counted, Size, Piece, Block
<1> QED
  BY <1>3, <1>10

-----------------------------------------------------------------------------
(* The calls preserve the invariant *)

\* The layouts after a step that changes only those of s.
LEMMA LaidStep ==
  ASSUME Shape, Laid, NEW s \in DOMAIN tables, DOMAIN tables' = DOMAIN tables,
         spans' = spans,
         \A t \in DOMAIN tables : t # s => /\ tables'[t] = tables[t] /\ reserved'[t] = reserved[t]
                                           /\ scratch'[t] = scratch[t]
                                           /\ ((t # closing') => (t # closing)),
         Layout(tables'[s], reserved'[s], scratch'[s], spans[s], s # closing')
  PROVE  Laid'
<1>1. ASSUME NEW t \in DOMAIN tables, t # s
      PROVE  Layout(tables'[t], reserved'[t], scratch'[t], spans'[t], t # closing')
  <2>1. Layout(tables[t], reserved[t], scratch[t], spans[t], t # closing)
    BY DEF Laid
  <2>2. /\ tables'[t] = tables[t] /\ reserved'[t] = reserved[t] /\ scratch'[t] = scratch[t]
        /\ spans'[t] = spans[t] /\ ((t # closing') => (t # closing))
    BY <1>1
  <2> QED
    BY <2>1, <2>2, Zenon DEF Layout
<1>2. \A t \in DOMAIN tables' : Layout(tables'[t], reserved'[t], scratch'[t], spans'[t], t # closing')
  BY <1>1
<1> QED
  BY <1>2, Zenon DEF Laid, Layout, Run, Block, End

\* append_block moves the border between table and reservation by one block.
LEMMA AppendKeeps ==
  ASSUME CInv, NEW s \in Seqs, append_block(s)
  PROVE  CInv'
<1>0. Shape /\ Apart /\ Covered /\ Laid /\ s \in DOMAIN tables /\ closing = Null /\ closing' = closing
  BY DEF CInv, append_block
<1>1. s # closing /\ s # closing' /\ UNCHANGED <<extents, spans, scratch>> /\ reserved[s] # << >>
  BY <1>0, ContiguousAssumption DEF append_block
<1>2. PICK c, w, k, m, r \in Nat :
         Numbers(tables[s], reserved[s], scratch[s], spans[s], s # closing, c, w, k, m, r)
  BY <1>0, LaidFacts
<1>3. k + m + r = w
  BY <1>1, <1>2 DEF Numbers
<1>4. PICK d \in Int : d = c + k
  OBVIOUS
<1>5. Run(reserved[s], d) /\ Run(tables[s], c) /\ c \in Int /\ Len(tables[s]) = k /\ Len(reserved[s]) = m
  BY <1>2, <1>4 DEF Numbers
<1>6. /\ Head(reserved[s]) = d /\ d \in Block /\ m \in Nat \ {0}
      /\ Run(Tail(reserved[s]), d + 1) /\ Len(Tail(reserved[s])) = m - 1
  BY <1>1, <1>5, RunTail
<1>7. Run(Append(tables[s], d), c) /\ Len(Append(tables[s], d)) = k + 1
  <2>1. d = c + Len(tables[s])
    BY <1>4, <1>5
  <2>2. Run(Append(tables[s], d), c) /\ Len(Append(tables[s], d)) = Len(tables[s]) + 1
    BY <1>5, <1>6, <2>1, RunAppend
  <2> QED
    BY <1>5, <2>2
<1>8. /\ DOMAIN tables' = DOMAIN tables /\ DOMAIN reserved' = DOMAIN tables
      /\ tables'[s] = Append(tables[s], d) /\ reserved'[s] = Tail(reserved[s])
      /\ \A t \in DOMAIN tables : t # s => tables'[t] = tables[t] /\ reserved'[t] = reserved[t]
      /\ live' = live \cup {d} /\ balance' = balance + 1
      /\ tables' = [tables EXCEPT ![s] = Append(@, d)] /\ reserved' = [reserved EXCEPT ![s] = Tail(@)]
  BY <1>0, <1>6 DEF append_block, Shape
<1>9. tables'[s] \in Seq(Block) /\ reserved'[s] \in Seq(Block)
  BY <1>6, <1>7, <1>8 DEF Run
<1>10. Shape'
  BY <1>0, <1>1, <1>8, <1>9 DEF Shape, Piece, Block
<1>11. Laid'
  <2>1. PICK k1, m1 \in Nat : k1 = k + 1 /\ m1 = m - 1
    BY <1>6
  <2>2. k1 + m1 + r = w /\ k1 + m1 + r <= w /\ d + 1 = c + k1
    BY <1>3, <1>4, <2>1
  <2>3. /\ c = spans[s].start /\ w = spans[s].size /\ r = Len(scratch[s])
        /\ Run(scratch[s], (c + w) - r)
    BY <1>2 DEF Numbers
  <2>4. /\ k1 = Len(tables'[s]) /\ m1 = Len(reserved'[s]) /\ scratch'[s] = scratch[s]
        /\ Run(tables'[s], c) /\ Run(reserved'[s], c + k1)
    BY <1>1, <1>6, <1>7, <1>8, <2>1, <2>2, Zenon
  <2>5. Layout(tables'[s], reserved'[s], scratch[s], spans[s], s # closing')
    BY <2>2, <2>3, <2>4, LayoutHolds
  <2>6. \A t \in DOMAIN tables : t # s => /\ tables'[t] = tables[t] /\ reserved'[t] = reserved[t]
                                          /\ scratch'[t] = scratch[t]
                                          /\ ((t # closing') => (t # closing))
    BY <1>0, <1>1, <1>8
  <2> QED
    BY <1>0, <1>1, <1>8, <2>4, <2>5, <2>6, LaidStep
<1>12. Apart' /\ Covered'
  BY <1>0, <1>1, <1>8, WithinSpan
<1>13. LiveUsed' /\ Counted'
  <2>1. PICK M : M = {d}
    OBVIOUS
  <2>2. Cardinality(M) = 1
    BY <2>1, FS_Singleton
  <2>3. /\ Elems(tables[s]) = c .. c + k - 1
        /\ Elems(scratch[s]) = (c + w) - r .. (c + w) - 1
        /\ BlocksOf(spans[s]) = c .. (c + w) - 1
    BY <1>2 DEF Numbers
  <2>4. Elems(tables'[s]) = c .. c + (k + 1) - 1
    <3>1. Elems(Append(tables[s], d)) = c .. c + Len(Append(tables[s], d)) - 1
      BY <1>5, <1>7, RunElems
    <3> QED
      BY <1>7, <1>8, <3>1, Zenon
  <2>5. Used(s)' = Used(s) \cup M
    <3>1. c .. c + (k + 1) - 1 = (c .. c + k - 1) \cup M
      BY <1>4, <2>1
    <3>2. Elems(tables'[s]) = Elems(tables[s]) \cup M
      BY <2>3, <2>4, <3>1, Zenon
    <3>3. scratch'[s] = scratch[s]
      BY <1>1
    <3> QED
      BY <3>2, <3>3 DEF Used
  <2>6. M \cap Used(s) = {} /\ M \subseteq BlocksOf(spans[s])
    <3>1. d \in c .. (c + w) - 1 /\ d \notin c .. c + k - 1 /\ d \notin (c + w) - r .. (c + w) - 1
      BY <1>3, <1>4, <1>6
    <3> QED
      BY <2>1, <2>3, <3>1, Zenon DEF Used
  <2>7. Len(tables'[s]) + Len(scratch'[s]) = Len(tables[s]) + Len(scratch[s]) + Cardinality(M)
    <3>1. (k + 1) + r = k + r + 1
      OBVIOUS
    <3>2. scratch'[s] = scratch[s] /\ r = Len(scratch[s])
      BY <1>1, <1>2 DEF Numbers
    <3> QED
      BY <1>5, <1>7, <1>8, <2>2, <3>1, <3>2, Zenon
  <2>8. M \subseteq Block /\ live' = live \cup M /\ balance' = balance + Cardinality(M)
    BY <1>6, <1>8, <2>1, <2>2
  <2>9. UNCHANGED <<extents, spans>>
    BY <1>1
  <2>10. \A t \in DOMAIN tables : t # s => tables'[t] = tables[t] /\ scratch'[t] = scratch[t]
    BY <1>1, <1>8
  <2>11. s \in DOMAIN tables /\ DOMAIN tables' = DOMAIN tables
    BY <1>0, <1>8
  <2> QED
    BY <1>10, <1>11, <2>5, <2>6, <2>7, <2>8, <2>9, <2>10, <2>11, CountUp
<1> QED
  BY <1>10, <1>11, <1>12, <1>13 DEF CInv

\* take_scratch moves the border between reservation and scratch.
LEMMA ScratchKeeps ==
  ASSUME CInv, NEW s \in Seqs, NEW n \in 1 .. NumBlocks, take_scratch(s, n)
  PROVE  CInv'
<1>0. Shape /\ Apart /\ Covered /\ Laid /\ s \in DOMAIN tables /\ closing = Null /\ closing' = closing
  BY DEF CInv, take_scratch
<1>1. s # closing /\ s # closing' /\ UNCHANGED <<extents, spans, tables>>
      /\ scratch[s] = << >> /\ Len(reserved[s]) >= n /\ n \in Nat \ {0}
  BY <1>0, ContiguousAssumption DEF take_scratch
<1>2. PICK c, w, k, m, r \in Nat :
         Numbers(tables[s], reserved[s], scratch[s], spans[s], s # closing, c, w, k, m, r)
  BY <1>0, LaidFacts
<1>3. r = 0 /\ k + m + r = w
  BY <1>1, <1>2 DEF Numbers
<1>4. PICK d \in Int : d = c + k
  OBVIOUS
<1>5. /\ Run(reserved[s], d) /\ Run(tables[s], c) /\ Len(tables[s]) = k /\ Len(reserved[s]) = m
      /\ c = spans[s].start /\ w = spans[s].size
  BY <1>2, <1>4 DEF Numbers
<1>6. PICK p, q : p = SubSeq(reserved[s], 1, Len(reserved[s]) - n)
                  /\ q = SubSeq(reserved[s], Len(reserved[s]) - n + 1, Len(reserved[s]))
  OBVIOUS
<1>7. m >= n
  BY <1>1, <1>5
<1>8. PICK m1 \in Nat, f \in Int : m1 = m - n /\ f = d + m1
  BY <1>1, <1>7
<1>9. Run(p, d) /\ Len(p) = m1 /\ Run(q, f) /\ Len(q) = n
  <2>1. /\ Run(p, d) /\ Len(p) = Len(reserved[s]) - n
        /\ Run(q, d + (Len(reserved[s]) - n)) /\ Len(q) = n
    BY <1>1, <1>5, <1>6, RunCut
  <2> QED
    BY <1>5, <1>8, <2>1, Zenon
<1>10. /\ DOMAIN scratch' = DOMAIN tables /\ DOMAIN reserved' = DOMAIN tables
       /\ scratch'[s] = q /\ reserved'[s] = p
       /\ \A t \in DOMAIN tables : t # s => scratch'[t] = scratch[t] /\ reserved'[t] = reserved[t]
       /\ live' = live \cup Elems(q) /\ balance' = balance + n
       /\ scratch' = [scratch EXCEPT ![s] = q] /\ reserved' = [reserved EXCEPT ![s] = p]
  BY <1>0, <1>6 DEF take_scratch, Shape
<1>11. q \in Seq(Block) /\ p \in Seq(Block)
  BY <1>9 DEF Run
<1>12. Shape'
  BY <1>0, <1>1, <1>10, <1>11 DEF Shape, Piece, Block
<1>13. (c + w) - n = f /\ k + m1 + n = w /\ k + m1 + n <= w /\ n \in Nat
  BY <1>1, <1>3, <1>4, <1>8
<1>14. Laid'
  <2>1. Run(p, c + k) /\ Run(q, (c + w) - n)
    BY <1>4, <1>9, <1>13, Zenon
  <2>2. Layout(tables[s], p, q, spans[s], s # closing')
    BY <1>5, <1>9, <1>13, <2>1, LayoutHolds
  <2>3. \A t \in DOMAIN tables : t # s => /\ tables'[t] = tables[t] /\ reserved'[t] = reserved[t]
                                          /\ scratch'[t] = scratch[t]
                                          /\ ((t # closing') => (t # closing))
    BY <1>0, <1>1, <1>10
  <2>4. Layout(tables'[s], reserved'[s], scratch'[s], spans[s], s # closing')
    BY <1>1, <1>10, <2>2, Zenon
  <2> QED
    BY <1>0, <1>1, <2>3, <2>4, LaidStep
<1>15. Apart' /\ Covered'
  BY <1>0, <1>1, WithinSpan
<1>16. LiveUsed' /\ Counted'
  <2>1. PICK M : M = Elems(q)
    OBVIOUS
  <2>2. M = f .. f + n - 1 /\ Cardinality(M) = n
    <3>1. M = f .. f + Len(q) - 1 /\ Cardinality(M) = Len(q)
      BY <1>9, <2>1, RunElems
    <3> QED
      BY <1>9, <3>1, Zenon
  <2>3. Elems(tables[s]) = c .. c + k - 1 /\ BlocksOf(spans[s]) = c .. (c + w) - 1
    BY <1>2 DEF Numbers
  <2>4. Elems(scratch[s]) = {}
    BY <1>1 DEF Elems
  <2>5. Used(s)' = Used(s) \cup M
    BY <1>1, <1>10, <2>1, <2>4 DEF Used
  <2>6. M \cap Used(s) = {} /\ M \subseteq BlocksOf(spans[s])
    <3>1. /\ (f .. f + n - 1) \cap (c .. c + k - 1) = {}
          /\ (f .. f + n - 1) \subseteq (c .. (c + w) - 1)
      BY <1>4, <1>8, <1>13
    <3> QED
      BY <2>2, <2>3, <2>4, <3>1, Zenon DEF Used
  <2>7. Len(tables'[s]) + Len(scratch'[s]) = Len(tables[s]) + Len(scratch[s]) + Cardinality(M)
    <3>1. k + n = k + r + n
      BY <1>3
    <3>2. r = Len(scratch[s])
      BY <1>2 DEF Numbers
    <3> QED
      BY <1>1, <1>5, <1>9, <1>10, <2>2, <3>1, <3>2, Zenon
  <2>8. M \subseteq Block /\ live' = live \cup M /\ balance' = balance + Cardinality(M)
    BY <1>10, <1>11, <2>1, <2>2 DEF Elems
  <2>9. UNCHANGED <<extents, spans>>
    BY <1>1
  <2>10. \A t \in DOMAIN tables : t # s => tables'[t] = tables[t] /\ scratch'[t] = scratch[t]
    BY <1>1, <1>10
  <2>11. s \in DOMAIN tables /\ DOMAIN tables' = DOMAIN tables
    BY <1>0, <1>1
  <2> QED
    BY <1>12, <1>14, <2>5, <2>6, <2>7, <2>8, <2>9, <2>10, <2>11, CountUp
<1> QED
  BY <1>12, <1>14, <1>15, <1>16 DEF CInv

\* unref_blocks opens a gap at the end of the span of the closing sequence.
LEMMA UnrefKeeps ==
  ASSUME CInv, NEW s \in Seqs, unref_blocks(s)
  PROVE  CInv'
<1>0. Shape /\ Apart /\ Covered /\ Laid /\ s \in DOMAIN tables /\ closing = Null /\ closing' = s
  BY DEF CInv, unref_blocks
<1>1. s # closing /\ UNCHANGED <<extents, spans, tables, reserved>>
  BY <1>0, ContiguousAssumption DEF unref_blocks
<1>2. PICK c, w, k, m, r \in Nat :
         Numbers(tables[s], reserved[s], scratch[s], spans[s], s # closing, c, w, k, m, r)
  BY <1>0, LaidFacts
<1>3. k + m + r <= w
  BY <1>2 DEF Numbers
<1>4. PICK q : q = << >>
  OBVIOUS
<1>5. /\ DOMAIN scratch' = DOMAIN tables
      /\ scratch'[s] = q
      /\ \A t \in DOMAIN tables : t # s => scratch'[t] = scratch[t]
      /\ live' = live \ Elems(scratch[s]) /\ balance' = balance - Len(scratch[s])
      /\ scratch' = [scratch EXCEPT ![s] = q]
  BY <1>0, <1>4 DEF unref_blocks, Shape
<1>6. q \in Seq(Block) /\ Len(q) = 0
  BY <1>4
<1>7. Shape'
  BY <1>0, <1>1, <1>5, <1>6 DEF Shape, Piece, Block
<1>8. PICK r1 \in Nat : r1 = 0
  OBVIOUS
<1>9. Laid'
  <2>1. r1 = Len(q) /\ Run(q, (c + w) - r1)
    BY <1>6, <1>8 DEF Run
  <2>2. k + m + r1 <= w
    BY <1>3, <1>8
  <2>3. /\ Run(reserved[s], c + k) /\ Run(tables[s], c) /\ k = Len(tables[s]) /\ m = Len(reserved[s])
        /\ c = spans[s].start /\ w = spans[s].size
    BY <1>2 DEF Numbers
  <2>4. ~ (s # closing')
    BY <1>0
  <2>5. Layout(tables[s], reserved[s], q, spans[s], s # closing')
    BY <2>1, <2>2, <2>3, <2>4, LayoutHolds
  <2>6. Layout(tables'[s], reserved'[s], scratch'[s], spans[s], s # closing')
    BY <1>1, <1>5, <2>5, Zenon
  <2>7. \A t \in DOMAIN tables : t # closing
    BY <1>0, ContiguousAssumption DEF Shape
  <2>8. \A t \in DOMAIN tables : t # s => /\ tables'[t] = tables[t] /\ reserved'[t] = reserved[t]
                                          /\ scratch'[t] = scratch[t]
                                          /\ ((t # closing') => (t # closing))
    BY <1>1, <1>5, <2>7
  <2> QED
    BY <1>0, <1>1, <2>6, <2>8, LaidStep
<1>10. Apart' /\ Covered'
  BY <1>0, <1>1, WithinSpan
<1>11. LiveUsed' /\ Counted'
  <2>1. PICK M : M = Elems(scratch[s])
    OBVIOUS
  <2>2. PICK f \in Int : f = (c + w) - r
    OBVIOUS
  <2>3. Run(scratch[s], f) /\ r = Len(scratch[s]) /\ Elems(tables[s]) = c .. c + k - 1
    BY <1>2, <2>2 DEF Numbers
  <2>4. M = f .. f + r - 1 /\ Cardinality(M) = r
    <3>1. M = f .. f + Len(scratch[s]) - 1 /\ Cardinality(M) = Len(scratch[s])
      BY <2>1, <2>3, RunElems
    <3> QED
      BY <2>3, <3>1, Zenon
  <2>5. M \cap Elems(tables[s]) = {}
    <3>1. (f .. f + r - 1) \cap (c .. c + k - 1) = {}
      BY <1>3, <2>2
    <3> QED
      BY <2>3, <2>4, <3>1, Zenon
  <2>6. Elems(q) = {}
    BY <1>4 DEF Elems
  <2>7. Used(s)' = Elems(tables[s]) /\ Used(s) = Elems(tables[s]) \cup M
    BY <1>1, <1>5, <2>1, <2>6 DEF Used
  <2>8. Used(s)' = Used(s) \ M /\ M \subseteq Used(s)
    BY <2>5, <2>7
  <2>9. Len(tables'[s]) + Len(scratch'[s]) = (Len(tables[s]) + Len(scratch[s])) - Cardinality(M)
    <3>1. k + 0 = (k + r) - r
      OBVIOUS
    <3>2. k = Len(tables[s])
      BY <1>2 DEF Numbers
    <3> QED
      BY <1>1, <1>5, <1>6, <2>3, <2>4, <3>1, <3>2, Zenon
  <2>10. live' = live \ M /\ balance' = balance - Cardinality(M)
    BY <1>5, <2>1, <2>3, <2>4
  <2>11. UNCHANGED <<extents, spans>>
    BY <1>1
  <2>12. \A t \in DOMAIN tables : t # s => tables'[t] = tables[t] /\ scratch'[t] = scratch[t]
    BY <1>1, <1>5
  <2>13. s \in DOMAIN tables /\ DOMAIN tables' = DOMAIN tables
    BY <1>0, <1>1
  <2> QED
    BY <1>7, <1>9, <2>8, <2>9, <2>10, <2>11, <2>12, <2>13, CountDown
<1> QED
  BY <1>7, <1>9, <1>10, <1>11 DEF CInv

\* admit splits an extent and lays a new sequence out in the first part.
LEMMA AdmitKeeps ==
  ASSUME CInv, NEW s \in Seqs, NEW n \in 1 .. NumBlocks, NEW p \in 1 .. n, admit(s, p, n)
  PROVE  CInv'
<1>0. Shape /\ Apart /\ Covered /\ Laid /\ LiveUsed /\ Counted /\ s \notin DOMAIN tables
      /\ closing = Null /\ closing' = closing /\ Fits(n) # {} /\ ExtentsOK
  BY DEF CInv, admit, Apart
<1>1. PICK e : e = FirstFit(n)
  OBVIOUS
<1>2. e \in extents /\ e.size >= n /\ n \in Nat \ {0} /\ p \in Nat \ {0} /\ p <= n
  <2>1. extents \subseteq Piece /\ n \in Nat \ {0} /\ p \in Nat \ {0} /\ p <= n
    BY <1>0, ContiguousAssumption DEF ExtentsOK
  <2> QED
    BY <1>0, <1>1, <2>1, FirstFitFits
<1>3. PICK x : x = Extent(e.start, n)
  OBVIOUS
<1>4. PICK T : T = Take(e, n)
  OBVIOUS
<1>5. /\ x \in Piece /\ End(x) <= NumBlocks
      /\ T \subseteq Piece /\ IsFiniteSet(T)
      /\ \A f \in T : End(f) <= NumBlocks
      /\ \A f, g \in T : f = g \/ Between(f, g)
      /\ \A f \in T : Beside(f, x)
      /\ \A t \in Piece : (\A f \in extents : Beside(f, t))
               => Beside(x, t) /\ \A f \in T : Beside(f, t)
      /\ \A b \in Int : (\E f \in extents : b \in BlocksOf(f))
               => b \in BlocksOf(x) \/ \E f \in T : b \in BlocksOf(f)
      /\ SumFunctionOnSet(Size, T) = SumFunctionOnSet(Size, extents) - n
  BY <1>0, <1>2, <1>3, <1>4, TakeSplits
<1>6. PICK c \in Nat, m \in Nat : c = e.start /\ m = n - p
  <2>1. e.start \in Nat
    BY <1>0, <1>2, PieceFacts DEF ExtentsOK
  <2>2. n - p \in Nat
    BY <1>2
  <2> QED
    BY <2>1, <2>2
<1>7. /\ x.start = c /\ x.size = n /\ End(x) = c + n /\ BlocksOf(x) = c .. (c + n) - 1
      /\ (c + n) <= NumBlocks
  BY <1>3, <1>5, <1>6 DEF Extent, End, BlocksOf
<1>8. PICK l : l = [i \in 1 .. p |-> c + i - 1]
  OBVIOUS
<1>9. PICK v : v = [i \in 1 .. m |-> c + (p + i) - 1]
  OBVIOUS
<1>10. Run(l, c) /\ Len(l) = p
  <2>1. \A i \in 1 .. p : c + i - 1 \in Block
    BY <1>2, <1>6, <1>7, ContiguousAssumption DEF Block
  <2>2. l \in Seq(Block) /\ Len(l) = p
    BY <1>2, <1>8, <2>1
  <2> QED
    BY <1>8, <2>2 DEF Run
<1>11. Run(v, c + p) /\ Len(v) = m
  <2>1. \A i \in 1 .. m : c + (p + i) - 1 \in Block
    BY <1>2, <1>6, <1>7, ContiguousAssumption DEF Block
  <2>2. v \in Seq(Block) /\ Len(v) = m
    BY <1>6, <1>9, <2>1
  <2>3. \A i \in 1 .. m : c + (p + i) - 1 = (c + p) + i - 1
    BY <1>2, <1>6
  <2> QED
    BY <1>9, <2>2, <2>3 DEF Run
<1>12. PICK q : q = << >>
  OBVIOUS
<1>13. Run(q, (c + n) - 0) /\ Len(q) = 0 /\ q \in Seq(Block) /\ Elems(q) = {}
  BY <1>12 DEF Run, Elems
<1>14. PICK D : D = DOMAIN tables
  OBVIOUS
<1>15. /\ extents' = T
       /\ tables' = [t \in D \cup {s} |-> IF t = s THEN l ELSE tables[t]]
       /\ reserved' = [t \in D \cup {s} |-> IF t = s THEN v ELSE reserved[t]]
       /\ scratch' = [t \in D \cup {s} |-> IF t = s THEN q ELSE scratch[t]]
       /\ spans' = [t \in D \cup {s} |-> IF t = s THEN x ELSE spans[t]]
       /\ live' = live \cup {c + i - 1 : i \in 1 .. p} /\ balance' = balance + p
  <2>1. DOMAIN reserved = D /\ DOMAIN scratch = D /\ DOMAIN spans = D
    BY <1>0, <1>14 DEF Shape
  <2> QED
    BY <1>1, <1>3, <1>4, <1>6, <1>8, <1>9, <1>12, <1>14, <2>1 DEF admit, Put
<1>16. /\ DOMAIN tables' = D \cup {s}
       /\ tables'[s] = l /\ reserved'[s] = v /\ scratch'[s] = q /\ spans'[s] = x
       /\ \A t \in D : /\ t # s /\ tables'[t] = tables[t] /\ reserved'[t] = reserved[t]
                       /\ scratch'[t] = scratch[t] /\ spans'[t] = spans[t]
  BY <1>0, <1>14, <1>15
<1>17. l \in Seq(Block) /\ v \in Seq(Block)
  BY <1>10, <1>11 DEF Run
<1>18. Shape'
  <2>1. D \subseteq Seqs /\ closing \in D \cup {Null}
    BY <1>0, <1>14 DEF Shape
  <2>2. \A t \in D : /\ tables[t] \in Seq(Block) /\ reserved[t] \in Seq(Block)
                     /\ scratch[t] \in Seq(Block) /\ spans[t] \in Piece
    BY <1>0, <1>14 DEF Shape
  <2>3. tables' \in [DOMAIN tables' -> Seq(Block)] /\ reserved' \in [DOMAIN tables' -> Seq(Block)]
        /\ scratch' \in [DOMAIN tables' -> Seq(Block)]
    BY <1>13, <1>15, <1>16, <1>17, <2>2
  <2>4. spans' \in [DOMAIN tables' -> Piece]
    BY <1>5, <1>15, <1>16, <2>2
  <2>5. DOMAIN tables' \subseteq Seqs /\ closing' \in DOMAIN tables' \cup {Null}
    BY <1>0, <1>16, <2>1
  <2> QED
    BY <2>3, <2>4, <2>5 DEF Shape, Piece, Block
<1>19. \A t \in D : /\ spans[t] \in Piece /\ End(spans[t]) <= NumBlocks
                    /\ \A f \in extents : Beside(f, spans[t])
  BY <1>0, <1>14 DEF Shape, Apart
<1>20. \A t \in D : Beside(x, spans[t]) /\ Beside(spans[t], x) /\ \A f \in T : Beside(f, spans[t])
  <2>1. \A t \in D : Beside(x, spans[t]) /\ \A f \in T : Beside(f, spans[t])
    BY <1>5, <1>19
  <2> QED
    BY <2>1 DEF Beside
<1>21. Apart'
  <2>1. ExtentsOK'
    BY <1>5, <1>15 DEF ExtentsOK, Piece, Block, End, Between
  <2>2. \A t \in DOMAIN tables' : End(spans'[t]) <= NumBlocks
    BY <1>5, <1>16, <1>19
  <2>3. \A f \in extents', t \in DOMAIN tables' : Beside(f, spans'[t])
    BY <1>5, <1>15, <1>16, <1>20
  <2>4. \A t, u \in DOMAIN tables' : t = u \/ Beside(spans'[t], spans'[u])
    <3>1. \A t, u \in D : t = u \/ Beside(spans[t], spans[u])
      BY <1>0, <1>14 DEF Apart
    <3> QED
      BY <1>16, <1>20, <3>1
  <2> QED
    BY <2>1, <2>2, <2>3, <2>4 DEF Apart, Beside, End
<1>22. Covered'
  <2>1. ASSUME NEW b \in Block
        PROVE  \/ \E f \in extents' : b \in BlocksOf(f)
               \/ \E t \in DOMAIN tables' : b \in BlocksOf(spans'[t])
    <3>1. b \in Int
      BY ContiguousAssumption DEF Block
    <3>2. (\E f \in extents : b \in BlocksOf(f)) \/ \E t \in D : b \in BlocksOf(spans[t])
      BY <1>0, <1>14 DEF Covered
    <3> QED
      BY <1>5, <1>15, <1>16, <3>1, <3>2
  <2> QED
    BY <2>1 DEF Covered, Block, BlocksOf, End
<1>23. Laid'
  <2>1. PICK z \in Nat : z = 0
    OBVIOUS
  <2>2. /\ p \in Nat /\ n \in Nat /\ p + m + z = n /\ p + m + z <= n /\ z = Len(q) /\ Run(q, (c + n) - z)
    BY <1>2, <1>6, <1>13, <2>1
  <2>3. c = x.start /\ n = x.size /\ p = Len(l) /\ m = Len(v) /\ Run(l, c) /\ Run(v, c + p)
    BY <1>7, <1>10, <1>11
  <2>4. Layout(l, v, q, x, s # closing')
    BY <2>2, <2>3, LayoutHolds
  <2>5. \A t \in D : Layout(tables[t], reserved[t], scratch[t], spans[t], t # closing)
    BY <1>0, <1>14 DEF Laid
  <2>6. \A t \in DOMAIN tables' : Layout(tables'[t], reserved'[t], scratch'[t], spans'[t], t # closing')
    BY <1>0, <1>16, <2>4, <2>5
  <2> QED
    BY <2>6, Zenon DEF Laid, Layout, Run, Block, End
<1>24. PICK M : M = Elems(l)
  OBVIOUS
<1>25. M = c .. c + p - 1 /\ Cardinality(M) = p /\ M \subseteq Block
  <2>1. c \in Int
    OBVIOUS
  <2>2. M = c .. c + Len(l) - 1 /\ Cardinality(M) = Len(l)
    BY <1>10, <1>24, <2>1, RunElems
  <2>3. M \subseteq Block
    BY <1>17, <1>24 DEF Elems
  <2> QED
    BY <1>10, <2>2, <2>3
<1>26. M = {c + i - 1 : i \in 1 .. p}
  BY <1>8, <1>24 DEF Elems
<1>27. (\A t \in D : Used(t)' = Used(t)) /\ Used(s)' = M
  <2>1. \A t \in D : Used(t)' = Used(t)
    BY <1>16, Zenon DEF Used
  <2>2. Used(s)' = M
    BY <1>13, <1>16, <1>24 DEF Used
  <2> QED
    BY <2>1, <2>2
<1>28. live \subseteq Block /\ \A b \in Block : b \in live <=> \E t \in D : b \in Used(t)
  BY <1>0, <1>14 DEF LiveUsed
<1>29. LiveUsed'
  <2>1. live' \subseteq Block /\ live' = live \cup M
    BY <1>15, <1>25, <1>26, <1>28
  <2>2. ASSUME NEW b \in Block PROVE b \in live' <=> \E t \in DOMAIN tables' : b \in Used(t)'
    BY <1>16, <1>27, <1>28, <2>1
  <2> QED
    BY <2>1, <2>2 DEF LiveUsed, Block
<1>30. live \cap M = {}
  <2>1. ASSUME NEW b \in live, b \in M PROVE FALSE
    <3>1. PICK t \in D : b \in Used(t)
      BY <1>28
    <3>2. b \in BlocksOf(spans[t]) /\ spans[t].start \in Nat /\ End(spans[t]) \in Nat
      BY <1>0, <1>14, <3>1, LaidFacts
    <3>3. Beside(x, spans[t])
      BY <1>20, <3>1
    <3>4. b \in c .. c + p - 1
      BY <1>25, <2>1
    <3>5. b < c + n /\ c <= b
      BY <1>2, <3>4
    <3> QED
      BY <1>7, <3>2, <3>3, <3>5 DEF Beside, BlocksOf
  <2> QED
    BY <2>1
<1>31. Cardinality(live') = Cardinality(live) + p
  <2>1. Cardinality(live \cup M) = Cardinality(live) + Cardinality(M)
    BY <1>25, <1>28, <1>30, CountGrow
  <2>2. live' = live \cup M
    BY <1>15, <1>26
  <2> QED
    BY <1>25, <2>1, <2>2
<1>32. PICK g, h : g = HeldLen /\ h = HeldLen'
  OBVIOUS
<1>33. PICK i, j : i = SpanLen /\ j = SpanLen'
  OBVIOUS
<1>34. IsFiniteSet(Seqs) /\ \A t \in D : Len(tables[t]) \in Nat /\ Len(scratch[t]) \in Nat /\ spans[t].size \in Nat
  BY <1>0, <1>14, LaidFacts, SeqsFinite
<1>35. \A t \in Seqs : g[t] \in Int /\ h[t] \in Int /\ (t # s => h[t] = g[t])
  <2>1. \A t \in Seqs : g[t] \in Int
    BY <1>0, <1>32, HeldNat
  <2>2. \A t \in Seqs : t # s => h[t] = g[t]
    BY <1>14, <1>16, <1>32 DEF HeldLen
  <2>3. h[s] = Len(l) + Len(q)
    BY <1>16, <1>32 DEF HeldLen
  <2>4. h[s] \in Int
    BY <1>2, <1>10, <1>13, <2>3
  <2> QED
    BY <2>1, <2>2, <2>4
<1>36. \A t \in Seqs : i[t] \in Int /\ j[t] \in Int /\ (t # s => j[t] = i[t])
  BY <1>2, <1>7, <1>14, <1>16, <1>33, <1>34 DEF SpanLen
<1>37. g[s] = 0 /\ h[s] = p /\ i[s] = 0 /\ j[s] = n
  BY <1>0, <1>2, <1>7, <1>10, <1>13, <1>16, <1>32, <1>33 DEF HeldLen, SpanLen
<1>38. SumFunctionOnSet(h, Seqs) = SumFunctionOnSet(g, Seqs) + (h[s] - g[s])
  BY <1>34, <1>35, SumAt
<1>39. SumFunctionOnSet(j, Seqs) = SumFunctionOnSet(i, Seqs) + (j[s] - i[s])
  BY <1>34, <1>36, SumAt
<1>40. SumFunctionOnSet(i, Seqs) \in Int /\ SumFunctionOnSet(g, Seqs) \in Int
  BY <1>34, <1>35, <1>36, SumRemove
<1>41. SumFunctionOnSet(Size, extents) \in Int
  <2>1. \A f \in extents : Size[f] \in Int
    BY <1>0, PieceFacts DEF ExtentsOK, Size
  <2>2. IsFiniteSet(extents)
    BY <1>0 DEF ExtentsOK
  <2> QED
    BY <2>1, <2>2, SumRemove
<1>42. /\ balance = Cardinality(live) /\ balance = SumFunctionOnSet(g, Seqs)
       /\ SumFunctionOnSet(Size, extents) + SumFunctionOnSet(i, Seqs) = NumBlocks
  BY <1>0, <1>32, <1>33 DEF Counted
<1>43. balance' = Cardinality(live') /\ balance' = SumFunctionOnSet(h, Seqs)
  BY <1>15, <1>31, <1>37, <1>38, <1>40, <1>42
<1>44. SumFunctionOnSet(Size, T) + SumFunctionOnSet(j, Seqs) = NumBlocks
  BY <1>2, <1>5, <1>37, <1>39, <1>40, <1>41, <1>42
<1>45. Counted'
  BY <1>15, <1>32, <1>33, <1>43, <1>44 DEF Counted, Size, Piece, Block
<1> QED
  BY <1>18, <1>21, <1>22, <1>23, <1>29, <1>45 DEF CInv

\* A sequence that is dropped gives its span back to the extents.
LEMMA DropKeeps ==
  ASSUME CInv, NEW s \in Seqs, drop(s)
  PROVE  CInv'
<1>0. Shape /\ Apart /\ Covered /\ Laid /\ LiveUsed /\ Counted /\ s \in DOMAIN tables
      /\ closing \in {Null, s} /\ closing' = Null /\ ExtentsOK /\ scratch[s] = << >>
  BY DEF CInv, drop, Apart
<1>1. PICK x : x = spans[s]
  OBVIOUS
<1>2. PICK T : T = Merged(extents \cup {x})
  OBVIOUS
<1>3. PICK D : D = DOMAIN tables \ {s}
  OBVIOUS
<1>4. /\ extents' = T
      /\ tables' = [t \in D |-> tables[t]]
      /\ reserved' = [t \in D |-> reserved[t]]
      /\ scratch' = [t \in D |-> scratch[t]]
      /\ spans' = [t \in D |-> spans[t]]
      /\ live' = live \ Elems(tables[s]) /\ balance' = balance - Len(tables[s])
  <2>1. DOMAIN reserved = DOMAIN tables /\ DOMAIN scratch = DOMAIN tables /\ DOMAIN spans = DOMAIN tables
    BY <1>0 DEF Shape
  <2> QED
    BY <1>1, <1>2, <1>3, <2>1 DEF drop, release, Pop
<1>5. /\ DOMAIN tables' = D /\ D \subseteq DOMAIN tables /\ s \notin D
      /\ DOMAIN tables = D \cup {s}
      /\ \A t \in D : /\ t # s /\ tables'[t] = tables[t] /\ reserved'[t] = reserved[t]
                      /\ scratch'[t] = scratch[t] /\ spans'[t] = spans[t]
  BY <1>0, <1>3, <1>4
<1>6. /\ x \in Piece /\ End(x) <= NumBlocks /\ \A e \in extents : Beside(e, x)
      /\ extents \subseteq Piece /\ IsFiniteSet(extents)
      /\ \A e \in extents : End(e) <= NumBlocks
      /\ \A e, f \in extents : e = f \/ Between(e, f)
  BY <1>0, <1>1 DEF Apart, ExtentsOK, Shape
<1>7. /\ T \subseteq Piece /\ IsFiniteSet(T)
      /\ \A e \in T : End(e) <= NumBlocks
      /\ \A e, f \in T : e = f \/ Between(e, f)
      /\ \A t \in Piece : Beside(x, t) /\ (\A e \in extents : Beside(e, t))
                               => \A e \in T : Beside(e, t)
      /\ \A b \in Int : (\E e \in extents : b \in BlocksOf(e)) \/ b \in BlocksOf(x)
                               => \E e \in T : b \in BlocksOf(e)
      /\ SumFunctionOnSet(Size, T) = SumFunctionOnSet(Size, extents) + x.size
  BY <1>2, <1>6, MergedFrees
<1>8. Shape'
  <2>1. /\ tables' \in [D -> Seq(Block)] /\ reserved' \in [D -> Seq(Block)]
        /\ scratch' \in [D -> Seq(Block)] /\ spans' \in [D -> Piece] /\ D \subseteq Seqs
    BY <1>0, <1>4, <1>5 DEF Shape
  <2> QED
    BY <1>0, <1>5, <2>1 DEF Shape, Piece, Block
<1>9. \A t \in D : /\ spans[t] \in Piece /\ End(spans[t]) <= NumBlocks
                   /\ Beside(x, spans[t])
                   /\ \A f \in extents : Beside(f, spans[t])
  BY <1>0, <1>1, <1>5 DEF Shape, Apart
<1>10. Apart'
  <2>1. ExtentsOK'
    BY <1>4, <1>7 DEF ExtentsOK, Piece, Block, End, Between
  <2>2. \A t \in DOMAIN tables' : End(spans'[t]) <= NumBlocks
    BY <1>5, <1>9
  <2>3. \A f \in extents', t \in DOMAIN tables' : Beside(f, spans'[t])
    BY <1>4, <1>5, <1>7, <1>9
  <2>4. \A t, u \in DOMAIN tables' : t = u \/ Beside(spans'[t], spans'[u])
    <3>1. \A t, u \in D : t = u \/ Beside(spans[t], spans[u])
      BY <1>0, <1>5 DEF Apart
    <3> QED
      BY <1>5, <3>1
  <2> QED
    BY <2>1, <2>2, <2>3, <2>4 DEF Apart, Beside, End
<1>11. Covered'
  <2>1. ASSUME NEW b \in Block
        PROVE  \/ \E f \in extents' : b \in BlocksOf(f)
               \/ \E t \in DOMAIN tables' : b \in BlocksOf(spans'[t])
    <3>1. b \in Int
      BY ContiguousAssumption DEF Block
    <3>2. (\E f \in extents : b \in BlocksOf(f)) \/ (\E t \in D : b \in BlocksOf(spans[t])) \/ b \in BlocksOf(x)
      BY <1>0, <1>1, <1>5 DEF Covered
    <3> QED
      BY <1>4, <1>5, <1>7, <3>1, <3>2
  <2> QED
    BY <2>1 DEF Covered, Block, BlocksOf, End
<1>12. Laid'
  <2>1. \A t \in D : Layout(tables[t], reserved[t], scratch[t], spans[t], t # closing) /\ t # closing
    BY <1>0, <1>5, ContiguousAssumption DEF Laid, Shape
  <2>2. \A t \in D : Layout(tables[t], reserved[t], scratch[t], spans[t], t # closing')
    BY <2>1, Zenon DEF Layout
  <2>3. \A t \in DOMAIN tables' : Layout(tables'[t], reserved'[t], scratch'[t], spans'[t], t # closing')
    BY <1>5, <2>2
  <2> QED
    BY <2>3, Zenon DEF Laid, Layout, Run, Block, End
<1>13. PICK M : M = Elems(tables[s])
  OBVIOUS
<1>14. PICK c, w, k, m, r \in Nat :
         Numbers(tables[s], reserved[s], scratch[s], spans[s], s # closing, c, w, k, m, r)
  BY <1>0, LaidFacts
<1>15. Cardinality(M) = k /\ k = Len(tables[s]) /\ Len(scratch[s]) = 0 /\ w = x.size
  <2>1. Run(tables[s], c) /\ c \in Int /\ k = Len(tables[s]) /\ w = x.size
    BY <1>1, <1>14 DEF Numbers
  <2>2. Cardinality(M) = Len(tables[s])
    BY <1>13, <2>1, RunElems
  <2> QED
    BY <1>0, <2>1, <2>2
<1>16. (\A t \in D : Used(t)' = Used(t) /\ Used(s) \cap Used(t) = {}) /\ Used(s) = M
  <2>1. \A t \in D : Used(t)' = Used(t)
    BY <1>5, Zenon DEF Used
  <2>2. Used(s) = M
    BY <1>0, <1>13 DEF Used, Elems
  <2>3. \A t \in D : Used(s) \cap Used(t) = {}
    BY <1>0, <1>5, UsedApart
  <2> QED
    BY <2>1, <2>2, <2>3
<1>17. live \subseteq Block /\ \A b \in Block : b \in live <=> \E t \in DOMAIN tables : b \in Used(t)
  BY <1>0 DEF LiveUsed
<1>18. live' = live \ M /\ M \subseteq live
  <2>1. M \subseteq Block
    BY <1>0, <1>13 DEF Elems, Shape
  <2> QED
    BY <1>0, <1>4, <1>13, <1>16, <1>17, <2>1
<1>19. LiveUsed'
  <2>1. ASSUME NEW b \in Block PROVE b \in live' <=> \E t \in DOMAIN tables' : b \in Used(t)'
    <3>1. CASE b \in M
      BY <1>5, <1>16, <1>18, <3>1
    <3>2. CASE b \notin M
      BY <1>5, <1>16, <1>17, <1>18, <3>2
    <3> QED
      BY <3>1, <3>2
  <2>2. live' \subseteq Block
    BY <1>17, <1>18
  <2> QED
    BY <2>1, <2>2 DEF LiveUsed, Block
<1>20. Cardinality(live') = Cardinality(live) - k /\ Cardinality(live) \in Nat
  <2>1. Cardinality(live \ M) = Cardinality(live) - Cardinality(M) /\ Cardinality(live) \in Nat
    BY <1>17, <1>18, CountShrink
  <2> QED
    BY <1>15, <1>18, <2>1
<1>21. PICK g, h : g = HeldLen /\ h = HeldLen'
  OBVIOUS
<1>22. PICK i, j : i = SpanLen /\ j = SpanLen'
  OBVIOUS
<1>23. /\ IsFiniteSet(Seqs) /\ D \subseteq Seqs /\ DOMAIN tables \subseteq Seqs
       /\ \A t \in Seqs : g[t] \in Int /\ i[t] \in Int
  BY <1>0, <1>5, <1>21, <1>22, HeldNat, SeqsFinite DEF Shape
<1>24. \A t \in Seqs : t # s => h[t] = g[t] /\ j[t] = i[t]
  BY <1>5, <1>21, <1>22 DEF HeldLen, SpanLen
<1>25. g[s] = k /\ h[s] = 0 /\ i[s] = x.size /\ j[s] = 0 /\ x.size \in Nat
  <2>1. g[s] = Len(tables[s]) + Len(scratch[s]) /\ h[s] = 0
    BY <1>0, <1>5, <1>21 DEF HeldLen
  <2>2. i[s] = x.size /\ j[s] = 0
    BY <1>0, <1>1, <1>5, <1>22 DEF SpanLen
  <2> QED
    BY <1>15, <2>1, <2>2
<1>26. SumFunctionOnSet(h, Seqs) = SumFunctionOnSet(g, Seqs) + (h[s] - g[s])
  <2>1. \A t \in Seqs : g[t] \in Int /\ h[t] \in Int /\ (t # s => h[t] = g[t])
    BY <1>23, <1>24, <1>25
  <2> QED
    BY <1>23, <2>1, SumAt
<1>27. SumFunctionOnSet(j, Seqs) = SumFunctionOnSet(i, Seqs) + (j[s] - i[s])
  <2>1. \A t \in Seqs : i[t] \in Int /\ j[t] \in Int /\ (t # s => j[t] = i[t])
    BY <1>23, <1>24, <1>25
  <2> QED
    BY <1>23, <2>1, SumAt
<1>28. SumFunctionOnSet(i, Seqs) \in Int /\ SumFunctionOnSet(g, Seqs) \in Int
  BY <1>23, SumRemove
<1>29. SumFunctionOnSet(Size, extents) \in Int
  <2>1. \A f \in extents : Size[f] \in Int
    BY <1>6, PieceFacts DEF Size
  <2> QED
    BY <1>6, <2>1, SumRemove
<1>30. /\ balance = Cardinality(live) /\ balance = SumFunctionOnSet(g, Seqs)
       /\ SumFunctionOnSet(Size, extents) + SumFunctionOnSet(i, Seqs) = NumBlocks
  BY <1>0, <1>21, <1>22 DEF Counted
<1>31. balance' = balance - k
  BY <1>4, <1>15
<1>32. balance' = Cardinality(live') /\ balance' = SumFunctionOnSet(h, Seqs)
  BY <1>20, <1>25, <1>26, <1>28, <1>30, <1>31
<1>33. SumFunctionOnSet(Size, T) + SumFunctionOnSet(j, Seqs) = NumBlocks
  BY <1>7, <1>25, <1>27, <1>28, <1>29, <1>30
<1>34. Counted'
  BY <1>4, <1>21, <1>22, <1>32, <1>33 DEF Counted, Size, Piece, Block
<1> QED
  BY <1>8, <1>10, <1>11, <1>12, <1>19, <1>34 DEF CInv

-----------------------------------------------------------------------------
(* The theorems *)

\* The initial pool is one extent.
LEMMA CInitInv == CInit => CInv
<1> SUFFICES ASSUME CInit PROVE CInv
  OBVIOUS
<1>1. PICK x : x = Extent(0, NumBlocks)
  OBVIOUS
<1>2. /\ extents = {x} /\ x \in Piece /\ x.start = 0 /\ x.size = NumBlocks /\ End(x) = NumBlocks
      /\ Size[x] = NumBlocks
  BY <1>1, ContiguousAssumption DEF CInit, Piece, Extent, End, Block, Size
<1>3. DOMAIN tables = {} /\ live = {} /\ balance = 0 /\ closing = Null
  BY DEF CInit
<1>4. Shape
  BY <1>3 DEF Shape, CInit
<1>5. Apart
  <2>1. IsFiniteSet(extents)
    BY <1>2, FS_Singleton
  <2>2. End(x) <= NumBlocks
    BY <1>2, ContiguousAssumption
  <2>3. ExtentsOK
    BY <1>2, <2>1, <2>2 DEF ExtentsOK
  <2> QED
    BY <1>3, <2>3 DEF Apart
<1>6. Covered
  BY <1>2, <1>3 DEF Covered, BlocksOf, Block
<1>7. Laid /\ LiveUsed
  BY <1>3 DEF Laid, LiveUsed
<1>8. PICK g, h : g = HeldLen /\ h = SpanLen
  OBVIOUS
<1>9. \A s \in Seqs : g[s] = 0 /\ h[s] = 0
  BY <1>3, <1>8 DEF HeldLen, SpanLen
<1>10. IsFiniteSet(Seqs) /\ Cardinality(Seqs) \in Nat
  BY SeqsFinite, FS_CardinalityType
<1>11. PICK z \in Int : z = 0
  OBVIOUS
<1>12. SumFunctionOnSet(g, Seqs) = z * Cardinality(Seqs) /\ SumFunctionOnSet(h, Seqs) = z * Cardinality(Seqs)
  <2>1. \A s \in Seqs : g[s] = z /\ h[s] = z
    BY <1>9, <1>11
  <2> QED
    BY <1>10, <2>1, SumConst
<1>13. SumFunctionOnSet(Size, extents) = NumBlocks
  <2>1. Size[x] \in Int
    BY <1>2, ContiguousAssumption
  <2>2. SumFunctionOnSet(Size, {x}) = Size[x]
    BY <2>1, SumOne
  <2> QED
    BY <1>2, <2>2
<1>14. Cardinality(live) = 0
  BY <1>3, FS_EmptySet
<1>15. Counted
  BY <1>3, <1>8, <1>10, <1>11, <1>12, <1>13, <1>14, ContiguousAssumption DEF Counted
<1> QED
  BY <1>4, <1>5, <1>6, <1>7, <1>15 DEF CInv

\* The invariant of the oracle holds in every reachable state of the
\* specification, whatever the size of the pool and the set of sequences.
THEOREM ContiguousInvariant == CSpec => []CInv
<1>1. ASSUME CInv, CNext PROVE CInv'
  <2>1. CASE \E s \in Seqs, n_total \in 1 .. NumBlocks : \E n_prompt \in 1 .. n_total :
                admit(s, n_prompt, n_total)
    BY <1>1, <2>1, AdmitKeeps
  <2>2. CASE \E s \in Seqs : append_block(s)
    BY <1>1, <2>2, AppendKeeps
  <2>3. CASE \E s \in Seqs, n \in 1 .. NumBlocks : take_scratch(s, n)
    BY <1>1, <2>3, ScratchKeeps
  <2>4. CASE \E s \in Seqs : unref_blocks(s)
    BY <1>1, <2>4, UnrefKeeps
  <2>5. CASE \E s \in Seqs : drop(s)
    BY <1>1, <2>5, DropKeeps
  <2> QED
    BY <1>1, <2>1, <2>2, <2>3, <2>4, <2>5 DEF CNext
<1>2. ASSUME CInv, UNCHANGED cvars PROVE CInv'
  <2>1. CInv' <=> CInv
    BY <1>2 DEF cvars, CInv, Shape, Apart, ExtentsOK, Covered, Laid, LiveUsed, Counted, Used, HeldLen, SpanLen
  <2> QED
    BY <1>2, <2>1
<1> QED
  BY <1>1, <1>2, CInitInv, PTL DEF CSpec

\* The extents and the spans always tile the pool, and no two extents touch:
\* _return_extent of the oracle loses and duplicates no block.
THEOREM PoolIsTiled == CSpec => []Tiling
<1>1. ASSUME CInv PROVE Tiling
  <2>0. Shape /\ Apart /\ Covered /\ Laid /\ LiveUsed /\ Counted /\ ExtentsOK
    BY <1>1 DEF CInv, Apart
  <2>1. CTypeOK
    <3>1. \A e \in extents : e.start \in Block /\ e.size \in 1 .. NumBlocks
      BY <2>0 DEF ExtentsOK, Piece
    <3>2. /\ DOMAIN tables \subseteq Seqs
          /\ DOMAIN spans = DOMAIN tables /\ DOMAIN reserved = DOMAIN tables /\ DOMAIN scratch = DOMAIN tables
          /\ \A s \in DOMAIN tables : {tables[s], reserved[s], scratch[s]} \subseteq Seq(Block)
          /\ closing \in Seqs \cup {Null}
      BY <2>0 DEF Shape
    <3>3. PICK o \in Int, n \in Int : o = 0 /\ n = NumBlocks - 1
      BY ContiguousAssumption
    <3>4. Block = o .. n /\ IsFiniteSet(o .. n) /\ Cardinality(o .. n) = IF o > n THEN 0 ELSE n - o + 1
      BY <3>3, FS_Interval DEF Block
    <3>5. Cardinality(Block) = NumBlocks /\ IsFiniteSet(Block)
      BY <3>3, <3>4, ContiguousAssumption
    <3>6. live \subseteq Block
      BY <2>0 DEF LiveUsed
    <3>7. IsFiniteSet(live) /\ Cardinality(live) <= Cardinality(Block)
      BY <3>5, <3>6, FS_Subset
    <3>8. Cardinality(live) \in Nat
      BY <3>7, FS_CardinalityType
    <3>9. balance \in 0 .. NumBlocks
      BY <2>0, <3>5, <3>7, <3>8, ContiguousAssumption DEF Counted
    <3> QED
      BY <3>1, <3>2, <3>6, <3>9 DEF CTypeOK
  <2>2. /\ \A e \in extents : e.start \in Nat /\ End(e) \in Nat /\ e.start < End(e)
        /\ \A s \in DOMAIN spans : spans[s].start \in Nat /\ End(spans[s]) \in Nat
        /\ DOMAIN spans = DOMAIN tables
    BY <2>0, PieceFacts DEF ExtentsOK, Shape
  <2>3. ASSUME NEW b \in Block
        PROVE  Cardinality({e \in extents : b \in BlocksOf(e)})
               + Cardinality({s \in DOMAIN spans : b \in BlocksOf(spans[s])}) = 1
    <3>0. b \in Int
      BY ContiguousAssumption DEF Block
    <3>1. PICK A : A = {e \in extents : b \in BlocksOf(e)}
      OBVIOUS
    <3>2. PICK B : B = {s \in DOMAIN spans : b \in BlocksOf(spans[s])}
      OBVIOUS
    <3>3. \A e \in A : e \in extents /\ e.start <= b /\ b < End(e)
      BY <2>2, <3>0, <3>1 DEF BlocksOf
    <3>4. \A s \in B : s \in DOMAIN tables /\ spans[s].start <= b /\ b < End(spans[s])
      BY <2>2, <3>0, <3>2 DEF BlocksOf
    <3>5. \A e, f \in A : e = f
      BY <2>0, <2>2, <3>0, <3>3 DEF ExtentsOK, Between
    <3>6. \A s, t \in B : s = t
      BY <2>0, <2>2, <3>0, <3>4 DEF Apart, Beside
    <3>7. \A e \in A, s \in B : FALSE
      BY <2>0, <2>2, <3>0, <3>3, <3>4 DEF Apart, Beside
    <3>8. A # {} \/ B # {}
      BY <2>0, <2>2, <3>1, <3>2 DEF Covered
    <3>9. CASE A # {}
      <4>1. PICK e : A = {e}
        BY <3>5, <3>9
      <4>2. B = {}
        BY <3>7, <3>9
      <4>3. Cardinality(A) = 1 /\ Cardinality(B) = 0
        BY <4>1, <4>2, FS_Singleton, FS_EmptySet
      <4> QED
        BY <3>1, <3>2, <4>3
    <3>10. CASE B # {}
      <4>1. PICK e : B = {e}
        BY <3>6, <3>10
      <4>2. A = {}
        BY <3>7, <3>10
      <4>3. Cardinality(B) = 1 /\ Cardinality(A) = 0
        BY <4>1, <4>2, FS_Singleton, FS_EmptySet
      <4> QED
        BY <3>1, <3>2, <4>3
    <3> QED
      BY <3>8, <3>9, <3>10
  <2>4. Starts(extents) \cap Ends(extents) = {}
    <3>1. \A e, f \in extents : e.start # End(f)
      BY <2>0, <2>2 DEF ExtentsOK, Between
    <3> QED
      BY <3>1 DEF Starts, Ends
  <2> QED
    BY <2>1, <2>3, <2>4 DEF Tiling
<1> QED
  BY <1>1, ContiguousInvariant, PTL

\* A run followed by the next one is a run.
LEMMA RunConcat ==
  ASSUME NEW l, NEW v, NEW c \in Int, NEW k \in Nat, NEW m \in Nat,
         Run(l, c), Len(l) = k, Run(v, c + k), Len(v) = m
  PROVE  Run(l \o v, c) /\ Len(l \o v) = k + m
<1>1. l \in Seq(Block) /\ v \in Seq(Block)
  BY DEF Run
<1>2. /\ l \o v \in Seq(Block) /\ Len(l \o v) = Len(l) + Len(v)
      /\ \A i \in 1 .. Len(l) + Len(v) : (l \o v)[i] = IF i <= Len(l) THEN l[i] ELSE v[i - Len(l)]
  BY <1>1, ConcatProperties
<1>3. ASSUME NEW i \in 1 .. k + m PROVE (l \o v)[i] = c + i - 1
  <2>1. (l \o v)[i] = IF i <= k THEN l[i] ELSE v[i - k]
    BY <1>2
  <2>2. CASE i <= k
    <3>1. i \in 1 .. k
      BY <2>2
    <3> QED
      BY <2>1, <2>2, <3>1 DEF Run
  <2>3. CASE ~ (i <= k)
    <3>1. i - k \in 1 .. m
      BY <2>3
    <3>2. v[i - k] = (c + k) + (i - k) - 1
      BY <3>1 DEF Run
    <3> QED
      BY <2>1, <2>3, <3>2
  <2> QED
    BY <2>2, <2>3
<1> QED
  BY <1>2, <1>3 DEF Run

\* Every sequence occupies one contiguous span, in the order table,
\* reservation, scratch, until its scratch region has been dropped.
THEOREM SpansAreContiguous == CSpec => []SpanLayout
<1>1. ASSUME CInv PROVE SpanLayout
  <2>1. SUFFICES ASSUME NEW s \in DOMAIN tables, s # closing
                 PROVE  tables[s] \o reserved[s] \o scratch[s]
                          = [i \in 1 .. spans[s].size |-> spans[s].start + i - 1]
    BY DEF SpanLayout
  <2>2. Shape /\ Laid
    BY <1>1 DEF CInv
  <2>3. PICK c, w, k, m, r \in Nat :
           Numbers(tables[s], reserved[s], scratch[s], spans[s], s # closing, c, w, k, m, r)
    BY <2>2, LaidFacts
  <2>4. /\ c = spans[s].start /\ w = spans[s].size
        /\ k = Len(tables[s]) /\ m = Len(reserved[s]) /\ r = Len(scratch[s])
        /\ Run(tables[s], c) /\ Run(reserved[s], c + k) /\ Run(scratch[s], (c + w) - r)
        /\ k + m + r = w
    BY <2>1, <2>3 DEF Numbers
  <2>5. PICK u : u = tables[s] \o reserved[s]
    OBVIOUS
  <2>6. c \in Int
    OBVIOUS
  <2>7. Run(u, c) /\ Len(u) = k + m
    BY <2>4, <2>5, <2>6, RunConcat
  <2>8. PICK n \in Nat : n = k + m
    OBVIOUS
  <2>9. (c + w) - r = c + n
    <3>1. k + m + r = w
      BY <2>4
    <3> QED
      BY <2>8, <3>1
  <2>10. Run(u, c) /\ Run(scratch[s], c + n) /\ Len(u) = n /\ Len(scratch[s]) = r
    BY <2>4, <2>7, <2>8, <2>9, Zenon
  <2>11. Run(u \o scratch[s], c) /\ Len(u \o scratch[s]) = n + r
    BY <2>6, <2>10, RunConcat
  <2>12. n + r = w
    BY <2>4, <2>8
  <2>13. PICK v : v = u \o scratch[s]
    OBVIOUS
  <2>14. v \in Seq(Block) /\ Len(v) = w /\ \A i \in 1 .. w : v[i] = c + i - 1
    BY <2>11, <2>12, <2>13 DEF Run
  <2>15. v = [i \in 1 .. w |-> c + i - 1]
    BY <2>14
  <2> QED
    BY <2>4, <2>5, <2>13, <2>15, Zenon
<1> QED
  BY <1>1, ContiguousInvariant, PTL

\* Gate 5 (assert_conservation) holds for the oracle between the calls of the
\* simulator that belong together.
THEOREM SpanGateHolds == CSpec => []SpanGateFive
<1>1. ASSUME CInv PROVE SpanGateFive
  <2>0. Shape /\ Laid /\ Counted /\ ExtentsOK
    BY <1>1 DEF CInv, Apart
  <2>1. balance = Cardinality(live) /\ balance = SumFunctionOnSet(HeldLen, Seqs)
        /\ SumFunctionOnSet(Size, extents) + SumFunctionOnSet(SpanLen, Seqs) = NumBlocks
    BY <2>0 DEF Counted
  <2>2. ASSUME closing = Null PROVE Cardinality(live) + num_free = NumBlocks
    <3>1. PICK D : D = DOMAIN tables
      OBVIOUS
    <3>2. D \subseteq Seqs /\ DOMAIN reserved = D /\ IsFiniteSet(Seqs) /\ IsFiniteSet(D)
      BY <2>0, <3>1, SeqsFinite, FS_Subset DEF Shape
    <3>3. PICK g, h : g = HeldLen /\ h = SpanLen
      OBVIOUS
    <3>4. PICK q : q = [s \in Seqs |-> IF s \in D THEN Len(reserved[s]) ELSE 0]
      OBVIOUS
    <3>5. PICK v : v = [s \in D |-> Len(reserved[s])]
      OBVIOUS
    <3>6. PICK u : u = [e \in extents |-> e.size]
      OBVIOUS
    <3>7. ASSUME NEW s \in Seqs
          PROVE  g[s] \in Int /\ q[s] \in Int /\ h[s] = g[s] + q[s]
      <4>1. CASE s \in D
        <5>1. s \in DOMAIN tables
          BY <3>1, <4>1
        <5>2. PICK c, w, k, m, r \in Nat :
                 Numbers(tables[s], reserved[s], scratch[s], spans[s], s # closing, c, w, k, m, r)
          BY <2>0, <5>1, LaidFacts
        <5>3. s # closing
          BY <2>2, SeqsFinite
        <5>4. w = spans[s].size /\ k = Len(tables[s]) /\ m = Len(reserved[s]) /\ r = Len(scratch[s])
              /\ k + m + r = w
          BY <5>2, <5>3 DEF Numbers
        <5>5. g[s] = k + r /\ q[s] = m /\ h[s] = w
          BY <3>3, <3>4, <4>1, <5>1, <5>4 DEF HeldLen, SpanLen
        <5>6. w = (k + r) + m
          <6>1. k + m + r = w
            BY <5>4
          <6> QED
            BY <6>1
        <5>7. k + r \in Int /\ m \in Int
          OBVIOUS
        <5> QED
          BY <5>5, <5>6, <5>7, Zenon
      <4>2. CASE s \notin D
        BY <3>1, <3>3, <3>4, <4>2 DEF HeldLen, SpanLen
      <4> QED
        BY <4>1, <4>2
    <3>8. SumFunctionOnSet(h, Seqs) = SumFunctionOnSet(g, Seqs) + SumFunctionOnSet(q, Seqs)
      BY <3>2, <3>7, SumPlus
    <3>9. SumFunctionOnSet(q, Seqs) = SumFunctionOnSet(q, D)
      <4>1. \A s \in Seqs : q[s] \in Int /\ (s \notin D => q[s] = 0)
        BY <3>4, <3>7
      <4> QED
        BY <3>2, <4>1, SumSupport
    <3>10. SumFunctionOnSet(v, D) = SumFunctionOnSet(q, D)
      <4>1. \A s \in D : q[s] \in Int /\ v[s] = q[s]
        BY <3>2, <3>4, <3>5, <3>7
      <4> QED
        BY <3>2, <4>1, SumEqual
    <3>11. SumFunctionOnSet(u, extents) = SumFunctionOnSet(Size, extents) /\ SumFunctionOnSet(Size, extents) \in Int
      <4>1. \A e \in extents : Size[e] \in Int /\ u[e] = Size[e]
        BY <2>0, <3>6, PieceFacts DEF ExtentsOK, Size
      <4>2. IsFiniteSet(extents)
        BY <2>0 DEF ExtentsOK
      <4> QED
        BY <4>1, <4>2, SumEqual, SumRemove
    <3>12. SumFunctionOnSet(g, Seqs) \in Int /\ SumFunctionOnSet(q, Seqs) \in Int
      BY <3>2, <3>7, SumRemove
    <3>13. num_free = SumFunctionOnSet(u, extents) + SumFunctionOnSet(v, D)
      BY <3>2, <3>5, <3>6, Zenon DEF num_free
    <3>14. PICK a, b, d \in Int : /\ a = SumFunctionOnSet(g, Seqs) /\ b = SumFunctionOnSet(q, Seqs)
                                  /\ d = SumFunctionOnSet(Size, extents)
      BY <3>11, <3>12
    <3>15. Cardinality(live) = a /\ num_free = d + b /\ NumBlocks = d + (a + b)
      BY <2>1, <3>3, <3>8, <3>9, <3>10, <3>11, <3>13, <3>14, Zenon
    <3> QED
      BY <3>15
  <2> QED
    BY <2>1, <2>2 DEF SpanGateFive
<1> QED
  BY <1>1, ContiguousInvariant, PTL
=============================================================================
