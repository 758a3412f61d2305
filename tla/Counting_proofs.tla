--------------------------- MODULE Counting_proofs ---------------------------
(***************************************************************************)
(* Lemmas about counting that the proofs of several components rest on:    *)
(* least and largest numbers, induction over a finite set and over         *)
(* numbers, sums over finite sets (the community operator                  *)
(* SumFunctionOnSet), quotients and remainders, and powers of two.         *)
(*                                                                         *)
(* The induction theorems of the library take the predicate as an operator *)
(* parameter.  Here the predicate is a set, which makes the lemmas         *)
(* first-order.                                                            *)
(***************************************************************************)
EXTENDS Integers, FiniteSets, FiniteSetsExt, FiniteSetTheorems, TLAPS

\* Python's min of a set of indices, and a heap's top, exist.
LEMMA NatMin ==
  ASSUME NEW S, S \subseteq Nat, S # {}
  PROVE  Min(S) \in S /\ \A n \in S : Min(S) <= n
<1>1. \A x, y \in Nat : y < x => <<y, x>> \in OpToRel(<, Nat)
  <2> SUFFICES ASSUME NEW x \in Nat, NEW y \in Nat, y < x
               PROVE  <<y, x>> \in OpToRel(<, Nat)
    OBVIOUS
  <2>1. <<y, x>> \in Nat \X Nat /\ <<y, x>>[1] < <<y, x>>[2]
    OBVIOUS
  <2> QED
    BY <2>1, Zenon DEF OpToRel
<1>2. PICK x \in S : \A y \in S : ~ (<<y, x>> \in OpToRel(<, Nat))
  BY WFMin, NatLessThanWellFounded
<1>3. \A y \in S : ~ (y < x)
  BY <1>1, <1>2, Zenon
<1>4. \A y \in S : x <= y
  BY <1>3
<1> QED
  BY <1>4 DEF Min

\* A collection of subsets of a finite set that has the empty set and is closed
\* under adding an element has the whole set.
LEMMA SetInduction ==
  ASSUME NEW U, IsFiniteSet(U), NEW P, {} \in P,
         \A T \in SUBSET U : T \in P => \A x \in U \ T : T \cup {x} \in P
  PROVE  U \in P
<1> SUFFICES ASSUME U \notin P PROVE FALSE
  OBVIOUS
<1> DEFINE Bad == {T \in SUBSET U : T \notin P}
           Sizes == {Cardinality(T) : T \in Bad}
<1>1. \A T \in SUBSET U : IsFiniteSet(T) /\ Cardinality(T) \in Nat
  BY FS_Subset, FS_CardinalityType
<1>2. Sizes \subseteq Nat /\ Sizes # {}
  BY <1>1
<1>3. Min(Sizes) \in Sizes /\ \A n \in Sizes : Min(Sizes) <= n
  BY <1>2, NatMin
<1>4. PICK T \in Bad : Cardinality(T) = Min(Sizes)
  BY <1>3
<1>5. PICK x \in T : TRUE
  BY <1>4
<1>6. Cardinality(T \ {x}) = Cardinality(T) - 1
  BY <1>1, <1>4, <1>5, FS_RemoveElement
<1>7. T \ {x} \notin Bad
  <2> SUFFICES ASSUME T \ {x} \in Bad PROVE FALSE
    OBVIOUS
  <2>1. Cardinality(T \ {x}) \in Sizes
    OBVIOUS
  <2>2. Cardinality(T) \in Nat
    BY <1>1, <1>4
  <2>3. Cardinality(T) <= Cardinality(T \ {x})
    BY <2>1, <1>3, <1>4, Zenon
  <2> HIDE DEF Bad, Sizes
  <2> QED
    BY <2>2, <2>3, <1>6
<1>8. T \ {x} \in P /\ x \in U \ (T \ {x}) /\ T = (T \ {x}) \cup {x}
  BY <1>4, <1>5, <1>7
<1>9. T \in P
  BY <1>4, <1>8
<1> QED
  BY <1>4, <1>9

-----------------------------------------------------------------------------
(* Sums *)

Pick(S) == CHOOSE x \in S : TRUE

\* g folds f over the subsets in A, which is closed under removing elements.
Folds(f, g, A) ==
  g = [s \in A |-> IF s = {} THEN 0 ELSE f[Pick(s)] + g[s \ {Pick(s)}]]

\* What the community operator stands for.
LEMMA SumIsFold ==
  ASSUME NEW f, NEW S
  PROVE  SumFunctionOnSet(f, S) = (CHOOSE g : Folds(f, g, SUBSET S))[S]
  BY Zenon DEF SumFunctionOnSet, FoldFunctionOnSet, MapThenFoldSet, Folds, Pick

\* The fold exists: it is built up by the size of the subsets.
LEMMA FoldExists ==
  ASSUME NEW f, NEW S, IsFiniteSet(S)
  PROVE  \E g : Folds(f, g, SUBSET S)
<1> DEFINE Small(k) == {s \in SUBSET S : Cardinality(s) <= k}
           Bad == {k \in Nat : ~ \E g : Folds(f, g, Small(k))}
<1>1. \A s \in SUBSET S : IsFiniteSet(s) /\ Cardinality(s) \in Nat
  BY FS_Subset, FS_CardinalityType
<1>2. \A s \in SUBSET S : s # {} => /\ Pick(s) \in s
                                    /\ s \ {Pick(s)} \in SUBSET S
                                    /\ Cardinality(s \ {Pick(s)}) = Cardinality(s) - 1
  BY <1>1, FS_RemoveElement DEF Pick
<1>3. \A s \in SUBSET S : Cardinality(s) = 0 => s = {}
  BY <1>1, FS_EmptySet
<1>4. Bad = {}
  <2> SUFFICES ASSUME Bad # {} PROVE FALSE
    OBVIOUS
  <2>1. PICK k \in Bad : \A j \in Bad : k <= j
    <3>1. Bad \subseteq Nat
      OBVIOUS
    <3> QED
      BY <3>1, NatMin
  <2>2. CASE k = 0
    <3> DEFINE g == [s \in Small(0) |-> 0]
    <3>1. \A s \in Small(0) : s = {}
      BY <1>1, <1>3
    <3>2. Folds(f, g, Small(0))
      BY <3>1 DEF Folds
    <3> QED
      BY <2>1, <2>2, <3>2
  <2>3. CASE k # 0
    <3>1. k \in Nat /\ k - 1 \in Nat /\ k - 1 \notin Bad
      <4>1. k \in Nat
        OBVIOUS
      <4> HIDE DEF Bad
      <4>2. k - 1 \in Nat
        BY <2>3, <4>1
      <4> QED
        BY <2>1, <4>1, <4>2
    <3>2. PICK h : Folds(f, h, Small(k - 1))
      BY <3>1
    <3> DEFINE g == [s \in Small(k) |-> IF s = {} THEN 0 ELSE f[Pick(s)] + h[s \ {Pick(s)}]]
    <3>3. \A s \in Small(k - 1) : s \in Small(k) /\ g[s] = h[s]
      <4> SUFFICES ASSUME NEW s \in Small(k - 1) PROVE s \in Small(k) /\ g[s] = h[s]
        OBVIOUS
      <4>1. s \in Small(k)
        BY <1>1, <3>1
      <4>2. h[s] = IF s = {} THEN 0 ELSE f[Pick(s)] + h[s \ {Pick(s)}]
        BY <3>2, Zenon DEF Folds
      <4> QED
        BY <4>1, <4>2
    <3>4. \A s \in Small(k) : s # {} => s \ {Pick(s)} \in Small(k - 1)
      BY <1>1, <1>2, <3>1
    <3>5. \A s \in Small(k) : s # {} => g[s \ {Pick(s)}] = h[s \ {Pick(s)}]
      BY <3>3, <3>4
    <3>6. Folds(f, g, Small(k))
      BY <3>5, Zenon DEF Folds
    <3> QED
      BY <2>1, <3>6
  <2> QED
    BY <2>2, <2>3
<1>5. Cardinality(S) \in Nat /\ \A s \in SUBSET S : Cardinality(s) <= Cardinality(S)
  BY <1>1, FS_Subset
<1>6. Small(Cardinality(S)) = SUBSET S
  BY <1>5
<1>7. Cardinality(S) \notin Bad
  BY <1>4
<1> QED
  BY <1>5, <1>6, <1>7

\* Two folds agree where both are defined.
LEMMA FoldUnique ==
  ASSUME NEW f, NEW S, NEW T, IsFiniteSet(S), T \subseteq S, NEW g, NEW h,
         Folds(f, g, SUBSET S), Folds(f, h, SUBSET T)
  PROVE  g[T] = h[T]
<1> DEFINE P == {s \in SUBSET T : \A r \in SUBSET T :
                                   Cardinality(r) <= Cardinality(s) => g[r] = h[r]}
<1>1. \A r \in SUBSET T : IsFiniteSet(r) /\ Cardinality(r) \in Nat
  BY FS_Subset, FS_CardinalityType
<1>2. g[{}] = 0 /\ h[{}] = 0
  BY DEF Folds
<1>3. {} \in P
  <2>1. \A r \in SUBSET T : Cardinality(r) <= Cardinality({}) => r = {}
    BY <1>1, FS_EmptySet
  <2> QED
    BY <1>2, <2>1
<1>4. ASSUME NEW s \in SUBSET T, s \in P, NEW x \in T \ s PROVE s \cup {x} \in P
  <2>1. Cardinality(s \cup {x}) = Cardinality(s) + 1
    BY <1>1, FS_AddElement
  <2>2. ASSUME NEW r \in SUBSET T, Cardinality(r) <= Cardinality(s) + 1, r # {}
        PROVE  g[r] = h[r]
    <3>1. PICK p : p = Pick(r)
      OBVIOUS
    <3>2. PICK q : q = r \ {p}
      OBVIOUS
    <3>3. p \in r
      BY <2>2, <3>1 DEF Pick
    <3>4. q \in SUBSET T /\ Cardinality(q) = Cardinality(r) - 1
      BY <3>2, <3>3, <1>1, FS_RemoveElement
    <3>5. g[q] = h[q]
      BY <1>1, <1>4, <2>2, <3>4
    <3>6. r \in SUBSET S /\ r \in SUBSET T
      OBVIOUS
    <3>7. g[r] = f[p] + g[q] /\ h[r] = f[p] + h[q]
      BY <3>1, <3>2, <3>6, <2>2, Zenon DEF Folds
    <3> QED
      BY <3>5, <3>7
  <2> QED
    BY <1>2, <2>1, <2>2
<1> HIDE DEF P
<1>5. IsFiniteSet(T)
  BY FS_Subset
<1>6. T \in P
  BY <1>3, <1>4, <1>5, SetInduction
<1> QED
  BY <1>1, <1>6 DEF P

\* The sum over nothing.
LEMMA SumEmpty ==
  ASSUME NEW f
  PROVE  SumFunctionOnSet(f, {}) = 0
<1>1. PICK g : g = CHOOSE h : Folds(f, h, SUBSET {})
  OBVIOUS
<1>2. Folds(f, g, SUBSET {})
  BY <1>1, FoldExists, FS_EmptySet
<1>3. g[{}] = 0
  BY <1>2 DEF Folds
<1> QED
  BY <1>1, <1>3, SumIsFold

\* The sum of a nonempty set, by the element the fold takes first.
LEMMA SumFirst ==
  ASSUME NEW f, NEW S, IsFiniteSet(S), S # {}
  PROVE  /\ Pick(S) \in S
         /\ SumFunctionOnSet(f, S) = f[Pick(S)] + SumFunctionOnSet(f, S \ {Pick(S)})
<1>1. PICK p : p = Pick(S)
  OBVIOUS
<1>2. p \in S
  BY <1>1 DEF Pick
<1>3. PICK g : g = CHOOSE k : Folds(f, k, SUBSET S)
  OBVIOUS
<1>4. PICK h : h = CHOOSE k : Folds(f, k, SUBSET (S \ {p}))
  OBVIOUS
<1>5. IsFiniteSet(S \ {p})
  BY FS_RemoveElement
<1>6. Folds(f, g, SUBSET S)
  BY <1>3, FoldExists
<1>7. Folds(f, h, SUBSET (S \ {p}))
  BY <1>4, <1>5, FoldExists
<1>8. g[S \ {p}] = h[S \ {p}]
  BY <1>6, <1>7, FoldUnique
<1>9. g[S] = f[p] + g[S \ {p}]
  <2>1. S \in SUBSET S
    OBVIOUS
  <2> QED
    BY <1>1, <1>6, <2>1, Zenon DEF Folds
<1>10. SumFunctionOnSet(f, S) = g[S] /\ SumFunctionOnSet(f, S \ {p}) = h[S \ {p}]
  BY <1>3, <1>4, SumIsFold
<1> QED
  BY <1>1, <1>2, <1>8, <1>9, <1>10

\* A sum of integers is an integer, and any element can be taken out first.
LEMMA SumRemove ==
  ASSUME NEW f, NEW S, IsFiniteSet(S), \A y \in S : f[y] \in Int
  PROVE  /\ SumFunctionOnSet(f, S) \in Int
         /\ \A x \in S : SumFunctionOnSet(f, S) = f[x] + SumFunctionOnSet(f, S \ {x})
<1> DEFINE Good(r) == /\ SumFunctionOnSet(f, r) \in Int
                      /\ \A x \in r : SumFunctionOnSet(f, r) = f[x] + SumFunctionOnSet(f, r \ {x})
           P == {s \in SUBSET S : \A r \in SUBSET S : Cardinality(r) <= Cardinality(s) => Good(r)}
<1>1. \A r \in SUBSET S : IsFiniteSet(r) /\ Cardinality(r) \in Nat
  BY FS_Subset, FS_CardinalityType
<1>2. Good({})
  BY SumEmpty
<1> HIDE DEF Good
<1>3. {} \in P
  BY <1>1, <1>2, FS_EmptySet
<1>4. ASSUME NEW s \in SUBSET S, s \in P, NEW x \in S \ s PROVE s \cup {x} \in P
  <2>1. Cardinality(s \cup {x}) = Cardinality(s) + 1
    BY <1>1, FS_AddElement
  <2>2. ASSUME NEW r \in SUBSET S, Cardinality(r) <= Cardinality(s) + 1, r # {}
        PROVE  Good(r)
    <3>1. PICK p : p = Pick(r)
      OBVIOUS
    <3>2. p \in r /\ SumFunctionOnSet(f, r) = f[p] + SumFunctionOnSet(f, r \ {p})
      BY <1>1, <2>2, <3>1, SumFirst
    <3>3. \A y \in r : r \ {y} \in SUBSET S /\ Cardinality(r \ {y}) <= Cardinality(s)
      <4> SUFFICES ASSUME NEW y \in r
                   PROVE  r \ {y} \in SUBSET S /\ Cardinality(r \ {y}) <= Cardinality(s)
        OBVIOUS
      <4>1. Cardinality(r \ {y}) = Cardinality(r) - 1
        BY <1>1, FS_RemoveElement
      <4>2. Cardinality(r) \in Nat /\ Cardinality(s) \in Nat
        BY <1>1
      <4> QED
        BY <2>2, <4>1, <4>2
    <3>4. \A y \in r : Good(r \ {y})
      BY <3>3, <1>4
    <3>5. ASSUME NEW y \in r, y # p
          PROVE  SumFunctionOnSet(f, r) = f[y] + SumFunctionOnSet(f, r \ {y})
      <4>1. y \in r \ {p} /\ p \in r \ {y} /\ (r \ {p}) \ {y} = (r \ {y}) \ {p}
        BY <3>2, <3>5
      <4>2. SumFunctionOnSet(f, r \ {p}) = f[y] + SumFunctionOnSet(f, (r \ {p}) \ {y})
        BY <3>2, <3>4, <4>1, Zenon DEF Good
      <4>3. SumFunctionOnSet(f, r \ {y}) = f[p] + SumFunctionOnSet(f, (r \ {y}) \ {p})
        BY <3>4, <4>1, Zenon DEF Good
      <4>4. Good((r \ {p}) \ {y})
        <5>1. IsFiniteSet(r \ {p}) /\ (r \ {p}) \ {y} \in SUBSET (r \ {p})
          BY <1>1
        <5>2. Cardinality((r \ {p}) \ {y}) <= Cardinality(r \ {p})
          BY <5>1, FS_Subset
        <5>3. Cardinality(r \ {p}) <= Cardinality(s)
          BY <3>2, <3>3
        <5>4. (r \ {p}) \ {y} \in SUBSET S /\ r \ {p} \in SUBSET S
          OBVIOUS
        <5>5. Cardinality((r \ {p}) \ {y}) <= Cardinality(s)
          BY <1>1, <5>2, <5>3, <5>4
        <5> QED
          BY <5>4, <5>5, <1>4
      <4>5. f[y] \in Int /\ f[p] \in Int /\ SumFunctionOnSet(f, (r \ {p}) \ {y}) \in Int
        BY <3>2, <4>4 DEF Good
      <4>6. SumFunctionOnSet(f, r) = f[p] + (f[y] + SumFunctionOnSet(f, (r \ {p}) \ {y}))
        BY <3>2, <4>2
      <4>7. SumFunctionOnSet(f, r \ {y}) = f[p] + SumFunctionOnSet(f, (r \ {p}) \ {y})
        BY <4>1, <4>3
      <4>8. PICK a, b, c : a = f[y] /\ b = f[p] /\ c = SumFunctionOnSet(f, (r \ {p}) \ {y})
        OBVIOUS
      <4>9. b + (a + c) = a + (b + c)
        BY <4>5, <4>8
      <4> QED
        BY <4>6, <4>7, <4>8, <4>9
    <3>6. SumFunctionOnSet(f, r) \in Int
      BY <3>2, <3>4 DEF Good
    <3> QED
      BY <3>2, <3>5, <3>6 DEF Good
  <2> QED
    BY <1>2, <2>1, <2>2
<1> HIDE DEF P
<1>5. S \in P
  BY <1>3, <1>4, SetInduction
<1>6. Good(S)
  BY <1>1, <1>5 DEF P
<1> QED
  BY <1>6 DEF Good

\* Taking one element out of a sum, for a fact that names no other element.
LEMMA SumAdd ==
  ASSUME NEW f, NEW S, IsFiniteSet(S), NEW x, x \notin S,
         \A y \in S \cup {x} : f[y] \in Int
  PROVE  SumFunctionOnSet(f, S \cup {x}) = f[x] + SumFunctionOnSet(f, S)
<1>1. IsFiniteSet(S \cup {x}) /\ (S \cup {x}) \ {x} = S
  BY FS_AddElement
<1> QED
  BY <1>1, SumRemove

\* Functions that agree on a set have the same sum over it.
LEMMA SumEqual ==
  ASSUME NEW f, NEW g, NEW S, IsFiniteSet(S),
         \A y \in S : f[y] \in Int /\ g[y] = f[y]
  PROVE  SumFunctionOnSet(g, S) = SumFunctionOnSet(f, S)
<1> DEFINE P == {s \in SUBSET S : SumFunctionOnSet(g, s) = SumFunctionOnSet(f, s)}
<1>1. {} \in P
  BY SumEmpty
<1>2. ASSUME NEW s \in SUBSET S, s \in P, NEW x \in S \ s PROVE s \cup {x} \in P
  <2>1. IsFiniteSet(s)
    BY FS_Subset
  <2>2. \A y \in s \cup {x} : f[y] \in Int /\ g[y] \in Int
    OBVIOUS
  <2>3. SumFunctionOnSet(f, s \cup {x}) = f[x] + SumFunctionOnSet(f, s)
    BY <2>1, <2>2, SumAdd
  <2>4. SumFunctionOnSet(g, s \cup {x}) = g[x] + SumFunctionOnSet(g, s)
    BY <2>1, <2>2, SumAdd
  <2> QED
    BY <1>2, <2>3, <2>4
<1> HIDE DEF P
<1>3. S \in P
  BY <1>1, <1>2, SetInduction
<1> QED
  BY <1>3 DEF P

\* Summing over another index set.
LEMMA SumReindex ==
  ASSUME NEW S, NEW T, IsFiniteSet(S), NEW h \in Bijection(S, T), NEW f, NEW g,
         \A y \in T : g[y] \in Int, \A x \in S : f[x] = g[h[x]]
  PROVE  SumFunctionOnSet(f, S) = SumFunctionOnSet(g, T)
<1> DEFINE Image(s) == {h[x] : x \in s}
           P == {s \in SUBSET S : SumFunctionOnSet(f, s) = SumFunctionOnSet(g, Image(s))}
<1>0. /\ \A x \in S : h[x] \in T
      /\ \A x, y \in S : h[x] = h[y] => x = y
      /\ \A y \in T : \E x \in S : h[x] = y
  BY DEF Bijection, Injection, IsInjective, Surjection
<1>1. {} \in P
  <2>1. Image({}) = {}
    OBVIOUS
  <2> QED
    BY <2>1, SumEmpty
<1>2. ASSUME NEW s \in SUBSET S, s \in P, NEW x \in S \ s PROVE s \cup {x} \in P
  <2>1. IsFiniteSet(s)
    BY FS_Subset
  <2>2. PICK I, y : I = Image(s) /\ y = h[x]
    OBVIOUS
  <2>3. IsFiniteSet(I)
    <3>1. PICK k : k = [z \in s |-> h[z]]
      OBVIOUS
    <3>2. k \in Surjection(s, I)
      BY <2>2, <3>1 DEF Surjection
    <3> QED
      BY <2>1, <3>2, FS_Surjection
  <2>4. y \notin I /\ Image(s \cup {x}) = I \cup {y} /\ I \cup {y} \subseteq T
    BY <1>0, <2>2
  <2>5. SumFunctionOnSet(f, s \cup {x}) = f[x] + SumFunctionOnSet(f, s)
    <3>1. \A z \in s \cup {x} : f[z] \in Int
      BY <1>0
    <3> QED
      BY <2>1, <3>1, SumAdd
  <2>6. SumFunctionOnSet(g, I \cup {y}) = g[y] + SumFunctionOnSet(g, I)
    BY <2>3, <2>4, SumAdd
  <2>7. f[x] = g[y] /\ SumFunctionOnSet(f, s) = SumFunctionOnSet(g, I)
    BY <1>2, <2>2
  <2> QED
    BY <2>4, <2>5, <2>6, <2>7
<1>3. Image(S) = T
  BY <1>0
<1> HIDE DEF P
<1>4. S \in P
  BY <1>1, <1>2, SetInduction
<1> QED
  BY <1>3, <1>4 DEF P

\* Adding a constant to the summand of one element.
LEMMA SumChange ==
  ASSUME NEW f, NEW g, NEW S, IsFiniteSet(S), NEW x \in S, NEW d \in Int,
         \A y \in S : f[y] \in Int /\ g[y] = IF y = x THEN f[y] + d ELSE f[y]
  PROVE  SumFunctionOnSet(g, S) = SumFunctionOnSet(f, S) + d
<1>1. IsFiniteSet(S \ {x}) /\ \A y \in S : g[y] \in Int
  BY FS_RemoveElement
<1>2. SumFunctionOnSet(f, S) = f[x] + SumFunctionOnSet(f, S \ {x})
  BY SumRemove
<1>3. SumFunctionOnSet(g, S) = g[x] + SumFunctionOnSet(g, S \ {x})
  BY <1>1, SumRemove
<1>4. \A y \in S \ {x} : f[y] \in Int /\ g[y] = f[y]
  OBVIOUS
<1>5. SumFunctionOnSet(g, S \ {x}) = SumFunctionOnSet(f, S \ {x})
  BY <1>1, <1>4, SumEqual
<1>6. SumFunctionOnSet(f, S \ {x}) \in Int
  BY <1>1, SumRemove
<1>7. g[x] = f[x] + d /\ f[x] \in Int
  OBVIOUS
<1> QED
  BY <1>2, <1>3, <1>5, <1>6, <1>7

\* The sum over a set and over the rest of a larger one.
LEMMA SumSplit ==
  ASSUME NEW f, NEW S, IsFiniteSet(S), NEW T, T \subseteq S, \A y \in S : f[y] \in Int
  PROVE  SumFunctionOnSet(f, S) = SumFunctionOnSet(f, T) + SumFunctionOnSet(f, S \ T)
<1> DEFINE P == {s \in SUBSET T :
                    SumFunctionOnSet(f, S) = SumFunctionOnSet(f, s) + SumFunctionOnSet(f, S \ s)}
<1>0. IsFiniteSet(T)
  BY FS_Subset
<1>1. {} \in P
  <2>1. S \ {} = S /\ SumFunctionOnSet(f, S) \in Int
    BY SumRemove
  <2> QED
    BY <2>1, SumEmpty
<1>2. ASSUME NEW s \in SUBSET T, s \in P, NEW x \in T \ s PROVE s \cup {x} \in P
  <2>1. IsFiniteSet(s) /\ IsFiniteSet(S \ s) /\ IsFiniteSet(S \ (s \cup {x}))
    BY FS_Subset
  <2>2. \A y \in s \cup {x} : f[y] \in Int
    OBVIOUS
  <2>3. SumFunctionOnSet(f, s \cup {x}) = f[x] + SumFunctionOnSet(f, s)
    BY <2>1, <2>2, SumAdd
  <2>4. (S \ s) \ {x} = S \ (s \cup {x}) /\ x \in S \ s
    OBVIOUS
  <2>5. SumFunctionOnSet(f, S \ s) = f[x] + SumFunctionOnSet(f, S \ (s \cup {x}))
    BY <2>1, <2>4, SumRemove
  <2>6. SumFunctionOnSet(f, s) \in Int /\ SumFunctionOnSet(f, S \ (s \cup {x})) \in Int
    BY <2>1, SumRemove
  <2>7. f[x] \in Int
    OBVIOUS
  <2> QED
    BY <1>2, <2>3, <2>5, <2>6, <2>7
<1> HIDE DEF P
<1>3. T \in P
  BY <1>0, <1>1, <1>2, SetInduction
<1> QED
  BY <1>3 DEF P

\* A sum is monotonic in its summands.
LEMMA SumMono ==
  ASSUME NEW f, NEW g, NEW S, IsFiniteSet(S),
         \A y \in S : f[y] \in Int /\ g[y] \in Int /\ f[y] <= g[y]
  PROVE  SumFunctionOnSet(f, S) <= SumFunctionOnSet(g, S)
<1> DEFINE P == {s \in SUBSET S : SumFunctionOnSet(f, s) <= SumFunctionOnSet(g, s)}
<1>1. {} \in P
  BY SumEmpty
<1>2. ASSUME NEW s \in SUBSET S, s \in P, NEW x \in S \ s PROVE s \cup {x} \in P
  <2>1. IsFiniteSet(s)
    BY FS_Subset
  <2>2. \A y \in s \cup {x} : f[y] \in Int /\ g[y] \in Int
    OBVIOUS
  <2>3. SumFunctionOnSet(f, s \cup {x}) = f[x] + SumFunctionOnSet(f, s)
    BY <2>1, <2>2, SumAdd
  <2>4. SumFunctionOnSet(g, s \cup {x}) = g[x] + SumFunctionOnSet(g, s)
    BY <2>1, <2>2, SumAdd
  <2>5. SumFunctionOnSet(f, s) \in Int /\ SumFunctionOnSet(g, s) \in Int
    BY <2>1, SumRemove
  <2>6. f[x] \in Int /\ g[x] \in Int /\ f[x] <= g[x]
    OBVIOUS
  <2> QED
    BY <1>2, <2>3, <2>4, <2>5, <2>6
<1> HIDE DEF P
<1>3. S \in P
  BY <1>1, <1>2, SetInduction
<1> QED
  BY <1>3 DEF P

\* A sum of naturals is a natural, and at least each of them.
LEMMA SumNat ==
  ASSUME NEW f, NEW S, IsFiniteSet(S), \A y \in S : f[y] \in Nat
  PROVE  /\ SumFunctionOnSet(f, S) \in Nat
         /\ \A x \in S : f[x] <= SumFunctionOnSet(f, S)
<1> DEFINE P == {s \in SUBSET S : SumFunctionOnSet(f, s) \in Nat}
<1>1. {} \in P
  BY SumEmpty
<1>2. ASSUME NEW s \in SUBSET S, s \in P, NEW x \in S \ s PROVE s \cup {x} \in P
  <2>1. IsFiniteSet(s)
    BY FS_Subset
  <2>2. \A y \in s \cup {x} : f[y] \in Int
    OBVIOUS
  <2>3. SumFunctionOnSet(f, s \cup {x}) = f[x] + SumFunctionOnSet(f, s)
    BY <2>1, <2>2, SumAdd
  <2> QED
    BY <1>2, <2>3
<1>3. \A T \in SUBSET S : T \in P
  <2> HIDE DEF P
  <2> SUFFICES ASSUME NEW T \in SUBSET S PROVE T \in P
    OBVIOUS
  <2>1. IsFiniteSet(T)
    BY FS_Subset
  <2>2. \A s \in SUBSET T : s \in P => \A x \in T \ s : s \cup {x} \in P
    BY <1>2
  <2> QED
    BY <1>1, <2>1, <2>2, SetInduction
<1>4. ASSUME NEW x \in S PROVE f[x] <= SumFunctionOnSet(f, S)
  <2>1. SumFunctionOnSet(f, S) = f[x] + SumFunctionOnSet(f, S \ {x})
    BY SumRemove
  <2>2. SumFunctionOnSet(f, S \ {x}) \in Nat
    BY <1>3
  <2> QED
    BY <2>1, <2>2
<1> QED
  BY <1>3, <1>4

\* A sum of equal terms is a product.
LEMMA SumConst ==
  ASSUME NEW f, NEW S, IsFiniteSet(S), NEW c \in Int, \A y \in S : f[y] = c
  PROVE  SumFunctionOnSet(f, S) = c * Cardinality(S)
<1> DEFINE P == {s \in SUBSET S : SumFunctionOnSet(f, s) = c * Cardinality(s)}
<1>1. {} \in P
  BY SumEmpty, FS_EmptySet
<1>2. ASSUME NEW s \in SUBSET S, s \in P, NEW x \in S \ s PROVE s \cup {x} \in P
  <2>1. IsFiniteSet(s)
    BY FS_Subset
  <2>2. \A y \in s \cup {x} : f[y] \in Int
    OBVIOUS
  <2>3. SumFunctionOnSet(f, s \cup {x}) = f[x] + SumFunctionOnSet(f, s)
    BY <2>1, <2>2, SumAdd
  <2>4. PICK k \in Nat : k = Cardinality(s)
    BY <2>1, FS_CardinalityType
  <2>5. Cardinality(s \cup {x}) = k + 1
    BY <2>1, <2>4, FS_AddElement
  <2>6. c + c * k = c * (k + 1)
    OBVIOUS
  <2>7. SumFunctionOnSet(f, s) = c * k /\ f[x] = c
    BY <1>2, <2>4
  <2>8. SumFunctionOnSet(f, s \cup {x}) = c * Cardinality(s \cup {x})
    BY <2>3, <2>5, <2>6, <2>7, Zenon
  <2> QED
    BY <2>8
<1> HIDE DEF P
<1>3. S \in P
  BY <1>1, <1>2, SetInduction
<1> QED
  BY <1>3 DEF P

\* One summand changes.
LEMMA SumAt ==
  ASSUME NEW f, NEW g, NEW S, IsFiniteSet(S), NEW x \in S,
         \A y \in S : f[y] \in Int /\ g[y] \in Int /\ (y # x => g[y] = f[y])
  PROVE  SumFunctionOnSet(g, S) = SumFunctionOnSet(f, S) + (g[x] - f[x])
<1>1. PICK d \in Int : d = g[x] - f[x]
  OBVIOUS
<1>2. \A y \in S : f[y] \in Int /\ g[y] = IF y = x THEN f[y] + d ELSE f[y]
  BY <1>1
<1>3. SumFunctionOnSet(g, S) = SumFunctionOnSet(f, S) + d
  BY <1>2, SumChange
<1> QED
  BY <1>1, <1>3

\* Forgetting some of the summands.
LEMMA SumForget ==
  ASSUME NEW f, NEW g, NEW S, IsFiniteSet(S), NEW V, V \subseteq S,
         \A y \in S : f[y] \in Int /\ g[y] = IF y \in V THEN 0 ELSE f[y]
  PROVE  SumFunctionOnSet(g, S) = SumFunctionOnSet(f, S) - SumFunctionOnSet(f, V)
<1>1. PICK W : W = S \ V
  OBVIOUS
<1>2. V \in SUBSET S /\ W \in SUBSET S /\ IsFiniteSet(V) /\ IsFiniteSet(W)
  BY <1>1, FS_Subset
<1>3. \A y \in S : g[y] \in Int
  OBVIOUS
<1>4. SumFunctionOnSet(f, S) = SumFunctionOnSet(f, V) + SumFunctionOnSet(f, W)
  BY <1>1, <1>2, SumSplit
<1>5. SumFunctionOnSet(g, S) = SumFunctionOnSet(g, V) + SumFunctionOnSet(g, W)
  BY <1>1, <1>2, <1>3, SumSplit
<1>6. SumFunctionOnSet(g, V) = 0
  <2>1. \A y \in V : g[y] = 0
    OBVIOUS
  <2>2. 0 \in Int
    OBVIOUS
  <2>3. SumFunctionOnSet(g, V) = 0 * Cardinality(V)
    BY <1>2, <2>1, <2>2, SumConst
  <2>4. Cardinality(V) \in Nat
    BY <1>2, FS_CardinalityType
  <2> QED
    BY <2>3, <2>4
<1>7. SumFunctionOnSet(g, W) = SumFunctionOnSet(f, W)
  <2>1. \A y \in W : f[y] \in Int /\ g[y] = f[y]
    BY <1>1
  <2> QED
    BY <1>2, <2>1, SumEqual
<1>8. SumFunctionOnSet(f, V) \in Int /\ SumFunctionOnSet(f, W) \in Int
  BY <1>2, SumRemove
<1> QED
  BY <1>4, <1>5, <1>6, <1>7, <1>8

\* The sum over one element.
LEMMA SumOne ==
  ASSUME NEW f, NEW x, f[x] \in Int
  PROVE  SumFunctionOnSet(f, {x}) = f[x]
<1>1. PICK S : S = {}
  OBVIOUS
<1>2. IsFiniteSet(S) /\ x \notin S /\ S \cup {x} = {x}
  BY <1>1, FS_EmptySet
<1>3. \A y \in S \cup {x} : f[y] \in Int
  BY <1>1
<1>4. SumFunctionOnSet(f, S \cup {x}) = f[x] + SumFunctionOnSet(f, S)
  BY <1>2, <1>3, SumAdd
<1> QED
  BY <1>1, <1>2, <1>4, SumEmpty

\* The sum of a pointwise sum.
LEMMA SumPlus ==
  ASSUME NEW f, NEW g, NEW h, NEW S, IsFiniteSet(S),
         \A y \in S : f[y] \in Int /\ g[y] \in Int /\ h[y] = f[y] + g[y]
  PROVE  SumFunctionOnSet(h, S) = SumFunctionOnSet(f, S) + SumFunctionOnSet(g, S)
<1> DEFINE P == {s \in SUBSET S : SumFunctionOnSet(h, s) = SumFunctionOnSet(f, s) + SumFunctionOnSet(g, s)}
<1>1. {} \in P
  BY SumEmpty
<1>2. ASSUME NEW s \in SUBSET S, s \in P, NEW x \in S \ s PROVE s \cup {x} \in P
  <2>1. IsFiniteSet(s)
    BY FS_Subset
  <2>2. \A y \in s \cup {x} : f[y] \in Int /\ g[y] \in Int /\ h[y] \in Int
    OBVIOUS
  <2>3. /\ SumFunctionOnSet(f, s \cup {x}) = f[x] + SumFunctionOnSet(f, s)
        /\ SumFunctionOnSet(g, s \cup {x}) = g[x] + SumFunctionOnSet(g, s)
        /\ SumFunctionOnSet(h, s \cup {x}) = h[x] + SumFunctionOnSet(h, s)
    BY <2>1, <2>2, SumAdd
  <2>4. SumFunctionOnSet(f, s) \in Int /\ SumFunctionOnSet(g, s) \in Int
    BY <2>1, <2>2, SumRemove
  <2>5. h[x] = f[x] + g[x] /\ f[x] \in Int /\ g[x] \in Int
    OBVIOUS
  <2>6. SumFunctionOnSet(h, s) = SumFunctionOnSet(f, s) + SumFunctionOnSet(g, s)
    BY <1>2
  <2>7. SumFunctionOnSet(h, s \cup {x}) = SumFunctionOnSet(f, s \cup {x}) + SumFunctionOnSet(g, s \cup {x})
    BY <2>3, <2>4, <2>5, <2>6
  <2> QED
    BY <2>7
<1> HIDE DEF P
<1>3. S \in P
  BY <1>1, <1>2, SetInduction
<1> QED
  BY <1>3 DEF P

\* Elements whose summand is 0 do not count.
LEMMA SumSupport ==
  ASSUME NEW f, NEW S, IsFiniteSet(S), NEW T, T \subseteq S,
         \A y \in S : f[y] \in Int /\ (y \notin T => f[y] = 0)
  PROVE  SumFunctionOnSet(f, S) = SumFunctionOnSet(f, T)
<1>1. PICK W : W = S \ T
  OBVIOUS
<1>2. IsFiniteSet(T) /\ IsFiniteSet(W)
  BY <1>1, FS_Subset
<1>3. SumFunctionOnSet(f, S) = SumFunctionOnSet(f, T) + SumFunctionOnSet(f, W)
  BY <1>1, SumSplit
<1>4. PICK z \in Int : z = 0
  OBVIOUS
<1>5. \A y \in W : f[y] = z
  BY <1>1, <1>4
<1>6. SumFunctionOnSet(f, W) = z * Cardinality(W) /\ Cardinality(W) \in Nat
  BY <1>2, <1>5, SumConst, FS_CardinalityType
<1>7. SumFunctionOnSet(f, T) \in Int
  BY <1>2, SumRemove
<1> QED
  BY <1>3, <1>4, <1>6, <1>7

-----------------------------------------------------------------------------
(* Largest numbers, classes *)

\* The first n numbers are n.
LEMMA UpTo ==
  ASSUME NEW n \in Nat
  PROVE  IsFiniteSet(1 .. n) /\ Cardinality(1 .. n) = n
<1>1. PICK o \in Int : o = 1
  OBVIOUS
<1>2. IsFiniteSet(o .. n) /\ Cardinality(o .. n) = IF o > n THEN 0 ELSE n - o + 1
  BY FS_Interval
<1> QED
  BY <1>1, <1>2

\* A nonempty set of numbers with an upper bound has a largest one.
LEMMA NatMax ==
  ASSUME NEW n \in Nat, NEW S, S \subseteq 0 .. n, S # {}
  PROVE  Max(S) \in S /\ \A x \in S : x <= Max(S)
<1> DEFINE T == {n - x : x \in S}
<1>1. T \subseteq Nat /\ T # {}
  <2>1. \A x \in S : x \in Int /\ 0 <= x /\ x <= n
    OBVIOUS
  <2>2. \A x \in S : n - x \in Nat
    BY <2>1
  <2> QED
    BY <2>2
<1>2. Min(T) \in T /\ \A t \in T : Min(T) <= t
  BY <1>1, NatMin
<1>3. PICK x \in S : n - x = Min(T)
  BY <1>2
<1>4. \A y \in S : n - x <= n - y
  BY <1>2, <1>3
<1>5. \A y \in S : x >= y
  BY <1>4
<1>6. \E z \in S : \A y \in S : z >= y
  BY <1>5
<1>7. Max(S) \in S /\ \A y \in S : Max(S) >= y
  BY <1>6, Zenon DEF Max
<1> QED
  BY <1>7

\* The sizes of the classes of M that the values of g in R make.
ClassSizes(M, g, R) == [r \in R |-> Cardinality({x \in M : g[x] = r})]

\* Counting a set class by class.
LEMMA SumClasses ==
  ASSUME NEW M, IsFiniteSet(M), NEW R, IsFiniteSet(R), NEW g, \A x \in M : g[x] \in R
  PROVE  SumFunctionOnSet(ClassSizes(M, g, R), R) = Cardinality(M)
<1> DEFINE Class(s, r) == {x \in s : g[x] = r}
           f(s) == [r \in R |-> Cardinality(Class(s, r))]
           P == {s \in SUBSET M : SumFunctionOnSet(f(s), R) = Cardinality(s)}
<1>1. \A s \in SUBSET M : IsFiniteSet(s) /\ \A r \in R : IsFiniteSet(Class(s, r)) /\ Cardinality(Class(s, r)) \in Nat
  <2>1. ASSUME NEW s \in SUBSET M, NEW r \in R PROVE IsFiniteSet(s) /\ IsFiniteSet(Class(s, r))
    <3>1. Class(s, r) \in SUBSET M
      OBVIOUS
    <3> QED
      BY <3>1, FS_Subset
  <2>2. \A s \in SUBSET M : IsFiniteSet(s)
    BY FS_Subset
  <2> QED
    BY <2>1, <2>2, FS_CardinalityType
<1>2. {} \in P
  <2>1. \A r \in R : f({})[r] = 0
    BY FS_EmptySet
  <2>2. PICK h : h = f({})
    OBVIOUS
  <2>6. PICK z \in Int : z = 0
    OBVIOUS
  <2>3. SumFunctionOnSet(h, R) = z * Cardinality(R)
    BY <2>1, <2>2, <2>6, SumConst
  <2>4. Cardinality(R) \in Nat
    BY FS_CardinalityType
  <2>5. SumFunctionOnSet(f({}), R) = Cardinality({})
    BY <2>2, <2>3, <2>4, <2>6, FS_EmptySet
  <2> QED
    BY <2>5
<1>3. ASSUME NEW s \in SUBSET M, s \in P, NEW x \in M \ s PROVE s \cup {x} \in P
  <2>1. PICK h, k : h = f(s) /\ k = f(s \cup {x})
    OBVIOUS
  <2>2. \A r \in R : h[r] = Cardinality(Class(s, r)) /\ k[r] = Cardinality(Class(s \cup {x}, r))
    BY <2>1
  <2>3. PICK q \in R : q = g[x]
    OBVIOUS
  <2>4. Class(s \cup {x}, q) = Class(s, q) \cup {x} /\ x \notin Class(s, q)
    BY <2>3
  <2>5. \A r \in R : r # q => Class(s \cup {x}, r) = Class(s, r)
    BY <2>3
  <2>6. Cardinality(Class(s \cup {x}, q)) = Cardinality(Class(s, q)) + 1
    BY <1>1, <2>4, FS_AddElement
  <2>7. \A r \in R : h[r] \in Int /\ k[r] = IF r = q THEN h[r] + 1 ELSE h[r]
    <3> HIDE DEF Class, f
    <3>4. \A r \in R : Cardinality(Class(s, r)) \in Nat
      BY <1>1, Zenon
    <3>1. \A r \in R : Cardinality(Class(s, r)) \in Int
      BY <3>4
    <3>2. \A r \in R : r # q => k[r] = h[r]
      BY <2>2, <2>5
    <3>3. k[q] = h[q] + 1
      BY <2>2, <2>6
    <3> QED
      BY <2>2, <3>1, <3>2, <3>3
  <2>8. SumFunctionOnSet(k, R) = SumFunctionOnSet(h, R) + 1
    <3>1. PICK d \in Int : d = 1
      OBVIOUS
    <3>2. \A r \in R : h[r] \in Int /\ k[r] = IF r = q THEN h[r] + d ELSE h[r]
      BY <2>7, <3>1
    <3> HIDE DEF Class, f
    <3>3. SumFunctionOnSet(k, R) = SumFunctionOnSet(h, R) + d
      BY <3>2, SumChange
    <3> QED
      BY <3>1, <3>3
  <2>9. Cardinality(s \cup {x}) = Cardinality(s) + 1
    BY <1>1, FS_AddElement
  <2>10. SumFunctionOnSet(h, R) = Cardinality(s)
    BY <1>3, <2>1
  <2>11. SumFunctionOnSet(f(s \cup {x}), R) = Cardinality(s \cup {x})
    BY <2>1, <2>8, <2>9, <2>10, Zenon
  <2> HIDE DEF f
  <2> QED
    BY <2>11
<1>4. M \in P
  <2> HIDE DEF P
  <2> QED
    BY <1>2, <1>3, SetInduction
<1>5. SumFunctionOnSet(f(M), R) = Cardinality(M)
  BY <1>4
<1>6. f(M) = ClassSizes(M, g, R)
  BY DEF ClassSizes
<1> HIDE DEF f
<1> QED
  BY <1>5, <1>6

-----------------------------------------------------------------------------
(* Induction over numbers *)

\* Induction over the numbers.
LEMMA NatInduct ==
  ASSUME NEW P, 0 \in P, \A k \in Nat : k \in P => k + 1 \in P
  PROVE  \A k \in Nat : k \in P
<1> DEFINE Bad == Nat \ P
<1> SUFFICES ASSUME Bad # {} PROVE FALSE
  OBVIOUS
<1>1. PICK k \in Bad : \A b \in Bad : k <= b
  <2>1. Bad \subseteq Nat
    OBVIOUS
  <2> HIDE DEF Bad
  <2>2. Min(Bad) \in Bad /\ \A b \in Bad : Min(Bad) <= b
    BY <2>1, NatMin
  <2> QED
    BY <2>2
<1>2. k \in Nat /\ k # 0
  OBVIOUS
<1>3. k - 1 \in Nat /\ k - 1 \notin Bad
  BY <1>1, <1>2
<1>4. (k - 1) + 1 \in P
  BY <1>3
<1> QED
  BY <1>2, <1>4

\* Induction up to a bound.
LEMMA UpToInduct ==
  ASSUME NEW n \in Nat, NEW P, 0 \in P, \A k \in 0 .. n : k < n /\ k \in P => k + 1 \in P
  PROVE  n \in P
<1> DEFINE Q == {k \in Nat : k <= n => k \in P}
<1>1. 0 \in Q
  OBVIOUS
<1>2. ASSUME NEW k \in Nat, k \in Q PROVE k + 1 \in Q
  BY <1>2
<1> HIDE DEF Q
<1>3. \A k \in Nat : k \in Q
  BY <1>1, <1>2, NatInduct
<1> QED
  BY <1>3 DEF Q

-----------------------------------------------------------------------------
(* Products, quotients and remainders *)

\* Positive sizes multiply to a positive size.
LEMMA Product ==
  ASSUME NEW a \in Nat \ {0}, NEW b \in Nat \ {0}
  PROVE  a * b \in Nat \ {0}
  OBVIOUS

\* Multiplying by a positive size keeps the order.
LEMMA Cancel ==
  ASSUME NEW a \in Nat, NEW b \in Nat, NEW c \in Nat \ {0}
  PROVE  /\ a * c <= b * c => a <= b
         /\ a * c = b * c => a = b
         /\ a <= b => a * c <= b * c
<1>1. ASSUME NEW u \in Nat, NEW v \in Nat, u < v PROVE u * c < v * c
  <2>1. PICK d \in Nat : v = u + 1 + d
    <3>1. v - u - 1 \in Nat /\ v = u + 1 + (v - u - 1)
      BY <1>1
    <3> QED
      BY <3>1
  <2>2. v * c = u * c + c + d * c /\ d * c \in Nat /\ u * c \in Nat
    BY <2>1
  <2> QED
    BY <2>2
<1>2. a * c \in Nat /\ b * c \in Nat
  OBVIOUS
<1>3. a < b => a * c < b * c
  BY <1>1
<1>4. b < a => b * c < a * c
  BY <1>1
<1> QED
  BY <1>2, <1>3, <1>4

\* Division, without the operators.
LEMMA DivMod ==
  ASSUME NEW x \in Nat, NEW b \in Nat \ {0}
  PROVE  \E q \in Nat, r \in 0 .. b - 1 : x = q * b + r /\ q = x \div b /\ r = x % b
<1>1. x \div b \in Nat /\ x % b \in 0 .. b - 1 /\ x = (x \div b) * b + (x % b)
  OBVIOUS
<1> QED
  BY <1>1

\* Quotient and remainder are determined by what they satisfy.
LEMMA DivUnique ==
  ASSUME NEW b \in Nat \ {0}, NEW q \in Nat, NEW r \in 0 .. b - 1, NEW x \in Nat, x = q * b + r
  PROVE  x \div b = q /\ x % b = r
<1>1. PICK p \in Nat, t \in 0 .. b - 1 : x = p * b + t /\ p = x \div b /\ t = x % b
  BY DivMod
<1>2. ~(p < q)
  <2> SUFFICES ASSUME p < q PROVE FALSE
    OBVIOUS
  <2>1. PICK d \in Nat : q = p + 1 + d
    <3>1. q - p - 1 \in Nat /\ q = p + 1 + (q - p - 1)
      OBVIOUS
    <3> QED
      BY <3>1
  <2>2. q * b = p * b + b + d * b /\ d * b \in Nat /\ p * b \in Nat
    BY <2>1
  <2> QED
    BY <1>1, <2>2
<1>3. ~(q < p)
  <2> SUFFICES ASSUME q < p PROVE FALSE
    OBVIOUS
  <2>1. PICK d \in Nat : p = q + 1 + d
    <3>1. p - q - 1 \in Nat /\ p = q + 1 + (p - q - 1)
      OBVIOUS
    <3> QED
      BY <3>1
  <2>2. p * b = q * b + b + d * b /\ d * b \in Nat /\ q * b \in Nat
    BY <2>1
  <2> QED
    BY <1>1, <2>2
<1> QED
  BY <1>1, <1>2, <1>3

\* A number less than the product of two is two digits.
LEMMA TwoDigits ==
  ASSUME NEW p \in Nat \ {0}, NEW q \in Nat \ {0}, NEW s \in 0 .. q - 1, NEW r \in 0 .. p - 1
  PROVE  s * p + r \in 0 .. p * q - 1 /\ p * q \in Nat \ {0}
<1>1. PICK d \in Nat : q = s + 1 + d
  <2>1. q - s - 1 \in Nat /\ q = s + 1 + (q - s - 1)
    OBVIOUS
  <2> QED
    BY <2>1
<1>2. p * q = s * p + p + d * p /\ d * p \in Nat /\ s * p \in Nat
  BY <1>1
<1> QED
  BY <1>2

\* The remainder by a product has the digits of the two remainders, and the
\* quotient by it is the quotient of the quotient.
InDigits(x, p, q, u) ==
    x % u = (x % p) + ((x \div p) % q) * p /\ x \div u = (x \div p) \div q
LEMMA ModProduct ==
  ASSUME NEW x \in Nat, NEW p \in Nat \ {0}, NEW q \in Nat \ {0}, NEW u \in Nat \ {0}, u = p * q
  PROVE  InDigits(x, p, q, u)
<1>1. PICK a \in Nat, r \in 0 .. p - 1 : x = a * p + r /\ a = x \div p /\ r = x % p
  BY DivMod
<1>2. PICK b \in Nat, s \in 0 .. q - 1 : a = b * q + s /\ b = a \div q /\ s = a % q
  BY DivMod
<1>3. s * p + r \in 0 .. p * q - 1
  BY TwoDigits
<1>4. PICK d \in 0 .. u - 1 : d = s * p + r
  BY <1>3
<1>5. x = b * u + d
  <2>1. a * p = b * u + s * p
    <3>1. (b * q + s) * p = (b * q) * p + s * p
      OBVIOUS
    <3>2. (b * q) * p = b * (p * q)
      OBVIOUS
    <3> QED
      BY <1>2, <3>1, <3>2
  <2>2. PICK ap \in Nat, sp \in Nat, bu \in Nat : ap = a * p /\ sp = s * p /\ bu = b * u
    OBVIOUS
  <2>3. x = ap + r /\ ap = bu + sp /\ d = sp + r
    BY <1>1, <1>4, <2>1, <2>2
  <2>4. x = bu + d
    BY <2>3
  <2> QED
    BY <2>2, <2>4
<1>6. x \div u = b /\ x % u = d
  BY <1>5, DivUnique
<1>7. d = r + s * p
  BY <1>4
<1> QED
  BY <1>1, <1>2, <1>6, <1>7 DEF InDigits

-----------------------------------------------------------------------------
(* Powers of two *)

\* The prover knows of powers only that 2^n counts the subsets of an n-element set.
LEMMA PowZero == 2^0 = 1
<1>1. IsFiniteSet({}) /\ Cardinality({}) = 0
  BY FS_EmptySet
<1>2. Cardinality(SUBSET {}) = 2^Cardinality({})
  BY <1>1, FS_SUBSET
<1>3. SUBSET {} = {{}}
  OBVIOUS
<1>4. Cardinality({{}}) = 1
  BY FS_Singleton
<1> QED
  BY <1>1, <1>2, <1>3, <1>4

\* A subset of n + 1 numbers is a subset of n of them, with or without the last.
LEMMA PowNext ==
  ASSUME NEW n \in Nat
  PROVE  2^n \in Nat /\ 2^(n + 1) = 2 * 2^n
<1>1. PICK S : S = 1 .. n
  OBVIOUS
<1>2. IsFiniteSet(S) /\ Cardinality(S) = n
  <2>1. PICK o \in Int : o = 1
    OBVIOUS
  <2>2. IsFiniteSet(o .. n) /\ Cardinality(o .. n) = IF o > n THEN 0 ELSE n - o + 1
    BY FS_Interval
  <2> QED
    BY <1>1, <2>1, <2>2
<1>3. PICK x : x = n + 1
  OBVIOUS
<1>4. x \notin S
  BY <1>1, <1>3
<1>5. IsFiniteSet(S \cup {x}) /\ Cardinality(S \cup {x}) = n + 1
  BY <1>2, <1>4, FS_AddElement
<1>6. PICK A, B : A = SUBSET S /\ B = {T \cup {x} : T \in SUBSET S}
  OBVIOUS
<1>7. IsFiniteSet(A) /\ Cardinality(A) = 2^n
  BY <1>2, <1>6, FS_SUBSET
<1>8. IsFiniteSet(B) /\ Cardinality(B) = Cardinality(A)
  <2>1. PICK f : f = [T \in A |-> T \cup {x}]
    OBVIOUS
  <2>2. f \in Surjection(A, B)
    BY <1>6, <2>1 DEF Surjection
  <2>3. f \in Injection(A, B)
    <3>1. f \in [A -> B]
      BY <2>2 DEF Surjection
    <3>2. ASSUME NEW T \in A, NEW U \in A, f[T] = f[U] PROVE T = U
      <4>1. T \cup {x} = U \cup {x}
        BY <2>1, <3>2
      <4>2. x \notin T /\ x \notin U
        BY <1>4, <1>6
      <4>3. T = (T \cup {x}) \ {x} /\ U = (U \cup {x}) \ {x}
        BY <4>2
      <4> QED
        BY <4>1, <4>3
    <3> QED
      BY <3>1, <3>2 DEF Injection, IsInjective
  <2> QED
    BY <1>7, <2>2, <2>3, FS_Surjection
<1>9. SUBSET (S \cup {x}) = A \cup B
  <2>1. ASSUME NEW T \in SUBSET (S \cup {x}) PROVE T \in A \cup B
    <3>1. CASE x \in T
      <4>1. T = (T \ {x}) \cup {x} /\ T \ {x} \in SUBSET S
        BY <3>1
      <4> QED
        BY <1>6, <4>1
    <3>2. CASE x \notin T
      BY <1>6, <3>2
    <3> QED
      BY <3>1, <3>2
  <2>2. A \cup B \subseteq SUBSET (S \cup {x})
    BY <1>6
  <2> QED
    BY <2>1, <2>2
<1>10. A \cap B = {}
  BY <1>4, <1>6
<1>11. Cardinality(A \cup B) = Cardinality(A) + Cardinality(B)
  <2>1. /\ Cardinality(A \cup B) = Cardinality(A) + Cardinality(B) - Cardinality(A \cap B)
        /\ Cardinality(A) \in Nat /\ Cardinality(B) \in Nat
    BY <1>7, <1>8, FS_Union, FS_CardinalityType
  <2> QED
    BY <1>10, <2>1, FS_EmptySet
<1>12. Cardinality(A \cup B) = 2^(n + 1)
  BY <1>5, <1>9, FS_SUBSET
<1>13. 2^n \in Nat
  BY <1>7, FS_CardinalityType
<1> QED
  BY <1>7, <1>8, <1>11, <1>12, <1>13

\* Powers of two are positive.
LEMMA PowPos ==
  ASSUME NEW n \in Nat
  PROVE  2^n \in Nat \ {0}
<1> DEFINE P == {k \in Nat : 2^k \in Nat \ {0}}
<1>1. 0 \in P
  BY PowZero
<1>2. ASSUME NEW k \in Nat, k \in P PROVE k + 1 \in P
  <2>1. PICK p \in Nat \ {0} : p = 2^k
    BY <1>2
  <2>2. 2^(k + 1) = 2 * p
    BY <2>1, PowNext
  <2>3. 2 * p \in Nat \ {0}
    OBVIOUS
  <2> QED
    BY <2>2, <2>3
<1> HIDE DEF P
<1>3. \A k \in Nat : k \in P
  BY <1>1, <1>2, NatInduct
<1> QED
  BY <1>3 DEF P

\* Shifting twice shifts by the sum.
LEMMA PowAdd ==
  ASSUME NEW a \in Nat, NEW b \in Nat
  PROVE  2^(a + b) = 2^a * 2^b
<1> DEFINE P == {k \in Nat : 2^(a + k) = 2^a * 2^k}
<1>0. PICK p \in Nat \ {0} : p = 2^a
  BY PowPos
<1>1. 0 \in P
  <2>1. a + 0 = a /\ p * 1 = p
    OBVIOUS
  <2> QED
    BY <1>0, <2>1, PowZero
<1>2. ASSUME NEW k \in Nat, k \in P PROVE k + 1 \in P
  <2>1. PICK q \in Nat \ {0} : q = 2^k
    BY PowPos
  <2>2. a + k \in Nat /\ a + (k + 1) = (a + k) + 1
    OBVIOUS
  <2>3. 2^(a + (k + 1)) = 2 * 2^(a + k)
    BY <2>2, PowNext
  <2>4. 2^(a + k) = p * q
    BY <1>0, <1>2, <2>1
  <2>5. 2^(k + 1) = 2 * q
    BY <2>1, PowNext
  <2>6. 2 * (p * q) = p * (2 * q)
    OBVIOUS
  <2>7. 2^(a + (k + 1)) = 2^a * 2^(k + 1)
    BY <1>0, <2>3, <2>4, <2>5, <2>6
  <2> QED
    BY <2>7
<1> HIDE DEF P
<1>3. \A k \in Nat : k \in P
  BY <1>1, <1>2, NatInduct
<1> QED
  BY <1>3 DEF P
=============================================================================
