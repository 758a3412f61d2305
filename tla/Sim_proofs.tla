----------------------------- MODULE Sim_proofs -----------------------------
(***************************************************************************)
(* Proofs about the continuous-batching loop (module Sim), for every pool, *)
(* workload and option of simulate().                                      *)
(*                                                                         *)
(* The inductive invariant SimInv has three layers: Places (which list     *)
(* holds a request), Tokens (how far a sequence has come, which needs to   *)
(* know that it is decoded once a step) and Holdings (what it holds of the *)
(* pool, which needs both).  The sums over sequences and caches are those  *)
(* of Counting_proofs.                                                     *)
(***************************************************************************)
EXTENDS Sim, Counting_proofs, TLAPS

-----------------------------------------------------------------------------
(* Lists *)

Distinct(l) == \A i, j \in DOMAIN l : l[i] = l[j] => i = j

\* What appending does to the members of a list.
LEMMA AppendMember ==
  ASSUME NEW R, NEW l \in Seq(R), NEW x \in R
  PROVE  /\ Append(l, x) \in Seq(R) /\ Members(Append(l, x)) = Members(l) \cup {x}
         /\ Distinct(l) /\ x \notin Members(l) => Distinct(Append(l, x))
<1>1. /\ DOMAIN l = 1 .. Len(l) /\ DOMAIN Append(l, x) = 1 .. Len(l) + 1 /\ Len(l) \in Nat
      /\ Append(l, x)[Len(l) + 1] = x
      /\ \A i \in 1 .. Len(l) : Append(l, x)[i] = l[i] /\ l[i] \in R
  OBVIOUS
<1>2. Members(Append(l, x)) = Members(l) \cup {x}
  BY <1>1 DEF Members
<1>3. ASSUME Distinct(l), x \notin Members(l) PROVE Distinct(Append(l, x))
  BY <1>1, <1>3 DEF Distinct, Members
<1> QED
  BY <1>2, <1>3

\* Taking the head off a list.
LEMMA TailMember ==
  ASSUME NEW R, NEW l \in Seq(R), l # << >>
  PROVE  /\ Head(l) \in R /\ Tail(l) \in Seq(R)
         /\ Members(l) = {Head(l)} \cup Members(Tail(l))
         /\ Distinct(l) => Distinct(Tail(l)) /\ Head(l) \notin Members(Tail(l))
<1>1. /\ DOMAIN l = 1 .. Len(l) /\ DOMAIN Tail(l) = 1 .. Len(l) - 1 /\ Len(l) \in Nat
      /\ Len(l) > 0 /\ Head(l) = l[1] /\ l[1] \in R /\ Tail(l) \in Seq(R)
      /\ \A i \in 1 .. Len(l) - 1 : Tail(l)[i] = l[i + 1]
  OBVIOUS
<1>2. Members(l) = {Head(l)} \cup Members(Tail(l))
  <2>1. Members(l) \subseteq {Head(l)} \cup Members(Tail(l))
    <3> SUFFICES ASSUME NEW i \in 1 .. Len(l), i # 1 PROVE l[i] \in Members(Tail(l))
      BY <1>1 DEF Members
    <3>1. i - 1 \in 1 .. Len(l) - 1 /\ l[i] = Tail(l)[i - 1]
      BY <1>1
    <3> QED
      BY <1>1, <3>1 DEF Members
  <2>2. Members(Tail(l)) \subseteq Members(l)
    BY <1>1 DEF Members
  <2>3. 1 \in DOMAIN l
    BY <1>1
  <2>4. Head(l) \in Members(l)
    BY <1>1, <2>3 DEF Members
  <2> QED
    BY <2>1, <2>2, <2>4
<1>3. ASSUME Distinct(l) PROVE Distinct(Tail(l)) /\ Head(l) \notin Members(Tail(l))
  BY <1>1, <1>3 DEF Distinct, Members
<1> QED
  BY <1>1, <1>2, <1>3

\* Joining two lists.
LEMMA ConcatMember ==
  ASSUME NEW R, NEW l \in Seq(R), NEW m \in Seq(R)
  PROVE  /\ l \o m \in Seq(R) /\ Members(l \o m) = Members(l) \cup Members(m)
         /\ Distinct(l) /\ Distinct(m) /\ Members(l) \cap Members(m) = {} => Distinct(l \o m)
<1>1. /\ DOMAIN l = 1 .. Len(l) /\ DOMAIN m = 1 .. Len(m) /\ Len(l) \in Nat /\ Len(m) \in Nat
      /\ DOMAIN (l \o m) = 1 .. Len(l) + Len(m) /\ l \o m \in Seq(R)
      /\ \A i \in 1 .. Len(l) : (l \o m)[i] = l[i]
      /\ \A i \in 1 .. Len(m) : (l \o m)[Len(l) + i] = m[i]
  OBVIOUS
<1>2. \A i \in 1 .. Len(l) + Len(m) :
          \/ i \in 1 .. Len(l) /\ (l \o m)[i] = l[i]
          \/ i - Len(l) \in 1 .. Len(m) /\ (l \o m)[i] = m[i - Len(l)]
  BY <1>1
<1>3. Members(l \o m) = Members(l) \cup Members(m)
  <2>1. Members(l \o m) \subseteq Members(l) \cup Members(m)
    BY <1>1, <1>2 DEF Members
  <2>2. Members(l) \subseteq Members(l \o m)
    BY <1>1 DEF Members
  <2>3. Members(m) \subseteq Members(l \o m)
    <3> SUFFICES ASSUME NEW i \in 1 .. Len(m) PROVE m[i] \in Members(l \o m)
      BY <1>1 DEF Members
    <3>1. Len(l) + i \in 1 .. Len(l) + Len(m) /\ (l \o m)[Len(l) + i] = m[i]
      BY <1>1
    <3> QED
      BY <1>1, <3>1 DEF Members
  <2> QED
    BY <2>1, <2>2, <2>3
<1>4. ASSUME Distinct(l), Distinct(m), Members(l) \cap Members(m) = {},
             NEW i \in DOMAIN (l \o m), NEW j \in DOMAIN (l \o m), (l \o m)[i] = (l \o m)[j]
      PROVE  i = j
  <2>1. CASE i \in 1 .. Len(l) /\ (l \o m)[i] = l[i] /\ j \in 1 .. Len(l) /\ (l \o m)[j] = l[j]
    BY <1>1, <1>4, <2>1 DEF Distinct
  <2>2. CASE /\ i - Len(l) \in 1 .. Len(m) /\ (l \o m)[i] = m[i - Len(l)]
             /\ j - Len(l) \in 1 .. Len(m) /\ (l \o m)[j] = m[j - Len(l)]
    <3>1. i - Len(l) = j - Len(l)
      BY <1>1, <1>4, <2>2 DEF Distinct
    <3> QED
      BY <1>1, <3>1
  <2>3. CASE /\ i \in 1 .. Len(l) /\ (l \o m)[i] = l[i]
             /\ j - Len(l) \in 1 .. Len(m) /\ (l \o m)[j] = m[j - Len(l)]
    <3>1. l[i] \in Members(l) /\ m[j - Len(l)] \in Members(m)
      BY <1>1, <2>3 DEF Members
    <3> QED
      BY <1>4, <2>3, <3>1
  <2>4. CASE /\ j \in 1 .. Len(l) /\ (l \o m)[j] = l[j]
             /\ i - Len(l) \in 1 .. Len(m) /\ (l \o m)[i] = m[i - Len(l)]
    <3>1. l[j] \in Members(l) /\ m[i - Len(l)] \in Members(m)
      BY <1>1, <2>4 DEF Members
    <3> QED
      BY <1>4, <2>4, <3>1
  <2> QED
    BY <1>1, <1>2, <2>1, <2>2, <2>3, <2>4
<1> QED
  BY <1>1, <1>3, <1>4 DEF Distinct

\* A slice of a list.
LEMMA SliceMember ==
  ASSUME NEW R, NEW l \in Seq(R), NEW a \in 1 .. Len(l) + 1
  PROVE  LET m == SubSeq(l, a, Len(l))
         IN  /\ m \in Seq(R) /\ Members(m) \subseteq Members(l)
             /\ Distinct(l) => Distinct(m)
<1> DEFINE m == SubSeq(l, a, Len(l))
<1>1. /\ DOMAIN l = 1 .. Len(l) /\ Len(l) \in Nat
      /\ m \in Seq(R) /\ DOMAIN m = 1 .. Len(l) - a + 1
      /\ \A i \in 1 .. Len(l) - a + 1 : m[i] = l[a + i - 1]
  OBVIOUS
<1> HIDE DEF m
<1>2. \A i \in DOMAIN m : a + i - 1 \in DOMAIN l
  BY <1>1
<1>3. Members(m) \subseteq Members(l)
  BY <1>1, <1>2 DEF Members
<1>4. ASSUME Distinct(l), NEW i \in DOMAIN m, NEW j \in DOMAIN m, m[i] = m[j] PROVE i = j
  <2>1. m[i] = l[a + i - 1] /\ m[j] = l[a + j - 1]
    BY <1>1, <1>4
  <2>2. a + i - 1 \in DOMAIN l /\ a + j - 1 \in DOMAIN l
    BY <1>2, <1>4
  <2>3. l[a + i - 1] = l[a + j - 1]
    BY <1>4, <2>1
  <2>4. a + i - 1 = a + j - 1
    BY <1>4, <2>2, <2>3 DEF Distinct
  <2> QED
    BY <1>1, <1>4, <2>4
<1>5. Distinct(l) => Distinct(m)
  BY <1>4 DEF Distinct
<1> QED
  BY <1>1, <1>3, <1>5 DEF m

\* The function Without(l, S) builds up, for the first n members of l.
Kept(l, S, g, n) ==
    g = [i \in 0 .. n |-> IF i = 0 THEN << >>
                          ELSE IF l[i] \in S THEN g[i - 1] ELSE Append(g[i - 1], l[i])]

\* The recursion of Without has a solution: a list can be filtered from its front.
LEMMA KeptExists ==
  ASSUME NEW l, NEW S, NEW n \in Nat
  PROVE  \E g : Kept(l, S, g, n)
<1> DEFINE Bad == {k \in Nat : ~ \E g : Kept(l, S, g, k)}
<1>1. 0 \notin Bad
  <2>1. Kept(l, S, [i \in 0 .. 0 |-> << >>], 0)
    BY DEF Kept
  <2> QED
    BY <2>1
<1>2. ASSUME NEW k \in Nat, k \notin Bad PROVE k + 1 \notin Bad
  <2>1. PICK g : Kept(l, S, g, k)
    BY <1>2
  <2> DEFINE h == [i \in 0 .. k + 1 |->
                      IF i <= k THEN g[i]
                      ELSE IF l[i] \in S THEN g[i - 1] ELSE Append(g[i - 1], l[i])]
  <2>2. \A i \in 0 .. k : g[i] = IF i = 0 THEN << >>
                                 ELSE IF l[i] \in S THEN g[i - 1] ELSE Append(g[i - 1], l[i])
    BY <2>1 DEF Kept
  <2>3. \A i \in 0 .. k : h[i] = g[i]
    OBVIOUS
  <2>4. \A i \in 0 .. k + 1 : h[i] = IF i = 0 THEN << >>
                                     ELSE IF l[i] \in S THEN h[i - 1] ELSE Append(h[i - 1], l[i])
    <3> SUFFICES ASSUME NEW i \in 0 .. k + 1
                 PROVE  h[i] = IF i = 0 THEN << >>
                               ELSE IF l[i] \in S THEN h[i - 1] ELSE Append(h[i - 1], l[i])
      OBVIOUS
    <3>1. CASE i = 0
      BY <2>2, <3>1
    <3>2. CASE i # 0
      <4>1. h[i - 1] = g[i - 1]
        BY <2>3, <3>2
      <4>2. h[i] = IF l[i] \in S THEN g[i - 1] ELSE Append(g[i - 1], l[i])
        BY <2>2, <2>3, <3>2
      <4> QED
        BY <3>2, <4>1, <4>2, Zenon
    <3> QED
      BY <3>1, <3>2
  <2>5. h = [i \in 0 .. k + 1 |-> h[i]]
    OBVIOUS
  <2> HIDE DEF h
  <2>6. Kept(l, S, h, k + 1)
    BY <2>4, <2>5 DEF Kept
  <2> QED
    BY <2>6
<1>3. Bad = {}
  <2> SUFFICES ASSUME Bad # {} PROVE FALSE
    OBVIOUS
  <2>1. Bad \subseteq Nat
    OBVIOUS
  <2> HIDE DEF Bad
  <2>2. Min(Bad) \in Bad /\ \A b \in Bad : Min(Bad) <= b
    BY <2>1, NatMin
  <2>3. PICK k \in Bad : \A b \in Bad : k <= b
    BY <2>2
  <2>4. k # 0 /\ k \in Nat
    BY <1>1, <2>1, <2>3
  <2>5. k - 1 \in Nat /\ k - 1 \notin Bad
    BY <2>1, <2>3, <2>4
  <2>6. (k - 1) + 1 \notin Bad
    BY <1>2, <2>5
  <2> QED
    BY <2>3, <2>4, <2>6
<1> QED
  BY <1>3

\* Without(l, S) keeps the members of l outside S, each as often as before.
LEMMA WithoutMember ==
  ASSUME NEW R, NEW l \in Seq(R), NEW S
  PROVE  /\ Without(l, S) \in Seq(R) /\ Members(Without(l, S)) = Members(l) \ S
         /\ Distinct(l) => Distinct(Without(l, S))
<1>1. PICK g : g = CHOOSE h : Kept(l, S, h, Len(l))
  OBVIOUS
<1>2. Kept(l, S, g, Len(l))
  <2>1. Len(l) \in Nat
    OBVIOUS
  <2>2. \E h : Kept(l, S, h, Len(l))
    BY <2>1, KeptExists
  <2> QED
    BY <1>1, <2>2, Zenon
<1>3. Without(l, S) = g[Len(l)]
  BY <1>1, Zenon DEF Without, Kept
<1>4. \A i \in 0 .. Len(l) : g[i] = IF i = 0 THEN << >>
                                    ELSE IF l[i] \in S THEN g[i - 1] ELSE Append(g[i - 1], l[i])
  BY <1>2 DEF Kept
<1>5. Len(l) \in Nat /\ DOMAIN l = 1 .. Len(l) /\ \A i \in 1 .. Len(l) : l[i] \in R
  OBVIOUS
<1> DEFINE Good(k) == /\ g[k] \in Seq(R)
                      /\ Members(g[k]) = {l[i] : i \in 1 .. k} \ S
                      /\ Distinct(l) => Distinct(g[k])
           Bad == {k \in 0 .. Len(l) : ~ Good(k)}
<1>6. 0 \notin Bad
  <2>1. g[0] = << >>
    BY <1>4, <1>5
  <2>2. Members(<< >>) = {} /\ Distinct(<< >>)
    BY DEF Members, Distinct
  <2>3. {l[i] : i \in 1 .. 0} = {}
    OBVIOUS
  <2>4. << >> \in Seq(R)
    OBVIOUS
  <2>5. Good(0)
    BY <2>1, <2>2, <2>3, <2>4, Zenon
  <2> QED
    BY <2>5
<1>7. ASSUME NEW k \in 0 .. Len(l), k + 1 \in 0 .. Len(l), Good(k) PROVE Good(k + 1)
  <2>1. l[k + 1] \in R /\ k \in Nat /\ k + 1 # 0 /\ (k + 1) - 1 = k
    BY <1>5, <1>7
  <2>2. g[k + 1] = IF l[k + 1] \in S THEN g[k] ELSE Append(g[k], l[k + 1])
    BY <1>4, <1>7, <2>1
  <2>3. {l[i] : i \in 1 .. k + 1} = {l[i] : i \in 1 .. k} \cup {l[k + 1]}
    <3>1. 1 .. k + 1 = (1 .. k) \cup {k + 1}
      BY <2>1
    <3> QED
      BY <3>1
  <2>4. CASE l[k + 1] \in S
    BY <1>7, <2>2, <2>3, <2>4
  <2>5. CASE l[k + 1] \notin S
    <3>1. g[k + 1] = Append(g[k], l[k + 1])
      BY <2>2, <2>5
    <3>2. /\ Append(g[k], l[k + 1]) \in Seq(R)
          /\ Members(Append(g[k], l[k + 1])) = Members(g[k]) \cup {l[k + 1]}
          /\ Distinct(g[k]) /\ l[k + 1] \notin Members(g[k]) => Distinct(Append(g[k], l[k + 1]))
      BY <1>7, <2>1, AppendMember
    <3>3. Distinct(l) => l[k + 1] \notin Members(g[k])
      <4> SUFFICES ASSUME Distinct(l), NEW i \in 1 .. k, l[i] = l[k + 1] PROVE FALSE
        BY <1>7
      <4>1. i \in DOMAIN l /\ k + 1 \in DOMAIN l
        BY <1>5, <1>7
      <4>2. i = k + 1
        BY <4>1 DEF Distinct
      <4> QED
        BY <1>7, <4>2
    <3> QED
      BY <1>7, <2>3, <2>5, <3>1, <3>2, <3>3
  <2> QED
    BY <2>4, <2>5
<1>8. Bad = {}
  <2> SUFFICES ASSUME Bad # {} PROVE FALSE
    OBVIOUS
  <2>0. \A k \in 0 .. Len(l) : k \in Bad <=> ~ Good(k)
    OBVIOUS
  <2>1. Bad \subseteq Nat /\ Bad \subseteq 0 .. Len(l)
    BY <1>5
  <2> HIDE DEF Bad, Good
  <2>2. Min(Bad) \in Bad /\ \A b \in Bad : Min(Bad) <= b
    BY <2>1, NatMin
  <2>3. PICK k \in Bad : \A b \in Bad : k <= b
    BY <2>2
  <2>4. k # 0 /\ k \in Nat /\ k \in 0 .. Len(l)
    BY <1>6, <2>1, <2>3
  <2>5. k - 1 \in 0 .. Len(l) /\ k - 1 \notin Bad
    BY <1>5, <2>1, <2>3, <2>4
  <2>6. (k - 1) + 1 = k
    BY <2>4
  <2>7. Good(k - 1)
    BY <2>0, <2>5
  <2>8. Good(k)
    BY <1>7, <2>4, <2>5, <2>6, <2>7
  <2> QED
    BY <2>0, <2>3, <2>4, <2>8
<1>9. Good(Len(l))
  <2>1. Len(l) \in 0 .. Len(l)
    BY <1>5
  <2> HIDE DEF Good
  <2> QED
    BY <1>8, <2>1
<1> QED
  BY <1>3, <1>5, <1>9, Zenon DEF Members

-----------------------------------------------------------------------------
(* Tokens and blocks *)

\* Rounding up.
LEMMA CeilDiv ==
  ASSUME NEW x \in Nat, NEW y \in Nat, NEW b \in Nat \ {0}
  PROVE  /\ (x + b - 1) \div b \in Nat
         /\ x <= y => (x + b - 1) \div b <= (y + b - 1) \div b
         /\ x \div b <= (x + b - 1) \div b
         /\ x \div b \in Nat
         /\ (x \div b) * b <= x
         /\ x <= y => x \div b <= y \div b
         /\ x >= b => x \div b >= 1
         /\ x > 0 => (x + b - 1) \div b >= 1
<1>1. (x + b - 1) \div b \in Nat
  OBVIOUS
<1>2. x <= y => (x + b - 1) \div b <= (y + b - 1) \div b
  OBVIOUS
<1>3. x \div b <= (x + b - 1) \div b
  OBVIOUS
<1>4. x \div b \in Nat /\ (x \div b) * b <= x
  OBVIOUS
<1>5. x <= y => x \div b <= y \div b
  OBVIOUS
<1>6. x >= b => x \div b >= 1
  OBVIOUS
<1>7. x > 0 => (x + b - 1) \div b >= 1
  OBVIOUS
<1> QED
  BY <1>1, <1>2, <1>3, <1>4, <1>5, <1>6, <1>7

\* One more token needs a new block exactly when the blocks are full.
LEMMA CeilNext ==
  ASSUME NEW x \in Nat, NEW b \in Nat \ {0}
  PROVE  ((x + 1) + b - 1) \div b
            = ((x + b - 1) \div b) + IF x + 1 > ((x + b - 1) \div b) * b THEN 1 ELSE 0
<1>1. PICK q \in Nat, m \in 0 .. b - 1 : x = q * b + m
  <2>1. x \div b \in Nat /\ x % b \in 0 .. b - 1 /\ x = (x \div b) * b + (x % b)
    OBVIOUS
  <2> QED
    BY <2>1
<1>2. CASE m = 0
  <2>1. (x + b - 1) \div b = q
    BY <1>1, <1>2
  <2>2. ((x + 1) + b - 1) \div b = q + 1
    BY <1>1, <1>2
  <2> QED
    BY <1>1, <1>2, <2>1, <2>2
<1>3. CASE m > 0
  <2>1. (x + b - 1) \div b = q + 1
    BY <1>1, <1>3
  <2>2. ((x + 1) + b - 1) \div b = q + 1
    BY <1>1, <1>3
  <2>3. x + 1 <= (q + 1) * b
    BY <1>1
  <2> QED
    BY <2>1, <2>2, <2>3
<1> QED
  BY <1>2, <1>3

\* The full blocks, then the tokens of the partial one with the new ones.
LEMMA CeilSplit ==
  ASSUME NEW x \in Nat, NEW a \in Nat, NEW b \in Nat \ {0}
  PROVE  (x + a + b - 1) \div b = (x \div b) + (((x % b) + a + b - 1) \div b)
<1>1. PICK q \in Nat, m \in 0 .. b - 1 : x = q * b + m /\ q = x \div b /\ m = x % b
  BY DivMod
<1>2. (x + a + b - 1) \div b = q + ((m + a + b - 1) \div b)
  <2>1. x + a + b - 1 = q * b + (m + a + b - 1)
    BY <1>1
  <2>2. \A c \in Nat : (q * b + c) \div b = q + (c \div b)
    OBVIOUS
  <2>3. m + a + b - 1 \in Nat
    BY <1>1
  <2> QED
    BY <2>1, <2>2, <2>3
<1> QED
  BY <1>1, <1>2, Zenon

\* The full blocks, from the blocks a count needs.
LEMMA FloorOfCeil ==
  ASSUME NEW x \in Nat, NEW b \in Nat \ {0}
  PROVE  x \div b = IF (x % b) > 0 THEN ((x + b - 1) \div b) - 1 ELSE (x + b - 1) \div b
<1>1. PICK q \in Nat, m \in 0 .. b - 1 : x = q * b + m /\ q = x \div b /\ m = x % b
  BY DivMod
<1>2. m = 0 => (x + b - 1) \div b = q
  BY <1>1
<1>3. m > 0 => (x + b - 1) \div b = q + 1
  BY <1>1
<1>4. PICK c \in Nat : c = (x + b - 1) \div b
  BY CeilDiv
<1>5. CASE m > 0
  <2>1. c = q + 1
    BY <1>3, <1>4, <1>5, Zenon
  <2>2. q = c - 1
    BY <2>1
  <2> QED
    BY <1>1, <1>4, <1>5, <2>2, Zenon
<1>6. CASE ~ (m > 0)
  <2>1. m = 0
    BY <1>1, <1>6
  <2>2. q = c
    BY <1>2, <1>4, <2>1, Zenon
  <2> QED
    BY <1>1, <1>4, <1>6, <2>2, Zenon
<1> QED
  BY <1>5, <1>6

\* The tokens in the partial block are counted.
LEMMA ModNat ==
  ASSUME NEW x \in Nat, NEW b \in Nat \ {0}
  PROVE  (x % b) \in Nat
  OBVIOUS

-----------------------------------------------------------------------------
(* Where the requests are *)

\* The lists and sets of the loop are about requests.
ListTypes ==
    /\ opts \in Options
    /\ arrived \in 0 .. NReq /\ next \in 0 .. arrived
    /\ active \in Seq(Rid) /\ waiting \in Seq(Rid)
    /\ batch \in Seq(Rid) /\ finished \in Seq(Rid)
    /\ completed \subseteq Rid /\ dropped \subseteq Rid
    /\ pc \in {"waiting", "arrivals", "decode", "finish", "done", "crashed"}

\* The requests seen so far are spread over four places.
Apart ==
    /\ Distinct(active) /\ Distinct(waiting)
    /\ Members(active) \cap Members(waiting) = {}
    /\ (Members(active) \cup Members(waiting)) \cap (completed \cup dropped) = {}
    /\ completed \cap dropped = {}
    /\ Members(active) \cup Members(waiting) \cup completed \cup dropped = 1 .. next

\* A sequence is decoded once in a step, and is finished or still to decode.
StepLists ==
    /\ Distinct(batch) /\ Distinct(finished)
    /\ Members(batch) \cap Members(finished) = {}
    /\ pc \in {"waiting", "arrivals"} => finished = << >>
    /\ pc \in {"decode", "finish"} =>
          Members(batch) \cup Members(finished) \subseteq Members(active) \cup Members(waiting)

\* What the phases of the loop say of the queue of preempted sequences.
Queue ==
    /\ pc = "arrivals" => waiting = << >> \/ Len(active) >= MaxBatch
    /\ pc = "done" => active = << >> /\ waiting = << >> /\ next = NReq
    /\ opts.admission = "oracle" => waiting = << >>

Places == ListTypes /\ Apart /\ StepLists /\ Queue

\* The empty list.
LEMMA NoMembers ==
  /\ Members(<< >>) = {} /\ Distinct(<< >>) /\ Len(<< >>) = 0
  /\ \A R : << >> \in Seq(R)
  BY DEF Members, Distinct

\* A list with no members is empty, and one with a member is not.
LEMMA MemberOf ==
  ASSUME NEW R, NEW l \in Seq(R)
  PROVE  Members(l) \subseteq R /\ (l # << >> <=> Members(l) # {})
<1>1. DOMAIN l = 1 .. Len(l) /\ Len(l) \in Nat /\ \A i \in 1 .. Len(l) : l[i] \in R
  OBVIOUS
<1>2. l # << >> => 1 \in DOMAIN l
  BY <1>1
<1> QED
  BY <1>1, <1>2, NoMembers DEF Members

\* simulate() starts with all requests to come.
LEMMA PlacesInit == Init => Places
<1> SUFFICES ASSUME Init PROVE Places
  OBVIOUS
<1>1. ListTypes
  BY NoMembers DEF Init, ListTypes
<1>2. next = 0 /\ 1 .. 0 = {}
  BY DEF Init
<1>3. Apart
  BY <1>2, NoMembers DEF Init, Apart
<1>4. StepLists /\ Queue
  BY NoMembers DEF Init, StepLists, Queue
<1> QED
  BY <1>1, <1>3, <1>4 DEF Places

\* ensure_free preempts running sequences, each once, and none in oracle mode.
LEMMA VictimList ==
  ASSUME active \in Seq(Rid), Distinct(active), NEW r \in Members(active), NEW f, NEW n
  PROVE  /\ Victims(r, f, n) \in Seq(Rid) /\ Distinct(Victims(r, f, n))
         /\ Members(Victims(r, f, n)) \subseteq Members(active)
         /\ opts.admission = "oracle" => Victims(r, f, n) = << >>
<1>0. r \in Rid /\ Members(active) \subseteq Rid
  BY MemberOf
<1>1. PICK o : o = Others(r)
  OBVIOUS
<1>2. o \in Seq(Rid) /\ Members(o) = Members(active) \ {r} /\ Distinct(o)
  BY <1>1, WithoutMember DEF Others
<1>3. CASE opts.admission = "oracle"
  BY <1>3, NoMembers DEF Victims
<1>4. CASE opts.admission # "oracle" /\ Enough(r, f, n) # {}
  <2>1. Enough(r, f, n) \subseteq 0 .. Len(o) /\ Len(o) \in Nat
    BY <1>1, <1>2 DEF Enough
  <2>2. PICK m : m = Min(Enough(r, f, n))
    OBVIOUS
  <2>3. m \in 0 .. Len(o)
    BY <1>4, <2>1, <2>2, NatMin
  <2>4. PICK a : a = Len(o) - m + 1
    OBVIOUS
  <2>5. a \in 1 .. Len(o) + 1
    BY <2>1, <2>3, <2>4
  <2>6. Victims(r, f, n) = SubSeq(o, a, Len(o))
    BY <1>1, <1>4, <2>2, <2>4, Zenon DEF Victims, Last
  <2>7. /\ SubSeq(o, a, Len(o)) \in Seq(Rid) /\ Members(SubSeq(o, a, Len(o))) \subseteq Members(o)
        /\ Distinct(SubSeq(o, a, Len(o)))
    BY <1>2, <2>5, SliceMember
  <2> QED
    BY <1>2, <1>4, <2>6, <2>7
<1>5. CASE opts.admission # "oracle" /\ Enough(r, f, n) = {}
  <2>1. <<r>> \in Seq(Rid) /\ Members(<<r>>) = {r} /\ Distinct(<<r>>)
    BY <1>0 DEF Members, Distinct
  <2>2. PICK s : s = <<r>>
    OBVIOUS
  <2>3. Victims(r, f, n) = s \o o
    BY <1>1, <1>5, <2>2 DEF Victims
  <2>4. s \in Seq(Rid) /\ Members(s) = {r} /\ Distinct(s) /\ Members(s) \cap Members(o) = {}
    BY <1>2, <2>1, <2>2
  <2>5. /\ s \o o \in Seq(Rid) /\ Members(s \o o) = Members(s) \cup Members(o)
        /\ Distinct(s \o o)
    BY <1>2, <2>4, ConcatMember
  <2> QED
    BY <1>2, <1>5, <2>3, <2>4, <2>5
<1> QED
  BY <1>3, <1>4, <1>5

\* What preempting does to the lists.
LEMMA PreemptLists ==
  ASSUME ListTypes, Apart, NEW vs \in Seq(Rid), Distinct(vs), Members(vs) \subseteq Members(active),
         Preempt(vs)
  PROVE  /\ active' \in Seq(Rid) /\ Distinct(active') /\ Members(active') = Members(active) \ Members(vs)
         /\ waiting' \in Seq(Rid) /\ Distinct(waiting')
         /\ Members(waiting') = Members(vs) \cup Members(waiting)
<1>1. active' = Without(active, Members(vs)) /\ waiting' = vs \o waiting
  BY DEF Preempt
<1>2. active \in Seq(Rid) /\ waiting \in Seq(Rid) /\ Distinct(active) /\ Distinct(waiting)
      /\ Members(vs) \cap Members(waiting) = {}
  BY DEF ListTypes, Apart
<1> QED
  BY <1>1, <1>2, WithoutMember, ConcatMember

\* One sequence decoded: an iteration of the decode loop.
LEMMA GrowPlaces ==
  ASSUME Places, Running, Current \in Members(active), NEW n, NEW held, NEW tokens,
         Grow(Current, n, held, tokens), UNCHANGED <<setup, results>>
  PROVE  Places'
<1>0. ListTypes /\ Apart /\ StepLists /\ Queue
  BY DEF Places
<1>1. PICK r \in Rid : r = Current
  BY <1>0, TailMember DEF ListTypes, Running, Current
<1>2. /\ batch # << >> /\ pc = "decode" /\ r \in Members(active) /\ r = Head(batch)
      /\ Tail(batch) \in Seq(Rid) /\ Members(batch) = {r} \cup Members(Tail(batch))
      /\ Distinct(Tail(batch)) /\ r \notin Members(Tail(batch))
  BY <1>0, <1>1, TailMember DEF ListTypes, StepLists, Running, Current
<1>3. PICK vs : vs = Victims(r, num_free - held, n)
  OBVIOUS
<1>4. /\ vs \in Seq(Rid) /\ Distinct(vs) /\ Members(vs) \subseteq Members(active)
      /\ opts.admission = "oracle" => vs = << >>
  BY <1>0, <1>2, <1>3, VictimList DEF ListTypes, Apart
<1>5. opts' = opts /\ completed' = completed /\ dropped' = dropped
  BY DEF setup, results
<1>6. CASE Crash
  <2>1. /\ UNCHANGED <<arrived, next, waiting, active, batch, finished>> /\ pc' = "crashed"
    BY <1>6 DEF Crash, queues, pool
  <2>2. ListTypes'
    BY <1>0, <1>5, <2>1 DEF ListTypes
  <2>3. Apart'
    BY <1>0, <1>5, <2>1 DEF Apart
  <2>4. StepLists' /\ Queue'
    BY <1>0, <1>5, <2>1 DEF StepLists, Queue
  <2> QED
    BY <2>2, <2>3, <2>4 DEF Places
<1>7. ASSUME Preempt(vs), UNCHANGED <<arrived, next, pc>>, batch' = Tail(batch),
             \/ finished' = finished
             \/ finished' = Append(finished, r) /\ r \notin Members(vs)
      PROVE  Places'
  <2>1. /\ active' \in Seq(Rid) /\ Distinct(active') /\ Members(active') = Members(active) \ Members(vs)
        /\ waiting' \in Seq(Rid) /\ Distinct(waiting')
        /\ Members(waiting') = Members(vs) \cup Members(waiting)
    BY <1>0, <1>4, <1>7, PreemptLists
  <2>2. finished \in Seq(Rid) /\ Distinct(finished) /\ r \notin Members(finished)
    BY <1>0, <1>2 DEF ListTypes, StepLists
  <2>3. /\ finished' \in Seq(Rid) /\ Distinct(finished')
        /\ Members(finished') \subseteq Members(finished) \cup {r}
    <3>1. /\ Append(finished, r) \in Seq(Rid) /\ Distinct(Append(finished, r))
          /\ Members(Append(finished, r)) = Members(finished) \cup {r}
      BY <2>2, AppendMember
    <3> QED
      BY <1>7, <2>2, <3>1
  <2>4. ListTypes'
    BY <1>0, <1>2, <1>5, <1>7, <2>1, <2>3 DEF ListTypes
  <2>5. Apart'
    <3>1. /\ Members(active') \cap Members(waiting') = {}
          /\ (Members(active') \cup Members(waiting')) = Members(active) \cup Members(waiting)
      BY <1>0, <1>4, <2>1 DEF Apart
    <3> QED
      BY <1>0, <1>5, <1>7, <2>1, <3>1 DEF Apart
  <2>6. StepLists'
    <3>1. Members(batch') \subseteq Members(batch) /\ r \notin Members(batch')
      BY <1>2, <1>7
    <3>2. Members(batch') \cap Members(finished') = {}
      BY <1>0, <2>3, <3>1 DEF StepLists
    <3>3. Members(batch') \cup Members(finished') \subseteq Members(active') \cup Members(waiting')
      BY <1>0, <1>2, <2>1, <2>3, <3>1 DEF StepLists
    <3> QED
      BY <1>2, <1>7, <2>3, <3>2, <3>3 DEF StepLists
  <2>7. Queue'
    <3>1. opts.admission = "oracle" => waiting' = << >>
      <4>1. opts.admission = "oracle" => waiting' = << >> \o << >>
        BY <1>0, <1>4, <1>7 DEF Queue, Preempt
      <4> QED
        BY <4>1
    <3> QED
      BY <1>2, <1>5, <1>7, <3>1 DEF Queue
  <2> QED
    BY <2>4, <2>5, <2>6, <2>7 DEF Places
<1>8. \/ Crash
      \/ /\ Preempt(vs) /\ UNCHANGED <<arrived, next, pc>> /\ batch' = Tail(batch)
         /\ \/ finished' = finished
            \/ finished' = Append(finished, r) /\ r \notin Members(vs)
  BY <1>1, <1>3, Zenon DEF Grow
<1> QED
  BY <1>6, <1>7, <1>8

\* An admission adds to the batch, if anything.
LEMMA AdmitPlaces ==
  ASSUME ListTypes, Apart, NEW r \in Rid, TryAdmit(r), r \notin Members(active)
  PROVE  IF Verdict(r) = "admitted"
         THEN /\ active' = Append(active, r) /\ active' \in Seq(Rid) /\ Distinct(active')
              /\ Members(active') = Members(active) \cup {r}
              /\ Len(active') = Len(active) + 1
         ELSE active' = active
<1>1. active \in Seq(Rid) /\ Distinct(active)
  BY DEF ListTypes, Apart
<1>2. active' = IF Verdict(r) = "admitted" THEN Append(active, r) ELSE active
  BY Zenon DEF TryAdmit
<1> QED
  BY <1>1, <1>2, AppendMember

\* No iteration of the loop loses a request, duplicates it or decodes it twice.
LEMMA PlacesStep ==
  ASSUME Places, [SimNext]_simvars
  PROVE  Places'
<1>0. ListTypes /\ Apart /\ StepLists /\ Queue
  BY DEF Places
<1>l. active \in Seq(Rid) /\ waiting \in Seq(Rid) /\ batch \in Seq(Rid) /\ finished \in Seq(Rid)
      /\ Distinct(active) /\ Distinct(waiting)
  BY <1>0 DEF ListTypes, Apart
<1>s. Members(active) \subseteq Rid /\ Members(waiting) \subseteq Rid
      /\ (active # << >> <=> Members(active) # {}) /\ (waiting # << >> <=> Members(waiting) # {})
  BY <1>l, MemberOf
<1>w. waiting # << >> =>
         /\ Head(waiting) \in Rid /\ Tail(waiting) \in Seq(Rid) /\ Distinct(Tail(waiting))
         /\ Members(waiting) = {Head(waiting)} \cup Members(Tail(waiting))
         /\ Head(waiting) \notin Members(Tail(waiting)) /\ Head(waiting) \notin Members(active)
  BY <1>0, <1>l, TailMember DEF Apart
<1>1. CASE UNCHANGED <<opts, arrived, next, active, waiting, completed, dropped, batch, finished, pc>>
  <2>1. ListTypes' /\ Apart'
    BY <1>0, <1>1 DEF ListTypes, Apart
  <2>2. StepLists' /\ Queue'
    BY <1>0, <1>1 DEF StepLists, Queue
  <2> QED
    BY <2>1, <2>2 DEF Places
<1>2. CASE drop_hopeless
  <2>1. /\ pc = "waiting" /\ waiting # << >> /\ waiting' = Tail(waiting)
        /\ dropped' = dropped \cup {Head(waiting)}
        /\ UNCHANGED <<opts, arrived, next, active, completed, batch, finished, pc>>
    BY <1>2 DEF drop_hopeless, setup, pool
  <2>2. ListTypes'
    BY <1>0, <1>w, <2>1 DEF ListTypes
  <2>3. Apart'
    BY <1>0, <1>w, <2>1 DEF Apart
  <2>4. StepLists' /\ Queue'
    BY <1>0, <2>1 DEF StepLists, Queue
  <2> QED
    BY <2>2, <2>3, <2>4 DEF Places
<1>3. CASE readmit
  <2>1. /\ pc = "waiting" /\ waiting # << >> /\ TryAdmit(Head(waiting))
        /\ UNCHANGED <<opts, arrived, next, completed>>
    BY <1>3 DEF readmit, setup
  <2>2. PICK r \in Rid : r = Head(waiting)
    BY <1>w, <2>1
  <2>3. CASE Verdict(r) = "admitted"
    <3>1. /\ active' \in Seq(Rid) /\ Distinct(active') /\ Members(active') = Members(active) \cup {r}
      BY <1>0, <1>w, <2>1, <2>2, <2>3, AdmitPlaces
    <3>2. waiting' = Tail(waiting) /\ UNCHANGED <<dropped, batch, finished, pc>>
      BY <1>3, <2>2, <2>3 DEF readmit
    <3>3. ListTypes'
      BY <1>0, <1>w, <2>1, <3>1, <3>2 DEF ListTypes
    <3>4. Apart'
      BY <1>0, <1>w, <2>1, <2>2, <3>1, <3>2 DEF Apart
    <3>5. StepLists' /\ Queue'
      BY <1>0, <2>1, <3>2 DEF StepLists, Queue
    <3> QED
      BY <3>3, <3>4, <3>5 DEF Places
  <2>4. CASE Verdict(r) # "admitted" /\ active = << >>
    <3>1. active' = active
      BY <1>0, <1>w, <2>1, <2>2, <2>4, AdmitPlaces
    <3>2. waiting' = Tail(waiting) /\ dropped' = dropped \cup {r} /\ UNCHANGED <<batch, finished, pc>>
      BY <1>3, <2>2, <2>4 DEF readmit
    <3>3. ListTypes'
      BY <1>0, <1>w, <2>1, <3>1, <3>2 DEF ListTypes
    <3>4. Apart'
      BY <1>0, <1>w, <2>1, <2>2, <3>1, <3>2 DEF Apart
    <3>5. StepLists' /\ Queue'
      BY <1>0, <2>1, <3>2 DEF StepLists, Queue
    <3> QED
      BY <3>3, <3>4, <3>5 DEF Places
  <2>5. CASE Verdict(r) # "admitted" /\ active # << >>
    <3>1. active' = active
      BY <1>0, <1>w, <2>1, <2>2, <2>5, AdmitPlaces
    <3>2. pc' = "decode" /\ batch' = active /\ finished' = << >> /\ UNCHANGED <<waiting, dropped>>
      BY <1>3, <2>2, <2>5 DEF readmit, StartDecode
    <3>3. ListTypes'
      BY <1>0, <2>1, <3>1, <3>2, NoMembers DEF ListTypes
    <3>4. Apart'
      BY <1>0, <2>1, <3>1, <3>2 DEF Apart
    <3>5. StepLists' /\ Queue'
      BY <1>0, <1>l, <2>1, <3>1, <3>2, NoMembers DEF StepLists, Queue
    <3> QED
      BY <3>3, <3>4, <3>5 DEF Places
  <2> QED
    BY <2>3, <2>4, <2>5
<1>4. CASE readmit_end
  <2>1. /\ pc = "waiting" /\ pc' = "arrivals" /\ (waiting = << >> \/ ~ (Len(active) < MaxBatch))
        /\ UNCHANGED <<opts, arrived, next, active, waiting, completed, dropped, batch, finished>>
    BY <1>4 DEF readmit_end, BatchHasRoom, setup, queues, pool, results
  <2>2. waiting' = << >> \/ Len(active') >= MaxBatch
    BY <1>l, <2>1, SimAssumption
  <2>3. ListTypes' /\ Apart'
    BY <1>0, <2>1 DEF ListTypes, Apart
  <2>4. StepLists' /\ Queue'
    BY <1>0, <2>1, <2>2 DEF StepLists, Queue
  <2> QED
    BY <2>3, <2>4 DEF Places
<1>5. CASE arrive
  <2>1. /\ pc = "arrivals" /\ next < arrived /\ Len(active) < MaxBatch /\ TryAdmit(next + 1)
        /\ UNCHANGED <<opts, arrived, waiting, completed>>
    BY <1>5 DEF arrive, BatchHasRoom, setup
  <2>2. waiting = << >>
    <3>1. Len(active) \in Nat
      BY <1>l
    <3> QED
      BY <1>0, <2>1, <3>1, SimAssumption DEF Queue
  <2>3. PICK r \in Rid : r = next + 1
    BY <1>0, <2>1, SimAssumption DEF ListTypes, Rid
  <2>4. r \notin 1 .. next /\ 1 .. r = (1 .. next) \cup {r} /\ r \in 0 .. arrived
    BY <1>0, <2>1, <2>3 DEF ListTypes
  <2>5. r \notin Members(active) /\ r \notin Members(waiting) /\ r \notin completed /\ r \notin dropped
    BY <1>0, <2>4 DEF Apart
  <2>6. CASE Verdict(r) = "admitted"
    <3>1. active' \in Seq(Rid) /\ Distinct(active') /\ Members(active') = Members(active) \cup {r}
      BY <1>0, <2>1, <2>3, <2>5, <2>6, AdmitPlaces
    <3>2. next' = r /\ UNCHANGED <<dropped, batch, finished, pc>>
      BY <1>5, <2>3, <2>6 DEF arrive
    <3>3. ListTypes'
      BY <1>0, <2>1, <2>4, <3>1, <3>2 DEF ListTypes
    <3>4. Apart'
      BY <1>0, <2>1, <2>4, <2>5, <3>1, <3>2 DEF Apart
    <3>5. StepLists' /\ Queue'
      BY <1>0, <2>1, <2>2, <3>2 DEF StepLists, Queue
    <3> QED
      BY <3>3, <3>4, <3>5 DEF Places
  <2>7. CASE Verdict(r) # "admitted" /\ active = << >>
    <3>1. active' = active
      BY <1>0, <2>1, <2>3, <2>5, <2>7, AdmitPlaces
    <3>2. next' = r /\ dropped' = dropped \cup {r} /\ UNCHANGED <<batch, finished, pc>>
      BY <1>5, <2>3, <2>7 DEF arrive
    <3>3. ListTypes'
      BY <1>0, <2>1, <2>4, <3>1, <3>2 DEF ListTypes
    <3>4. Apart'
      BY <1>0, <2>1, <2>4, <2>5, <3>1, <3>2 DEF Apart
    <3>5. StepLists' /\ Queue'
      BY <1>0, <2>1, <2>2, <3>2 DEF StepLists, Queue
    <3> QED
      BY <3>3, <3>4, <3>5 DEF Places
  <2>8. CASE Verdict(r) # "admitted" /\ active # << >>
    <3>1. active' = active
      BY <1>0, <2>1, <2>3, <2>5, <2>8, AdmitPlaces
    <3>2. pc' = "decode" /\ batch' = active /\ finished' = << >> /\ UNCHANGED <<next, dropped>>
      BY <1>5, <2>3, <2>8 DEF arrive, StartDecode
    <3>3. ListTypes'
      BY <1>0, <2>1, <3>1, <3>2, NoMembers DEF ListTypes
    <3>4. Apart'
      BY <1>0, <2>1, <3>1, <3>2 DEF Apart
    <3>5. StepLists' /\ Queue'
      BY <1>0, <1>l, <2>1, <3>1, <3>2, NoMembers DEF StepLists, Queue
    <3> QED
      BY <3>3, <3>4, <3>5 DEF Places
  <2> QED
    BY <2>6, <2>7, <2>8
<1>6. CASE start_decode
  <2>1. /\ pc' = "decode" /\ batch' = active /\ finished' = << >>
        /\ UNCHANGED <<opts, arrived, next, active, waiting, completed, dropped>>
    BY <1>6 DEF start_decode, StartDecode, setup, queues, pool, results
  <2>2. ListTypes' /\ Apart'
    BY <1>0, <2>1, NoMembers DEF ListTypes, Apart
  <2>3. StepLists' /\ Queue'
    BY <1>0, <1>l, <2>1, NoMembers DEF StepLists, Queue
  <2> QED
    BY <2>2, <2>3 DEF Places
<1>7. ASSUME ArrivalsOver, active = << >> PROVE waiting = << >> /\ pc = "arrivals"
  BY <1>0, <1>7, NoMembers, SimAssumption DEF ArrivalsOver, Queue
<1>8. CASE idle_jump
  <2>1. /\ pc' = "waiting" /\ arrived' \in next + 1 .. NReq /\ pc = "arrivals"
        /\ UNCHANGED <<opts, next, active, waiting, completed, dropped, batch, finished>>
    BY <1>8 DEF idle_jump, ArrivalsOver, setup, pool, results
  <2>2. ListTypes' /\ Apart'
    BY <1>0, <2>1 DEF ListTypes, Apart
  <2>3. StepLists' /\ Queue'
    BY <1>0, <2>1 DEF StepLists, Queue
  <2> QED
    BY <2>2, <2>3 DEF Places
<1>9. CASE stop
  <2>1. /\ pc' = "done" /\ ArrivalsOver /\ active = << >> /\ next = NReq
        /\ UNCHANGED <<opts, arrived, next, active, waiting, completed, dropped, batch, finished>>
    BY <1>9 DEF stop, setup, queues, results
  <2>2. ListTypes' /\ Apart'
    BY <1>0, <2>1 DEF ListTypes, Apart
  <2>3. StepLists' /\ Queue'
    BY <1>0, <1>7, <2>1 DEF StepLists, Queue
  <2> QED
    BY <2>2, <2>3 DEF Places
<1>10. CASE decode_skip
  <2>1. /\ batch # << >> /\ pc = "decode" /\ batch' = Tail(batch)
        /\ UNCHANGED <<opts, arrived, next, active, waiting, completed, dropped, finished, pc>>
    BY <1>10 DEF decode_skip, Running, setup, queues, pool, results
  <2>2. Tail(batch) \in Seq(Rid) /\ Members(Tail(batch)) \subseteq Members(batch) /\ Distinct(Tail(batch))
    BY <1>0, <1>l, <2>1, TailMember DEF StepLists
  <2>3. ListTypes' /\ Apart'
    BY <1>0, <2>1, <2>2 DEF ListTypes, Apart
  <2>4. StepLists' /\ Queue'
    BY <1>0, <2>1, <2>2 DEF StepLists, Queue
  <2> QED
    BY <2>3, <2>4 DEF Places
<1>11. CASE decode
  BY <1>11, GrowPlaces DEF decode, OneToken
<1>12. CASE spec_stall
  BY <1>12, GrowPlaces DEF spec_stall, OneToken
<1>13. ASSUME NEW k \in 0 .. opts.depth, spec_contiguous(k) PROVE Places'
  BY <1>13, GrowPlaces DEF spec_contiguous
<1>14. ASSUME NEW k \in 0 .. opts.depth, spec_copyback(k) PROVE Places'
  BY <1>14, GrowPlaces DEF spec_copyback
<1>15. ASSUME NEW k \in 0 .. opts.depth, spec_splice(k) PROVE Places'
  <2>1. PICK r \in Rid : r = Current
    BY <1>l, <1>15, TailMember DEF spec_splice, Running, Current
  <2>2. /\ batch # << >> /\ pc = "decode" /\ r \in Members(active) /\ batch' = Tail(batch)
        /\ finished' = finished \/ finished' = Append(finished, r)
        /\ UNCHANGED <<opts, arrived, next, active, waiting, completed, dropped, pc>>
    BY <1>15, <2>1 DEF spec_splice, Running, setup, queues, results
  <2>3. /\ Tail(batch) \in Seq(Rid) /\ Members(batch) = {r} \cup Members(Tail(batch))
        /\ Distinct(Tail(batch)) /\ r \notin Members(Tail(batch))
    BY <1>0, <1>l, <2>1, <2>2, TailMember DEF StepLists, Current
  <2>4. Distinct(finished) /\ r \notin Members(finished)
    BY <1>0, <2>3 DEF StepLists
  <2>5. /\ Append(finished, r) \in Seq(Rid) /\ Distinct(Append(finished, r))
        /\ Members(Append(finished, r)) = Members(finished) \cup {r}
    BY <1>l, <2>4, AppendMember
  <2>6. /\ finished' \in Seq(Rid) /\ Distinct(finished')
        /\ Members(finished') \subseteq Members(finished) \cup {r}
    BY <1>l, <2>2, <2>4, <2>5
  <2>7. ListTypes' /\ Apart'
    BY <1>0, <2>2, <2>3, <2>6 DEF ListTypes, Apart
  <2>8. StepLists' /\ Queue'
    BY <1>0, <2>2, <2>3, <2>6 DEF StepLists, Queue
  <2> QED
    BY <2>7, <2>8 DEF Places
<1>16. CASE decode_end
  <2>1. /\ pc = "decode" /\ pc' = "finish"
        /\ UNCHANGED <<opts, arrived, next, active, waiting, completed, dropped, batch, finished>>
    BY <1>16 DEF decode_end, setup, queues, pool, results
  <2>2. ListTypes' /\ Apart'
    BY <1>0, <2>1 DEF ListTypes, Apart
  <2>3. StepLists' /\ Queue'
    BY <1>0, <2>1 DEF StepLists, Queue
  <2> QED
    BY <2>2, <2>3 DEF Places
<1>17. CASE finish
  <2>1. pc = "finish" /\ finished # << >> /\ UNCHANGED <<opts, dropped>>
    BY <1>17 DEF finish, setup
  <2>2. PICK r \in Rid : r = Head(finished)
    BY <1>l, <2>1, TailMember
  <2>3. /\ Tail(finished) \in Seq(Rid) /\ Members(finished) = {r} \cup Members(Tail(finished))
        /\ Distinct(Tail(finished)) /\ r \notin Members(Tail(finished))
    BY <1>0, <1>l, <2>1, <2>2, TailMember DEF StepLists
  <2>4. CASE r \notin Members(active)
    <3>1. /\ UNCHANGED <<arrived, next, waiting, active, batch, finished, completed>> /\ pc' = "crashed"
      BY <1>17, <2>2, <2>4 DEF finish, Crash, queues, pool
    <3>2. ListTypes' /\ Apart'
      BY <1>0, <2>1, <3>1 DEF ListTypes, Apart
    <3>3. StepLists' /\ Queue'
      BY <1>0, <2>1, <3>1 DEF StepLists, Queue
    <3> QED
      BY <3>2, <3>3 DEF Places
  <2>5. CASE r \in Members(active)
    <3>1. /\ UNCHANGED <<arrived, next, waiting, batch, pc>> /\ active' = Without(active, {r})
          /\ completed' = completed \cup {r} /\ finished' = Tail(finished)
      BY <1>17, <2>2, <2>5 DEF finish, queues
    <3>2. active' \in Seq(Rid) /\ Distinct(active') /\ Members(active') = Members(active) \ {r}
      BY <1>l, <3>1, WithoutMember
    <3>3. ListTypes'
      BY <1>0, <2>1, <2>3, <3>1, <3>2 DEF ListTypes
    <3>4. Apart'
      <4>1. /\ Distinct(active') /\ Distinct(waiting')
            /\ Members(active') \cap Members(waiting') = {}
            /\ completed' \cap dropped' = {}
        BY <1>0, <2>1, <2>5, <3>1, <3>2 DEF Apart
      <4>2. (Members(active') \cup Members(waiting')) \cap (completed' \cup dropped') = {}
        BY <1>0, <2>1, <2>5, <3>1, <3>2 DEF Apart
      <4>3. Members(active') \cup Members(waiting') \cup completed' \cup dropped' = 1 .. next'
        BY <1>0, <2>1, <2>5, <3>1, <3>2 DEF Apart
      <4> QED
        BY <4>1, <4>2, <4>3 DEF Apart
    <3>5. Members(batch) \cup Members(Tail(finished)) \subseteq (Members(active) \ {r}) \cup Members(waiting)
      BY <1>0, <2>1, <2>3 DEF StepLists
    <3>6. StepLists'
      BY <1>0, <2>1, <2>3, <3>1, <3>2, <3>5 DEF StepLists
    <3>7. Queue'
      BY <1>0, <2>1, <3>1 DEF Queue
    <3> QED
      BY <3>3, <3>4, <3>6, <3>7 DEF Places
  <2> QED
    BY <2>4, <2>5
<1>18. CASE tick
  <2>1. /\ pc = "finish" /\ pc' = "waiting" /\ finished = << >> /\ arrived' \in arrived .. NReq
        /\ UNCHANGED <<opts, next, active, waiting, completed, dropped, batch, finished>>
    BY <1>18 DEF tick, setup, pool, results
  <2>2. ListTypes' /\ Apart'
    BY <1>0, <2>1 DEF ListTypes, Apart
  <2>3. StepLists' /\ Queue'
    BY <1>0, <2>1 DEF StepLists, Queue
  <2> QED
    BY <2>2, <2>3 DEF Places
<1>19. CASE UNCHANGED simvars
  BY <1>1, <1>19 DEF simvars, setup, queues, pool, results
<1> QED
  BY <1>2, <1>3, <1>4, <1>5, <1>6, <1>8, <1>9, <1>10, <1>11, <1>12, <1>13, <1>14, <1>15,
     <1>16, <1>17, <1>18, <1>19 DEF SimNext, Over

\* How often a list without repetitions holds a member.
LEMMA Occurrences ==
  ASSUME NEW R, NEW l \in Seq(R), Distinct(l), NEW r
  PROVE  Cardinality({i \in DOMAIN l : l[i] = r}) = IF r \in Members(l) THEN 1 ELSE 0
<1> DEFINE I == {i \in DOMAIN l : l[i] = r}
<1>1. CASE r \in Members(l)
  <2>1. PICK i \in DOMAIN l : l[i] = r
    BY <1>1 DEF Members
  <2>2. I = {i}
    BY <2>1 DEF Distinct
  <2>3. Cardinality({i}) = 1
    BY FS_Singleton
  <2> HIDE DEF I
  <2>4. Cardinality(I) = 1
    BY <2>2, <2>3, Zenon
  <2> QED
    BY <1>1, <2>4 DEF I
<1>2. CASE r \notin Members(l)
  <2>1. I = {}
    BY <1>2 DEF Members
  <2> HIDE DEF I
  <2>2. Cardinality(I) = 0
    BY <2>1, FS_EmptySet, Zenon
  <2> QED
    BY <1>2, <2>2 DEF I
<1> QED
  BY <1>1, <1>2

\* Whether a request is in a set, as the number gate counts.
LEMMA InSet ==
  ASSUME NEW r, NEW S
  PROVE  Cardinality({r} \cap S) = IF r \in S THEN 1 ELSE 0
<1>1. CASE r \in S
  <2>1. {r} \cap S = {r} /\ Cardinality({r}) = 1
    BY <1>1, FS_Singleton
  <2>2. Cardinality({r} \cap S) = 1
    BY <2>1, Zenon
  <2> QED
    BY <1>1, <2>2
<1>2. CASE r \notin S
  <2>1. {r} \cap S = {} /\ Cardinality({}) = 0
    BY <1>2, FS_EmptySet
  <2>2. Cardinality({r} \cap S) = 0
    BY <2>1, Zenon
  <2> QED
    BY <1>2, <2>2
<1> QED
  BY <1>1, <1>2

\* The lists without repetitions count each request once, as OnePlace does.
LEMMA PlacesOne == Places => OnePlace
<1> SUFFICES ASSUME Places PROVE OnePlace
  OBVIOUS
<1>0. ListTypes /\ Apart /\ Queue
  BY DEF Places
<1>1. ASSUME NEW r \in Rid
      PROVE  Cardinality({i \in DOMAIN active : active[i] = r})
             + Cardinality({i \in DOMAIN waiting : waiting[i] = r})
             + Cardinality({r} \cap completed) + Cardinality({r} \cap dropped)
             = IF r <= next THEN 1 ELSE 0
  <2>1. PICK a, w, c, d : /\ a = Cardinality({i \in DOMAIN active : active[i] = r})
                          /\ w = Cardinality({i \in DOMAIN waiting : waiting[i] = r})
                          /\ c = Cardinality({r} \cap completed)
                          /\ d = Cardinality({r} \cap dropped)
    OBVIOUS
  <2>2. active \in Seq(Rid) /\ waiting \in Seq(Rid) /\ Distinct(active) /\ Distinct(waiting)
    BY <1>0 DEF ListTypes, Apart
  <2>3. a = IF r \in Members(active) THEN 1 ELSE 0
    BY <2>1, <2>2, Occurrences
  <2>4. w = IF r \in Members(waiting) THEN 1 ELSE 0
    BY <2>1, <2>2, Occurrences
  <2>5. c = IF r \in completed THEN 1 ELSE 0
    BY <2>1, InSet
  <2>6. d = IF r \in dropped THEN 1 ELSE 0
    BY <2>1, InSet
  <2>7. r \in 1 .. next <=> r <= next
    BY <1>0 DEF ListTypes, Rid
  <2>8. a + w + c + d = IF r <= next THEN 1 ELSE 0
    BY <1>0, <2>3, <2>4, <2>5, <2>6, <2>7 DEF Apart
  <2> QED
    BY <2>1, <2>8
<1>2. ASSUME pc = "done" PROVE completed \cup dropped = Rid
  <2>1. Members(active) = {} /\ Members(waiting) = {} /\ next = NReq
    BY <1>0, <1>2, NoMembers DEF Queue
  <2> QED
    BY <1>0, <2>1 DEF Apart, Rid
<1> QED
  BY <1>1, <1>2 DEF OnePlace

\* A request is in the count of admitted ones only when no preempted sequence
\* waits.
LEMMA ArrivalsLast ==
  ASSUME Places, SimNext, next' > next
  PROVE  waiting = << >>
<1>0. ListTypes /\ Queue
  BY DEF Places
<1>1. next \in Nat /\ active \in Seq(Rid)
  BY <1>0 DEF ListTypes
<1>2. next' # next
  BY <1>1
<1>3. arrive
  BY <1>2 DEF SimNext, drop_hopeless, readmit, readmit_end, start_decode, idle_jump, stop,
     decode_skip, decode, spec_stall, spec_contiguous, spec_copyback, spec_splice, decode_end,
     finish, tick, Over, OneToken, Grow, Crash, queues, simvars
<1>4. pc = "arrivals" /\ Len(active) < MaxBatch /\ Len(active) \in Nat
  BY <1>1, <1>3 DEF arrive, BatchHasRoom
<1> QED
  BY <1>0, <1>4, SimAssumption DEF Queue

-----------------------------------------------------------------------------
(* Tokens *)

\* A sequence has its prompt at least and its output at most; the finished and
\* the completed ones have all of it, and those that may be decoded have not.
Tokens ==
    /\ reqs \in [Rid -> Requests]
    /\ length \in [Rid -> Nat]
    /\ \A r \in Rid : reqs[r].prompt <= length[r] /\ length[r] <= total_len(r)
    /\ \A r \in completed \cup Members(finished) : length[r] = total_len(r)
    /\ \A r \in Rid \ (completed \cup dropped \cup Members(finished)) : length[r] < total_len(r)

\* The token counts of a request.
LEMMA RequestCounts ==
  ASSUME reqs \in [Rid -> Requests], NEW r \in Rid
  PROVE  /\ reqs[r].prompt \in Nat \ {0} /\ reqs[r].output \in Nat \ {0}
         /\ total_len(r) \in Nat /\ reqs[r].prompt < total_len(r)
         /\ reqs[r].prefix \in Prefix \cup {NoPrefix}
         /\ reqs[r].prefix # NoPrefix => reqs[r].prompt > PrefixLen[reqs[r].prefix]
<1>1. reqs[r] \in Requests
  OBVIOUS
<1>2. /\ reqs[r].prompt \in Nat \ {0} /\ reqs[r].output \in Nat \ {0}
      /\ reqs[r].prefix \in Prefix \cup {NoPrefix}
      /\ reqs[r].prefix # NoPrefix => reqs[r].prompt > PrefixLen[reqs[r].prefix]
  BY <1>1, RequestsAssumption
<1> QED
  BY <1>2 DEF total_len

\* A request starts with its prompt, and has a token to go.
LEMMA TokensInit == Init => Tokens
<1> SUFFICES ASSUME Init PROVE Tokens
  OBVIOUS
<1>1. reqs \in [Rid -> Requests] /\ length = [r \in Rid |-> reqs[r].prompt]
      /\ completed = {} /\ finished = << >>
  BY DEF Init
<1>2. \A r \in Rid : length[r] \in Nat /\ reqs[r].prompt <= length[r] /\ length[r] < total_len(r)
                     /\ length[r] <= total_len(r)
  BY <1>1, RequestCounts
<1>3. length \in [Rid -> Nat]
  BY <1>1, <1>2
<1> QED
  BY <1>1, <1>2, <1>3, NoMembers DEF Tokens

\* Steps that decode nothing.
LEMMA TokensKeep ==
  ASSUME Tokens, UNCHANGED <<reqs, length>>,
         completed' \cup Members(finished') \subseteq completed \cup Members(finished),
         completed \cup dropped \cup Members(finished)
             \subseteq completed' \cup dropped' \cup Members(finished')
  PROVE  Tokens'
  BY DEF Tokens, total_len

\* A sequence that is decoded has tokens to go.
LEMMA TokensLeft ==
  ASSUME Places, Tokens, Running, Current \in Members(active)
  PROVE  Current \in Rid /\ length[Current] < total_len(Current) /\ Current \notin completed
<1>0. ListTypes /\ Apart /\ StepLists
  BY DEF Places
<1>1. Current \in Rid /\ Current \in Members(batch)
  BY <1>0, TailMember DEF ListTypes, Running, Current
<1>2. Current \notin completed /\ Current \notin dropped /\ Current \notin Members(finished)
  BY <1>0, <1>1 DEF Apart, StepLists
<1> QED
  BY <1>1, <1>2 DEF Tokens

\* A sequence advances, as far as its output goes.
LEMMA TokensAdvance ==
  ASSUME Tokens, finished \in Seq(Rid), completed \subseteq Rid, NEW r \in Rid, NEW t \in Nat,
         length[r] + t <= total_len(r), t > 0, r \notin completed,
         length' = [length EXCEPT ![r] = length[r] + t],
         finished' = IF length[r] + t >= total_len(r) THEN Append(finished, r) ELSE finished,
         UNCHANGED <<reqs, completed, dropped>>
  PROVE  Tokens'
<1>0. completed \subseteq Rid /\ Members(finished) \subseteq Rid
  BY MemberOf
<1>1. /\ reqs \in [Rid -> Requests] /\ length \in [Rid -> Nat]
      /\ reqs[r].prompt <= length[r] /\ reqs[r].prompt \in Nat /\ total_len(r) \in Nat
  BY RequestCounts DEF Tokens
<1>2. /\ length' \in [Rid -> Nat] /\ length'[r] = length[r] + t
      /\ \A q \in Rid : q # r => length'[q] = length[q]
  BY <1>1
<1>3. \A q : total_len(q)' = total_len(q)
  BY DEF total_len
<1>4. \A q \in Rid : reqs'[q].prompt <= length'[q] /\ length'[q] <= total_len(q)
  <2>1. reqs[r].prompt <= length[r] + t
    BY <1>1
  <2> QED
    BY <1>2, <2>1 DEF Tokens
<1>5. CASE length[r] + t >= total_len(r)
  <2>1. Members(finished') = Members(finished) \cup {r}
    BY <1>5, AppendMember
  <2>2. length'[r] = total_len(r)
    BY <1>1, <1>2, <1>5
  <2>3. \A q \in completed \cup Members(finished) : q # r => length'[q] = total_len(q)
    BY <1>0, <1>2 DEF Tokens
  <2>4. \A q \in Rid \ (completed \cup dropped \cup Members(finished')) : length'[q] < total_len(q)
    BY <1>2, <2>1 DEF Tokens
  <2> QED
    BY <1>1, <1>2, <1>3, <1>4, <2>1, <2>2, <2>3, <2>4 DEF Tokens
<1>6. CASE ~ (length[r] + t >= total_len(r))
  <2>1. finished' = finished /\ length'[r] < total_len(r)
    BY <1>1, <1>2, <1>6
  <2>2. r \notin Members(finished)
    BY <1>1, <1>6 DEF Tokens
  <2>3. \A q \in completed \cup Members(finished) : length'[q] = total_len(q)
    BY <1>0, <1>2, <2>2 DEF Tokens
  <2>4. \A q \in Rid \ (completed \cup dropped \cup Members(finished)) : length'[q] < total_len(q)
    BY <1>2, <2>1 DEF Tokens
  <2> QED
    BY <1>1, <1>2, <1>3, <1>4, <2>1, <2>3, <2>4 DEF Tokens
<1> QED
  BY <1>5, <1>6

\* What a call of Grow does to the tokens, whatever it does to the blocks.
LEMMA GrowTokens ==
  ASSUME Places, Tokens, Running, Current \in Members(active), NEW n, NEW held, NEW t \in Nat,
         length[Current] + t <= total_len(Current), t > 0,
         Grow(Current, n, held, t), UNCHANGED <<setup, results>>
  PROVE  Tokens'
<1>1. PICK r \in Rid : r = Current /\ r \notin completed
  BY TokensLeft
<1>2. finished \in Seq(Rid) /\ completed \subseteq Rid
  BY DEF Places, ListTypes
<1>3. reqs' = reqs /\ completed' = completed /\ dropped' = dropped
  BY DEF setup, results
<1>4. \/ UNCHANGED <<length, finished>>
      \/ /\ length' = [length EXCEPT ![r] = length[r] + t]
         /\ finished' = IF length[r] + t >= total_len(r) THEN Append(finished, r) ELSE finished
  BY <1>1, Zenon DEF Grow, Crash
<1>5. CASE UNCHANGED <<length, finished>>
  BY <1>3, <1>5, TokensKeep
<1>6. CASE /\ length' = [length EXCEPT ![r] = length[r] + t]
           /\ finished' = IF length[r] + t >= total_len(r) THEN Append(finished, r) ELSE finished
  BY <1>1, <1>2, <1>3, <1>6, TokensAdvance
<1> QED
  BY <1>4, <1>5, <1>6

\* The accepted tokens stop at the end of the output.
LEMMA Advance ==
  ASSUME Tokens, NEW r \in Rid, length[r] < total_len(r), NEW k \in Nat
  PROVE  adv(r, k) \in 1 .. k + 1 /\ length[r] + adv(r, k) <= total_len(r)
<1>1. length[r] \in Nat /\ total_len(r) \in Nat
  BY RequestCounts DEF Tokens
<1>2. PICK S : S = {k + 1, total_len(r) - length[r]}
  OBVIOUS
<1>3. S \subseteq Nat /\ S # {}
  BY <1>1, <1>2
<1>4. Min(S) \in S /\ \A n \in S : Min(S) <= n
  BY <1>3, NatMin
<1>5. PICK a : a = adv(r, k) /\ a \in S /\ \A n \in S : a <= n
  BY <1>2, <1>4, Zenon DEF adv
<1> QED
  BY <1>1, <1>2, <1>5

\* Every iteration of the loop keeps the token counts: only the decode loop adds to
\* them, and adv stops at the end of the output.
LEMMA TokensStep ==
  ASSUME Places, Tokens, [SimNext]_simvars
  PROVE  Tokens'
<1>0. ListTypes /\ Apart /\ StepLists
  BY DEF Places
<1>2. CASE \/ drop_hopeless \/ readmit_end \/ idle_jump \/ stop \/ decode_skip \/ decode_end
           \/ tick \/ UNCHANGED simvars
  <2>1. UNCHANGED <<reqs, length, completed, finished>> /\ dropped \subseteq dropped'
    BY <1>2 DEF drop_hopeless, readmit_end, idle_jump, stop, decode_skip, decode_end, tick,
       simvars, setup, results
  <2> QED
    BY <2>1, TokensKeep
<1>3. CASE readmit
  <2>1. UNCHANGED <<reqs, length, completed>> /\ finished = << >>
    BY <1>0, <1>3 DEF readmit, setup, StepLists
  <2>2. finished' = << >> /\ dropped \subseteq dropped'
    BY <1>3, <2>1 DEF readmit, StartDecode
  <2> QED
    BY <2>1, <2>2, TokensKeep
<1>4. CASE arrive
  <2>1. UNCHANGED <<reqs, length, completed>> /\ finished = << >>
    BY <1>0, <1>4 DEF arrive, setup, StepLists
  <2>2. finished' = << >> /\ dropped \subseteq dropped'
    BY <1>4, <2>1 DEF arrive, StartDecode
  <2> QED
    BY <2>1, <2>2, TokensKeep
<1>5. CASE start_decode
  <2>1. UNCHANGED <<reqs, length, completed, dropped>> /\ finished = << >> /\ finished' = << >>
    BY <1>0, <1>5 DEF start_decode, StartDecode, ArrivalsOver, setup, results, StepLists
  <2> QED
    BY <2>1, TokensKeep
<1>6. ASSUME Running, Current \in Members(active)
      PROVE  /\ Current \in Rid /\ length[Current] + 1 <= total_len(Current)
             /\ \A k \in 0 .. opts.depth : /\ adv(Current, k) \in Nat /\ adv(Current, k) > 0
                                           /\ length[Current] + adv(Current, k) <= total_len(Current)
  <2>1. Current \in Rid /\ length[Current] < total_len(Current)
    BY <1>6, TokensLeft
  <2>2. length[Current] \in Nat /\ total_len(Current) \in Nat
    BY <2>1, RequestCounts DEF Tokens
  <2>3. opts.depth \in Nat
    BY <1>0, SimAssumption DEF ListTypes
  <2>4. \A k \in 0 .. opts.depth : adv(Current, k) \in 1 .. k + 1
                                   /\ length[Current] + adv(Current, k) <= total_len(Current)
    BY <2>1, <2>3, Advance
  <2> QED
    BY <2>1, <2>2, <2>3, <2>4
<1>7. CASE decode
  BY <1>6, <1>7, GrowTokens DEF decode, OneToken
<1>8. CASE spec_stall
  BY <1>6, <1>8, GrowTokens DEF spec_stall, OneToken
<1>9. ASSUME NEW k \in 0 .. opts.depth, spec_contiguous(k) PROVE Tokens'
  BY <1>6, <1>9, GrowTokens DEF spec_contiguous
<1>10. ASSUME NEW k \in 0 .. opts.depth, spec_copyback(k) PROVE Tokens'
  BY <1>6, <1>10, GrowTokens DEF spec_copyback
<1>11. ASSUME NEW k \in 0 .. opts.depth, spec_splice(k) PROVE Tokens'
  <2>1. Running /\ Current \in Members(active)
    BY <1>11 DEF spec_splice
  <2>2. PICK r \in Rid : r = Current /\ r \notin completed
    BY <2>1, TokensLeft
  <2>3. PICK a \in Nat : a = adv(r, k) /\ a > 0 /\ length[r] + a <= total_len(r)
    BY <1>6, <2>1, <2>2
  <2>4. /\ length' = [length EXCEPT ![r] = length[r] + a]
        /\ finished' = IF length[r] + a >= total_len(r) THEN Append(finished, r) ELSE finished
        /\ UNCHANGED <<reqs, completed, dropped>>
    BY <1>11, <2>2, <2>3 DEF spec_splice, setup, results
  <2>5. finished \in Seq(Rid) /\ completed \subseteq Rid
    BY <1>0 DEF ListTypes
  <2> QED
    BY <2>2, <2>3, <2>4, <2>5, TokensAdvance
<1>12. CASE finish
  <2>1. UNCHANGED <<reqs, length, dropped>> /\ finished # << >>
    BY <1>12 DEF finish, Crash, setup
  <2>2. Head(finished) \in Rid /\ Members(finished) = {Head(finished)} \cup Members(Tail(finished))
    BY <1>0, <2>1, TailMember DEF ListTypes
  <2>3. \/ UNCHANGED <<completed, finished>>
        \/ completed' = completed \cup {Head(finished)} /\ finished' = Tail(finished)
    BY <1>12 DEF finish, Crash
  <2> QED
    BY <2>1, <2>2, <2>3, TokensKeep
<1> QED
  BY <1>2, <1>3, <1>4, <1>5, <1>7, <1>8, <1>9, <1>10, <1>11, <1>12 DEF SimNext, Over

\* The same of the block counts of the model.
LEMMA BlockCounts ==
  ASSUME NEW x \in Nat, NEW y \in Nat
  PROVE  /\ Blocks(x) \in Nat
         /\ x <= y => Blocks(x) <= Blocks(y)
         /\ x \div BlockTokens \in Nat /\ x \div BlockTokens <= Blocks(x)
         /\ (x \div BlockTokens) * BlockTokens <= x
         /\ x <= y => x \div BlockTokens <= y \div BlockTokens
         /\ x >= BlockTokens => x \div BlockTokens >= 1
         /\ x > 0 => Blocks(x) >= 1
  BY CeilDiv, SimAssumption DEF Blocks, ceil_div

-----------------------------------------------------------------------------
(* What the sequences and the caches hold *)

HoldTypes ==
    /\ preempts \in [Rid -> 0 .. MaxPreempts + 1]
    /\ table \in [Rid -> Nat] /\ shared \in [Rid -> Nat] /\ scratch \in [Rid -> Nat]
    /\ span \in [Rid -> NoSpan .. NumBlocks - 1]
    /\ cache \in [Prefix -> Nat] /\ frag_failures \in Nat /\ num_free \in Nat

\* A sequence that does not run holds nothing; a running one holds its scratch
\* region and, of a prefix it shares, the blocks its cache pins.
Held ==
    /\ TablesCover
    /\ \A r \in Rid : IF r \in Members(active)
                      THEN scratch[r] = scratch_per_seq
                      ELSE scratch[r] = 0 /\ shared[r] = 0 /\ span[r] = NoSpan
    /\ \A r \in Rid : ~ opts.contiguous => span[r] = NoSpan
    /\ \A r \in Rid : shared[r] > 0 => Sharing(r) /\ shared[r] = cache[reqs[r].prefix]
    /\ \A p \in Prefix : cache[p] \in {0, PrefixLen[p] \div BlockTokens}

Balanced == num_free + Freed(Rid) + SumFunctionOnSet(cache, Prefix) = NumBlocks

Holdings == HoldTypes /\ Held /\ Balanced

\* What the running sequences hold, and may still ask for, as functions.
PrivateOf == [q \in Rid |-> Private(q)]
GrowthOf == [r \in Rid |-> total_blocks(r) - table[r] - scratch[r]]

\* There are finitely many requests, so the sums over them make sense.
LEMMA RidFinite == IsFiniteSet(Rid) /\ \A S \in SUBSET Rid : IsFiniteSet(S)
<1>1. IsFiniteSet(Rid)
  BY FS_Interval, SimAssumption DEF Rid
<1> QED
  BY <1>1, FS_Subset

\* The footprint of a sequence.
LEMMA Footprint ==
  ASSUME opts \in Options, Tokens, NEW r \in Rid
  PROVE  /\ scratch_per_seq \in Nat /\ total_blocks(r) \in Nat
         /\ prompt_blocks(r) \in Nat /\ prompt_blocks(r) >= 1
         /\ prompt_blocks(r) + scratch_per_seq <= total_blocks(r)
         /\ ~ opts.contiguous => scratch_per_seq = 0
<1>1. length[r] \in Nat /\ total_len(r) \in Nat /\ length[r] <= total_len(r) /\ length[r] > 0
  BY RequestCounts DEF Tokens
<1>2. /\ Blocks(length[r]) \in Nat /\ Blocks(total_len(r)) \in Nat /\ Blocks(length[r]) >= 1
      /\ Blocks(length[r]) <= Blocks(total_len(r))
  BY <1>1, BlockCounts
<1>3. scratch_per_seq \in Nat /\ (~ opts.contiguous => scratch_per_seq = 0)
  <2>1. opts.width \in Nat /\ opts.depth \in Nat
    BY SimAssumption
  <2>2. PICK d \in Nat : d = ceil_div(BlockTokens - 1 + opts.depth + 1, BlockTokens)
    <3>1. BlockTokens - 1 + opts.depth + 1 \in Nat
      BY <2>1, SimAssumption
    <3> QED
      BY <3>1, CeilDiv, SimAssumption DEF ceil_div
  <2>3. opts.width * d \in Nat
    BY <2>1, <2>2
  <2> QED
    BY <2>2, <2>3 DEF scratch_per_seq
<1> QED
  BY <1>2, <1>3 DEF total_blocks, prompt_blocks

\* The blocks a request shares with a cache are full blocks of its prefix.
LEMMA SharedBlocks ==
  ASSUME opts \in Options, Tokens, NEW r \in Rid
  PROVE  /\ n_shared(r) \in Nat /\ n_shared(r) <= length[r] \div BlockTokens
         /\ n_shared(r) <= prompt_blocks(r)
         /\ Sharing(r) => /\ n_shared(r) >= 1 /\ reqs[r].prefix \in Prefix
                          /\ n_shared(r) = PrefixLen[reqs[r].prefix] \div BlockTokens
                          /\ n_shared(r) * BlockTokens <= PrefixLen[reqs[r].prefix]
         /\ ~ Sharing(r) => n_shared(r) = 0
<1>1. length[r] \in Nat /\ reqs[r].prompt \in Nat /\ reqs[r].prompt <= length[r]
  BY RequestCounts DEF Tokens
<1>2. length[r] \div BlockTokens \in Nat /\ length[r] \div BlockTokens <= prompt_blocks(r)
      /\ prompt_blocks(r) \in Nat
  BY <1>1, BlockCounts DEF prompt_blocks
<1>3. CASE Sharing(r)
  <2>1. PICK p \in Prefix : p = reqs[r].prefix
    BY <1>3, RequestCounts DEF Sharing, Tokens
  <2>2. PICK x \in Nat : x = PrefixLen[p] /\ x >= BlockTokens /\ x <= length[r]
    <3>1. PrefixLen[p] \in Nat
      BY RequestsAssumption
    <3>2. PrefixLen[p] >= BlockTokens
      BY <1>3, <2>1 DEF Sharing
    <3>3. reqs[r].prompt > PrefixLen[p]
      BY <1>3, <2>1, RequestCounts DEF Sharing, Tokens
    <3> QED
      BY <1>1, <3>1, <3>2, <3>3
  <2>3. n_shared(r) = x \div BlockTokens
    BY <1>3, <2>1, <2>2 DEF n_shared
  <2>4. /\ x \div BlockTokens \in Nat /\ x \div BlockTokens >= 1
        /\ x \div BlockTokens <= length[r] \div BlockTokens
        /\ (x \div BlockTokens) * BlockTokens <= x
    BY <1>1, <2>2, BlockCounts
  <2>5. PICK k \in Nat : k = x \div BlockTokens
    BY <2>4
  <2>6. n_shared(r) <= prompt_blocks(r)
    BY <1>2, <2>3, <2>4, <2>5
  <2> QED
    BY <1>3, <2>1, <2>2, <2>3, <2>4, <2>6
<1>4. CASE ~ Sharing(r)
  BY <1>2, <1>4 DEF n_shared
<1> QED
  BY <1>3, <1>4

\* What a sequence holds of its own, and its share of the cache's blocks.
LEMMA HeldFacts ==
  ASSUME opts \in Options, active \in Seq(Rid), Tokens, HoldTypes, Held
  PROVE  /\ \A r \in Rid : /\ shared[r] <= table[r] /\ shared[r] <= length[r] \div BlockTokens
                           /\ Private(r) \in Nat
                           /\ r \notin Members(active) => Private(r) = 0
         /\ \A r \in Members(active) : /\ r \in Rid
                                       /\ total_blocks(r) - table[r] - scratch[r] \in Nat
<1>1. ASSUME NEW r \in Rid PROVE shared[r] = 0 \/ (shared[r] = n_shared(r) /\ Sharing(r))
  <2>1. ASSUME shared[r] > 0 PROVE shared[r] = n_shared(r) /\ Sharing(r)
    <3>1. Sharing(r) /\ shared[r] = cache[reqs[r].prefix]
      BY <2>1 DEF Held
    <3>2. PICK p \in Prefix : p = reqs[r].prefix /\ n_shared(r) = PrefixLen[p] \div BlockTokens
      BY <3>1, SharedBlocks
    <3>3. cache[p] \in {0, PrefixLen[p] \div BlockTokens} /\ cache[p] # 0
      BY <2>1, <3>1, <3>2, RequestsAssumption DEF Held, HoldTypes
    <3> QED
      BY <3>1, <3>2, <3>3
  <2> QED
    BY <2>1 DEF HoldTypes
<1>2. ASSUME NEW r \in Rid
      PROVE  /\ shared[r] <= table[r] /\ shared[r] <= length[r] \div BlockTokens
             /\ Private(r) \in Nat
             /\ r \notin Members(active) => Private(r) = 0
  <2>1. shared[r] \in Nat /\ table[r] \in Nat /\ scratch[r] \in Nat
    BY DEF HoldTypes
  <2>2. n_shared(r) \in Nat /\ n_shared(r) <= length[r] \div BlockTokens /\ n_shared(r) <= Blocks(length[r])
    BY SharedBlocks DEF prompt_blocks
  <2>3. length[r] \in Nat
    BY DEF Tokens
  <2>4. length[r] \div BlockTokens \in Nat /\ Blocks(length[r]) \in Nat
    BY <2>3, BlockCounts
  <2>5. shared[r] <= length[r] \div BlockTokens
    BY <1>1, <2>2, <2>4
  <2>6. CASE r \in Members(active)
    <3>1. table[r] = Blocks(length[r])
      BY <2>6 DEF Held, TablesCover
    <3>2. shared[r] <= table[r]
      BY <1>1, <2>1, <2>2, <3>1
    <3> QED
      BY <2>1, <2>5, <2>6, <3>2 DEF Private
  <2>7. CASE r \notin Members(active)
    <3>1. table[r] = 0 /\ shared[r] = 0 /\ scratch[r] = 0
      BY <2>7 DEF Held, TablesCover
    <3> QED
      BY <2>5, <3>1 DEF Private
  <2> QED
    BY <2>6, <2>7
<1>3. ASSUME NEW r \in Members(active)
      PROVE  r \in Rid /\ total_blocks(r) - table[r] - scratch[r] \in Nat
  <2>1. r \in Rid
    BY MemberOf
  <2>2. table[r] = prompt_blocks(r) /\ scratch[r] = scratch_per_seq
    BY <2>1 DEF Held, TablesCover, prompt_blocks
  <2> QED
    BY <2>1, <2>2, Footprint
<1> QED
  BY <1>2, <1>3

\* The sums of the model are natural numbers, and no summand exceeds them.
LEMMA SumFacts ==
  ASSUME opts \in Options, active \in Seq(Rid), Tokens, HoldTypes, Held
  PROVE  /\ committed \in Nat /\ committed = SumFunctionOnSet(GrowthOf, Members(active))
         /\ \A r \in Members(active) : total_blocks(r) - table[r] - scratch[r] <= committed
         /\ \A S \in SUBSET Rid : Freed(S) \in Nat /\ Freed(S) = SumFunctionOnSet(PrivateOf, S)
         /\ \A r \in Rid : PrivateOf[r] = Private(r) /\ PrivateOf[r] \in Nat
         /\ \A r \in Members(active) : GrowthOf[r] = total_blocks(r) - table[r] - scratch[r]
                                       /\ GrowthOf[r] \in Nat
         /\ SumFunctionOnSet(cache, Prefix) \in Nat
<1>1. Members(active) \in SUBSET Rid
  BY MemberOf
<1>2. committed = SumFunctionOnSet(GrowthOf, Members(active))
  BY Zenon DEF committed, GrowthOf
<1>3. \A r \in Members(active) : GrowthOf[r] = total_blocks(r) - table[r] - scratch[r]
                                 /\ GrowthOf[r] \in Nat
  BY <1>1, HeldFacts DEF GrowthOf
<1>4. IsFiniteSet(Members(active))
  BY <1>1, RidFinite
<1>5. /\ SumFunctionOnSet(GrowthOf, Members(active)) \in Nat
      /\ \A r \in Members(active) : GrowthOf[r] <= SumFunctionOnSet(GrowthOf, Members(active))
  BY <1>3, <1>4, SumNat
<1>6. \A r \in Rid : PrivateOf[r] = Private(r) /\ PrivateOf[r] \in Nat
  BY HeldFacts DEF PrivateOf
<1>7. ASSUME NEW S \in SUBSET Rid
      PROVE  Freed(S) \in Nat /\ Freed(S) = SumFunctionOnSet(PrivateOf, S)
  <2>1. Freed(S) = SumFunctionOnSet(PrivateOf, S)
    BY Zenon DEF Freed, PrivateOf
  <2>2. IsFiniteSet(S) /\ \A r \in S : PrivateOf[r] \in Nat
    BY <1>6, RidFinite
  <2>3. SumFunctionOnSet(PrivateOf, S) \in Nat
    BY <2>2, SumNat
  <2> QED
    BY <2>1, <2>3
<1>8. SumFunctionOnSet(cache, Prefix) \in Nat
  <2>1. IsFiniteSet(Prefix) /\ \A p \in Prefix : cache[p] \in Nat
    BY RequestsAssumption DEF HoldTypes
  <2> QED
    BY <2>1, SumNat
<1>9. \A r \in Members(active) : total_blocks(r) - table[r] - scratch[r] <= committed
  BY <1>2, <1>3, <1>5
<1>10. committed \in Nat
  BY <1>2, <1>5
<1> QED
  BY <1>2, <1>3, <1>6, <1>7, <1>8, <1>9, <1>10

\* What try_admit does to the prefix caches: it fills the one of the request, if
\* there is room, and no other.
LEMMA FillHolds ==
  ASSUME ListTypes, Tokens, Holdings, OracleRoom, NEW r \in Rid, TryAdmit(r)
  PROVE  \E f \in Nat :
            /\ f <= num_free
            /\ Verdict(r) \in {"refused", "full", "frag", "admitted"}
            /\ Verdict(r) = "admitted" => f = to_fill(r)
            /\ num_free' = IF Verdict(r) = "admitted" THEN num_free - f - n_new(r) - scratch_per_seq
                                                      ELSE num_free - f
            /\ opts.admission = "oracle" => num_free - f >= committed
            /\ cache' \in [Prefix -> Nat]
            /\ SumFunctionOnSet(cache', Prefix) = SumFunctionOnSet(cache, Prefix) + f
            /\ \A p \in Prefix : /\ cache'[p] \in {0, PrefixLen[p] \div BlockTokens}
                                 /\ cache[p] > 0 => cache'[p] = cache[p]
            /\ Verdict(r) = "admitted" /\ Sharing(r) => cache'[reqs[r].prefix] = n_shared(r)
<1>0. opts \in Options /\ active \in Seq(Rid) /\ HoldTypes /\ Held
  BY DEF ListTypes, Holdings
<1>1. /\ cache \in [Prefix -> Nat] /\ num_free \in Nat
      /\ \A p \in Prefix : cache[p] \in {0, PrefixLen[p] \div BlockTokens}
  BY <1>0 DEF HoldTypes, Held
<1>2. committed \in Nat /\ SumFunctionOnSet(cache, Prefix) \in Nat
  BY <1>0, SumFacts
<1>3. /\ n_shared(r) \in Nat /\ n_shared(r) <= prompt_blocks(r)
      /\ Sharing(r) => /\ n_shared(r) >= 1 /\ reqs[r].prefix \in Prefix
                       /\ n_shared(r) = PrefixLen[reqs[r].prefix] \div BlockTokens
  BY <1>0, SharedBlocks
<1>4. prompt_blocks(r) \in Nat /\ total_blocks(r) \in Nat
  BY <1>0, Footprint
<1>5. opts.watermark \in Nat /\ opts.admission \in {"oracle", "vllm"}
  BY <1>0, SimAssumption
<1>6. PICK f : f = IF Verdict(r) \in {"full", "frag", "admitted"} THEN to_fill(r) ELSE 0
  OBVIOUS
<1>7. to_fill(r) = (IF Fills(r) THEN n_shared(r) ELSE 0) /\ to_fill(r) \in Nat
  BY <1>3 DEF to_fill
<1>8. Fills(r) /\ CacheGate(r) => /\ to_fill(r) <= num_free
                                  /\ opts.admission = "oracle" => num_free - to_fill(r) >= committed
  BY <1>1, <1>2, <1>3, <1>4, <1>5, <1>7 DEF CacheGate
<1>9. ~ Fills(r) => /\ to_fill(r) <= num_free
                    /\ opts.admission = "oracle" => num_free - to_fill(r) >= committed
  BY <1>1, <1>2, <1>7 DEF OracleRoom
<1>10. ~ (Fills(r) /\ ~ CacheGate(r)) => Verdict(r) \in {"full", "frag", "admitted"}
  BY <1>1, <1>7, <1>8, <1>9 DEF Verdict
<1>11. Fills(r) /\ ~ CacheGate(r) => Verdict(r) = "refused"
  BY DEF Verdict
<1>12. /\ f \in Nat /\ f <= num_free
       /\ opts.admission = "oracle" => num_free - f >= committed
       /\ f > 0 => Fills(r) /\ f = n_shared(r)
  BY <1>1, <1>2, <1>6, <1>7, <1>8, <1>9, <1>10, <1>11 DEF OracleRoom
<1>13. /\ cache' = IF f > 0 THEN [cache EXCEPT ![reqs[r].prefix] = f] ELSE cache
       /\ num_free' = IF Verdict(r) = "admitted" THEN num_free - f - n_new(r) - scratch_per_seq
                                                 ELSE num_free - f
  BY <1>6, Zenon DEF TryAdmit
<1>14. CASE f > 0
  <2>1. PICK p \in Prefix : p = reqs[r].prefix /\ cache[p] = 0 /\ f = PrefixLen[p] \div BlockTokens
    BY <1>3, <1>12, <1>14 DEF Fills
  <2>2. cache' = [cache EXCEPT ![p] = f] /\ cache' \in [Prefix -> Nat]
    BY <1>1, <1>12, <1>13, <1>14, <2>1
  <2>3. \A q \in Prefix : cache[q] \in Int /\ cache'[q] = IF q = p THEN cache[q] + f ELSE cache[q]
    BY <1>1, <1>12, <2>1, <2>2
  <2>4. PICK c, d : c = cache /\ d = cache'
    OBVIOUS
  <2>5. SumFunctionOnSet(cache', Prefix) = SumFunctionOnSet(cache, Prefix) + f
    <3>1. /\ IsFiniteSet(Prefix) /\ p \in Prefix
          /\ \A q \in Prefix : c[q] \in Int /\ d[q] \in Int /\ (q # p => d[q] = c[q])
      BY <2>1, <2>2, <2>3, <2>4, RequestsAssumption
    <3>2. SumFunctionOnSet(d, Prefix) = SumFunctionOnSet(c, Prefix) + (d[p] - c[p])
      BY <3>1, SumAt
    <3> QED
      BY <1>12, <2>1, <2>3, <2>4, <3>2
  <2>6. \A q \in Prefix : /\ cache'[q] \in {0, PrefixLen[q] \div BlockTokens}
                          /\ cache[q] > 0 => cache'[q] = cache[q]
    BY <1>1, <2>1, <2>2
  <2>7. cache'[reqs[r].prefix] = n_shared(r)
    BY <1>1, <1>12, <1>14, <2>1, <2>2
  <2> QED
    BY <1>6, <1>10, <1>11, <1>12, <1>13, <2>2, <2>5, <2>6, <2>7
<1>15. CASE ~ (f > 0)
  <2>1. f = 0 /\ cache' = cache
    BY <1>12, <1>13, <1>15
  <2>2. SumFunctionOnSet(cache', Prefix) = SumFunctionOnSet(cache, Prefix) + f
    BY <1>2, <2>1
  <2>3. ASSUME Verdict(r) = "admitted", Sharing(r) PROVE cache'[reqs[r].prefix] = n_shared(r)
    <3>1. f = to_fill(r)
      BY <1>6, <2>3
    <3>2. ~ Fills(r)
      BY <1>3, <1>7, <2>1, <2>3, <3>1
    <3>3. PICK p \in Prefix : p = reqs[r].prefix
      BY <1>3, <2>3
    <3>4. cache[p] # 0
      BY <2>3, <3>2, <3>3 DEF Fills
    <3> QED
      BY <1>1, <1>3, <2>1, <2>3, <3>3, <3>4
  <2> QED
    BY <1>1, <1>6, <1>10, <1>11, <1>12, <1>13, <2>1, <2>2, <2>3
<1> QED
  BY <1>14, <1>15

\* What the running sequences may still ask for, and the sums, do not depend on
\* more than these variables.
LEMMA NewSums ==
  /\ Freed(Rid)' = SumFunctionOnSet(PrivateOf', Rid)
  /\ committed' = SumFunctionOnSet(GrowthOf', Members(active'))
  BY Zenon DEF Freed, PrivateOf, committed, GrowthOf

\* An admission takes from the pool what the sequence then holds, and leaves
\* room for what the running sequences may still ask for.
LEMMA AdmitHolds ==
  ASSUME ListTypes, Apart, Tokens, Holdings, OracleRoom, GateSuffices,
         NEW r \in Rid, r \notin Members(active), TryAdmit(r),
         UNCHANGED <<opts, reqs, length, preempts>>
  PROVE  Holdings' /\ OracleRoom' /\ GateSuffices'
<1>0. opts \in Options /\ active \in Seq(Rid) /\ HoldTypes /\ Held /\ Balanced
  BY DEF ListTypes, Holdings
<1>1. PICK f \in Nat :
            /\ f <= num_free
            /\ Verdict(r) \in {"refused", "full", "frag", "admitted"}
            /\ Verdict(r) = "admitted" => f = to_fill(r)
            /\ num_free' = IF Verdict(r) = "admitted" THEN num_free - f - n_new(r) - scratch_per_seq
                                                      ELSE num_free - f
            /\ opts.admission = "oracle" => num_free - f >= committed
            /\ cache' \in [Prefix -> Nat]
            /\ SumFunctionOnSet(cache', Prefix) = SumFunctionOnSet(cache, Prefix) + f
            /\ \A p \in Prefix : /\ cache'[p] \in {0, PrefixLen[p] \div BlockTokens}
                                 /\ cache[p] > 0 => cache'[p] = cache[p]
            /\ Verdict(r) = "admitted" /\ Sharing(r) => cache'[reqs[r].prefix] = n_shared(r)
  BY FillHolds
<1>2. /\ committed \in Nat /\ SumFunctionOnSet(cache, Prefix) \in Nat
      /\ committed = SumFunctionOnSet(GrowthOf, Members(active))
      /\ Freed(Rid) \in Nat /\ Freed(Rid) = SumFunctionOnSet(PrivateOf, Rid)
      /\ \A q \in Rid : PrivateOf[q] = Private(q) /\ PrivateOf[q] \in Nat
      /\ \A q \in Members(active) : GrowthOf[q] = total_blocks(q) - table[q] - scratch[q]
                                    /\ GrowthOf[q] \in Nat
  BY <1>0, SumFacts
<1>3. /\ scratch_per_seq \in Nat /\ total_blocks(r) \in Nat /\ prompt_blocks(r) \in Nat
      /\ prompt_blocks(r) + scratch_per_seq <= total_blocks(r)
      /\ ~ opts.contiguous => scratch_per_seq = 0
  BY <1>0, Footprint
<1>4. /\ n_shared(r) \in Nat /\ n_shared(r) <= prompt_blocks(r)
      /\ Sharing(r) => reqs[r].prefix \in Prefix
      /\ ~ Sharing(r) => n_shared(r) = 0
  BY <1>0, SharedBlocks
<1>5. opts.watermark \in Nat /\ opts.admission \in {"oracle", "vllm"}
      /\ (opts.contiguous => opts.admission = "oracle")
  BY <1>0, SimAssumption
<1>6. /\ num_free \in Nat /\ table \in [Rid -> Nat] /\ shared \in [Rid -> Nat]
      /\ scratch \in [Rid -> Nat] /\ span \in [Rid -> NoSpan .. NumBlocks - 1]
      /\ table[r] = 0 /\ shared[r] = 0 /\ scratch[r] = 0 /\ span[r] = NoSpan
  BY <1>0 DEF HoldTypes, Held, TablesCover
<1>7. \A q \in Rid : shared[q] > 0 => /\ Sharing(q) /\ shared[q] = cache[reqs[q].prefix]
                                      /\ reqs[q].prefix \in Prefix
                                      /\ shared[q] = cache'[reqs[q].prefix]
  <2> SUFFICES ASSUME NEW q \in Rid, shared[q] > 0
               PROVE  /\ Sharing(q) /\ shared[q] = cache[reqs[q].prefix]
                      /\ reqs[q].prefix \in Prefix
                      /\ shared[q] = cache'[reqs[q].prefix]
    OBVIOUS
  <2>1. Sharing(q) /\ shared[q] = cache[reqs[q].prefix]
    BY <1>0 DEF Held
  <2>2. PICK p \in Prefix : p = reqs[q].prefix
    BY <1>0, <2>1, SharedBlocks
  <2> QED
    BY <1>1, <2>1, <2>2
<1>8. CASE Verdict(r) # "admitted"
  <2>1. UNCHANGED <<active, table, shared, scratch, span>> /\ num_free' = num_free - f
    BY <1>1, <1>8 DEF TryAdmit
  <2>2. ASSUME ~ opts.contiguous PROVE Verdict(r) \notin {"cache_frag", "frag"}
    <3>1. Gate(r) => ~ Unplaced(r)
      <4>1. to_fill(r) \in Nat
        BY <1>4 DEF to_fill
      <4> QED
        BY <1>2, <1>3, <1>4, <1>5, <1>6, <2>2, <4>1 DEF Gate, Unplaced, n_new
    <3> QED
      BY <1>1, <3>1 DEF Verdict
  <2>3. GateSuffices'
    BY <2>2, <1>0 DEF TryAdmit, GateSuffices, HoldTypes
  <2>4. frag_failures' \in Nat
    BY <1>0 DEF TryAdmit, HoldTypes
  <2>5. HoldTypes'
    <3>1. num_free' \in Nat /\ cache' \in [Prefix -> Nat]
      BY <1>0, <1>1, <1>6, <2>1 DEF HoldTypes
    <3> QED
      BY <1>0, <1>1, <2>1, <2>4, <3>1 DEF HoldTypes
  <2>6. Held'
    BY <1>0, <1>1, <1>7, <2>1 DEF Held, TablesCover, Sharing, scratch_per_seq
  <2>7. Freed(Rid)' = Freed(Rid) /\ committed' = committed
    BY <2>1 DEF Freed, Private, committed, total_blocks, total_len, scratch_per_seq
  <2>8. Balanced'
    BY <1>0, <1>1, <1>2, <1>6, <2>1, <2>7 DEF Balanced
  <2>9. OracleRoom'
    BY <1>1, <2>1, <2>7 DEF OracleRoom
  <2> QED
    BY <2>3, <2>5, <2>6, <2>8, <2>9 DEF Holdings
<1>9. CASE Verdict(r) = "admitted"
  <2>1. /\ table' = [table EXCEPT ![r] = prompt_blocks(r)]
        /\ shared' = [shared EXCEPT ![r] = n_shared(r)]
        /\ scratch' = [scratch EXCEPT ![r] = scratch_per_seq]
        /\ span' = [span EXCEPT ![r] = IF opts.contiguous THEN Min(Starts(r)) ELSE NoSpan]
        /\ num_free' = num_free - f - n_new(r) - scratch_per_seq
        /\ frag_failures' = frag_failures + 0
    BY <1>1, <1>9 DEF TryAdmit
  <2>2. Members(active') = Members(active) \cup {r} /\ active' \in Seq(Rid)
    BY <1>9, AdmitPlaces
  <2>3. Gate(r) /\ ~ Unplaced(r) /\ f = to_fill(r)
    BY <1>1, <1>9 DEF Verdict
  <2>4. /\ n_new(r) = prompt_blocks(r) - n_shared(r) /\ n_new(r) \in Nat
        /\ num_free' \in Nat
        /\ opts.admission = "oracle" =>
              num_free' >= committed + (total_blocks(r) - prompt_blocks(r) - scratch_per_seq)
    <3>1. n_new(r) = prompt_blocks(r) - n_shared(r) /\ n_new(r) \in Nat
      BY <1>3, <1>4 DEF n_new
    <3>2. CASE opts.admission = "oracle"
      BY <1>2, <1>3, <1>4, <1>6, <2>1, <2>3, <3>1, <3>2 DEF Gate
    <3>3. CASE opts.admission # "oracle"
      <4>1. scratch_per_seq = 0 /\ num_free - f - n_new(r) >= opts.watermark
        BY <1>3, <1>5, <2>3, <3>3 DEF Gate
      <4> QED
        BY <1>5, <1>6, <2>1, <3>1, <3>3, <4>1
    <3> QED
      BY <3>1, <3>2, <3>3
  <2>5. span' \in [Rid -> NoSpan .. NumBlocks - 1] /\ (~ opts.contiguous => span' = span)
    <3>1. CASE opts.contiguous
      <4>1. Starts(r) # {}
        BY <2>3, <3>1 DEF Unplaced
      <4>2. Starts(r) \subseteq 0 .. NumBlocks - total_blocks(r)
        BY DEF Starts
      <4>3. Starts(r) \subseteq Nat /\ NumBlocks \in Nat
        BY <4>2, SimAssumption
      <4>4. PICK s : s = Min(Starts(r)) /\ s \in Starts(r)
        BY <4>1, <4>3, NatMin
      <4>5. 1 <= total_blocks(r)
        BY <1>0, Footprint
      <4>6. s \in NoSpan .. NumBlocks - 1
        BY <1>3, <4>2, <4>3, <4>4, <4>5 DEF NoSpan
      <4> QED
        BY <1>6, <2>1, <3>1, <4>4, <4>6
    <3>2. CASE ~ opts.contiguous
      BY <1>6, <2>1, <3>2
    <3> QED
      BY <3>1, <3>2
  <2>6. HoldTypes'
    <3>1. table' \in [Rid -> Nat] /\ shared' \in [Rid -> Nat] /\ scratch' \in [Rid -> Nat]
      BY <1>3, <1>4, <1>6, <2>1
    <3>2. frag_failures' \in Nat /\ preempts' = preempts
      BY <1>0, <2>1 DEF HoldTypes
    <3> QED
      BY <1>0, <1>1, <2>4, <2>5, <3>1, <3>2 DEF HoldTypes
  <2>7. /\ \A q \in Rid : q # r => /\ table'[q] = table[q] /\ shared'[q] = shared[q]
                                   /\ scratch'[q] = scratch[q] /\ span'[q] = span[q]
        /\ table'[r] = prompt_blocks(r) /\ shared'[r] = n_shared(r) /\ scratch'[r] = scratch_per_seq
    BY <1>6, <2>1
  <2>8. Held'
    <3>1. TablesCover'
      BY <1>0, <2>2, <2>7 DEF Held, TablesCover, prompt_blocks
    <3>2. \A q \in Rid : IF q \in Members(active')
                         THEN scratch'[q] = scratch_per_seq
                         ELSE scratch'[q] = 0 /\ shared'[q] = 0 /\ span'[q] = NoSpan
      BY <1>0, <2>2, <2>7 DEF Held
    <3>3. \A q \in Rid : ~ opts.contiguous => span'[q] = NoSpan
      BY <1>0, <2>5 DEF Held
    <3>4. \A q \in Rid : shared'[q] > 0 => Sharing(q) /\ shared'[q] = cache'[reqs[q].prefix]
      <4>1. n_shared(r) > 0 => Sharing(r) /\ n_shared(r) = cache'[reqs[r].prefix]
        BY <1>1, <1>4, <1>9
      <4> QED
        BY <1>7, <2>7, <4>1
    <3>5. scratch_per_seq' = scratch_per_seq /\ \A q \in Rid : Sharing(q)' = Sharing(q)
      BY DEF scratch_per_seq, Sharing
    <3> QED
      BY <1>1, <3>1, <3>2, <3>3, <3>4, <3>5 DEF Held
  <2>9. PICK d \in Nat : d = n_new(r) + scratch_per_seq
    BY <1>3, <2>4
  <2>10. Freed(Rid)' = Freed(Rid) + d
    <3>1. PICK g, h : g = PrivateOf /\ h = PrivateOf'
      OBVIOUS
    <3>2. \A q \in Rid : h[q] = table'[q] - shared'[q] + scratch'[q]
      BY <3>1 DEF PrivateOf, Private
    <3>3. g[r] = 0
      BY <1>0, <1>2, <3>1, HeldFacts
    <3>4. h[r] = d
      BY <1>3, <1>4, <2>4, <2>7, <2>9, <3>2
    <3>5. \A q \in Rid : q # r => h[q] = g[q]
      BY <1>2, <2>7, <3>1, <3>2 DEF Private
    <3>6. /\ IsFiniteSet(Rid) /\ r \in Rid
          /\ \A q \in Rid : g[q] \in Int /\ h[q] \in Int /\ (q # r => h[q] = g[q])
      BY <1>2, <3>1, <3>3, <3>4, <3>5, RidFinite
    <3>7. SumFunctionOnSet(h, Rid) = SumFunctionOnSet(g, Rid) + (h[r] - g[r])
      BY <3>6, SumAt
    <3>8. Freed(Rid)' = SumFunctionOnSet(h, Rid) /\ Freed(Rid) = SumFunctionOnSet(g, Rid)
      BY <1>2, <3>1, NewSums
    <3> QED
      BY <1>2, <3>3, <3>4, <3>7, <3>8
  <2>11. Balanced'
    <3>1. PICK F \in Nat, C \in Nat : F = Freed(Rid) /\ C = SumFunctionOnSet(cache, Prefix)
      BY <1>2
    <3>2. num_free + F + C = NumBlocks
      BY <1>0, <3>1 DEF Balanced
    <3>3. num_free' = num_free - f - d
      BY <1>3, <1>6, <2>1, <2>4, <2>9
    <3>4. num_free' + (F + d) + (C + f) = NumBlocks
      BY <1>6, <3>2, <3>3
    <3> QED
      BY <1>1, <2>10, <3>1, <3>4 DEF Balanced
  <2>12. committed' = committed + (total_blocks(r) - prompt_blocks(r) - scratch_per_seq)
    <3>1. PICK g, h, M : g = GrowthOf /\ h = GrowthOf' /\ M = Members(active)
      OBVIOUS
    <3>2. \A q \in Rid : h[q] = total_blocks(q) - table'[q] - scratch'[q]
      BY <3>1 DEF GrowthOf, total_blocks, total_len, scratch_per_seq
    <3>3. M \in SUBSET Rid /\ IsFiniteSet(M) /\ r \notin M
      BY <1>0, <3>1, MemberOf, RidFinite
    <3>4. \A q \in M : g[q] \in Int /\ h[q] = g[q]
      BY <1>2, <2>7, <3>1, <3>2, <3>3
    <3>5. h[r] = total_blocks(r) - prompt_blocks(r) - scratch_per_seq /\ h[r] \in Int
      BY <1>3, <2>7, <3>2
    <3>6. SumFunctionOnSet(h, M) = SumFunctionOnSet(g, M)
      BY <3>3, <3>4, SumEqual
    <3>7. \A q \in M \cup {r} : h[q] \in Int
      BY <3>4, <3>5
    <3>8. SumFunctionOnSet(h, M \cup {r}) = h[r] + SumFunctionOnSet(h, M)
      BY <3>3, <3>7, SumAdd
    <3>9. committed' = SumFunctionOnSet(h, M \cup {r}) /\ committed = SumFunctionOnSet(g, M)
      BY <1>2, <2>2, <3>1, NewSums
    <3> QED
      BY <1>2, <3>5, <3>6, <3>8, <3>9
  <2>13. OracleRoom'
    BY <2>4, <2>12 DEF OracleRoom
  <2>14. GateSuffices'
    BY <1>0, <2>1 DEF GateSuffices, HoldTypes
  <2> QED
    BY <2>6, <2>8, <2>11, <2>13, <2>14 DEF Holdings
<1> QED
  BY <1>8, <1>9

\* A sequence grows by n blocks after the sequences V were preempted; when it is
\* one of them itself, it does not grow.
LEMMA GrownHolds ==
  ASSUME opts \in Options, active \in Seq(Rid), Tokens, Holdings, OracleRoom, GateSuffices,
         NEW r \in Members(active), NEW V, V \subseteq Members(active), NEW n \in Nat, NEW t \in Nat,
         r \in V => n = 0 /\ t = 0, V # {} => opts.admission # "oracle",
         Blocks(length[r] + t) = Blocks(length[r]) + n,
         active' \in Seq(Rid), Members(active') = Members(active) \ V,
         preempts' \in [Rid -> 0 .. MaxPreempts + 1],
         table' = [q \in Rid |-> IF q \in V THEN 0 ELSE IF q = r THEN table[q] + n ELSE table[q]],
         shared' = Forget(shared, V),
         num_free' = num_free + Freed(V) - n, num_free' \in Nat,
         length' = [length EXCEPT ![r] = length[r] + t],
         UNCHANGED <<opts, reqs, scratch, span, cache, frag_failures>>
  PROVE  Holdings' /\ OracleRoom' /\ GateSuffices'
<1>0. HoldTypes /\ Held /\ Balanced
  BY DEF Holdings
<1>1. /\ committed \in Nat /\ SumFunctionOnSet(cache, Prefix) \in Nat
      /\ committed = SumFunctionOnSet(GrowthOf, Members(active))
      /\ Freed(Rid) \in Nat /\ Freed(Rid) = SumFunctionOnSet(PrivateOf, Rid)
      /\ \A S \in SUBSET Rid : Freed(S) \in Nat /\ Freed(S) = SumFunctionOnSet(PrivateOf, S)
      /\ \A q \in Rid : PrivateOf[q] = Private(q) /\ PrivateOf[q] \in Nat
      /\ \A q \in Members(active) : GrowthOf[q] = total_blocks(q) - table[q] - scratch[q]
                                    /\ GrowthOf[q] \in Nat
  BY <1>0, SumFacts
<1>2. r \in Rid /\ Members(active) \subseteq Rid /\ V \in SUBSET Rid
  BY MemberOf
<1>3. /\ num_free \in Nat /\ table \in [Rid -> Nat] /\ shared \in [Rid -> Nat]
      /\ scratch \in [Rid -> Nat] /\ length \in [Rid -> Nat]
  BY <1>0 DEF HoldTypes, Tokens
<1>4. /\ table' \in [Rid -> Nat] /\ shared' \in [Rid -> Nat]
      /\ \A q \in Rid : table'[q] = IF q \in V THEN 0 ELSE IF q = r THEN table[q] + n ELSE table[q]
      /\ \A q \in Rid : shared'[q] = IF q \in V THEN 0 ELSE shared[q]
      /\ \A q \in Rid : length'[q] = IF q = r THEN length[q] + t ELSE length[q]
  BY <1>3 DEF Forget
<1>5. V # {} => /\ ~ opts.contiguous /\ scratch_per_seq = 0
                /\ \A q \in V : scratch[q] = 0 /\ span[q] = NoSpan
  <2>1. V # {} => ~ opts.contiguous
    BY SimAssumption
  <2>2. V # {} => scratch_per_seq = 0
    BY <2>1 DEF scratch_per_seq
  <2> QED
    BY <1>0, <1>2, <2>1, <2>2 DEF Held
<1>6. HoldTypes'
  BY <1>0, <1>4 DEF HoldTypes
<1>7. Held'
  <2>1. TablesCover'
    <3>1. \A q \in Rid : table[q] = IF q \in Members(active) THEN Blocks(length[q]) ELSE 0
      BY <1>0 DEF Held, TablesCover
    <3>2. \A q \in Rid : table'[q] = IF q \in Members(active') THEN Blocks(length'[q]) ELSE 0
      BY <1>4, <3>1
    <3> QED
      BY <3>2 DEF TablesCover
  <2>2. \A q \in Rid : IF q \in Members(active')
                       THEN scratch'[q] = scratch_per_seq
                       ELSE scratch'[q] = 0 /\ shared'[q] = 0 /\ span'[q] = NoSpan
    BY <1>0, <1>4, <1>5 DEF Held
  <2>3. \A q \in Rid : shared'[q] > 0 => Sharing(q) /\ shared'[q] = cache'[reqs[q].prefix]
    BY <1>0, <1>4 DEF Held
  <2>4. scratch_per_seq' = scratch_per_seq /\ \A q \in Rid : Sharing(q)' = Sharing(q)
    BY DEF scratch_per_seq, Sharing
  <2> QED
    BY <1>0, <2>1, <2>2, <2>3, <2>4 DEF Held
<1>8. Freed(Rid)' = Freed(Rid) - Freed(V) + n
  <2>1. PICK g, h, k : /\ g = PrivateOf /\ h = PrivateOf'
                       /\ k = [q \in Rid |-> IF q \in V THEN 0 ELSE g[q]]
    OBVIOUS
  <2>2. \A q \in Rid : h[q] = table'[q] - shared'[q] + scratch[q]
    BY <2>1 DEF PrivateOf, Private
  <2>3. \A q \in Rid : g[q] \in Int /\ g[q] = table[q] - shared[q] + scratch[q]
    BY <1>1, <2>1 DEF Private
  <2>4. \A q \in Rid : k[q] \in Int /\ k[q] = IF q \in V THEN 0 ELSE g[q]
    BY <2>1, <2>3
  <2>5. \A q \in Rid : h[q] = IF q = r THEN k[q] + n ELSE k[q]
    <3> SUFFICES ASSUME NEW q \in Rid PROVE h[q] = IF q = r THEN k[q] + n ELSE k[q]
      OBVIOUS
    <3>1. /\ table[q] \in Nat /\ shared[q] \in Nat /\ scratch[q] \in Nat
      BY <1>3
    <3>2. CASE q \in V
      <4>1. table'[q] = 0 /\ shared'[q] = 0 /\ k[q] = 0
        BY <1>4, <2>4, <3>2
      <4>2. scratch[q] = 0
        BY <1>5, <3>2
      <4>3. h[q] = 0
        BY <2>2, <4>1, <4>2
      <4>4. q = r => n = 0
        BY <3>2
      <4> QED
        BY <4>1, <4>3, <4>4
    <3>3. CASE q \notin V
      <4>1. shared'[q] = shared[q] /\ k[q] = g[q] /\ g[q] = table[q] - shared[q] + scratch[q]
        BY <1>4, <2>3, <2>4, <3>3
      <4>2. table'[q] = IF q = r THEN table[q] + n ELSE table[q]
        BY <1>4, <3>3
      <4>3. h[q] = table'[q] - shared[q] + scratch[q]
        BY <2>2, <4>1
      <4>4. CASE q = r
        BY <3>1, <4>1, <4>2, <4>3, <4>4
      <4>5. CASE q # r
        BY <3>1, <4>1, <4>2, <4>3, <4>5
      <4> QED
        BY <4>4, <4>5
    <3> QED
      BY <3>2, <3>3
  <2>6. IsFiniteSet(Rid) /\ V \subseteq Rid
    BY <1>2, RidFinite
  <2>7. SumFunctionOnSet(k, Rid) = SumFunctionOnSet(g, Rid) - SumFunctionOnSet(g, V)
    BY <2>3, <2>4, <2>6, SumForget
  <2>8. \A q \in Rid : k[q] \in Int /\ h[q] \in Int /\ (q # r => h[q] = k[q])
    BY <2>4, <2>5
  <2>9. SumFunctionOnSet(h, Rid) = SumFunctionOnSet(k, Rid) + (h[r] - k[r])
    BY <1>2, <2>6, <2>8, SumAt
  <2>10. h[r] - k[r] = n
    BY <1>2, <2>4, <2>5
  <2>11. /\ Freed(Rid)' = SumFunctionOnSet(h, Rid) /\ Freed(Rid) = SumFunctionOnSet(g, Rid)
         /\ Freed(V) = SumFunctionOnSet(g, V) /\ Freed(V) \in Nat
    BY <1>1, <1>2, <2>1, NewSums
  <2> QED
    BY <1>1, <2>7, <2>9, <2>10, <2>11
<1>9. Balanced'
  <2>1. PICK F \in Nat, C \in Nat, v \in Nat :
           F = Freed(Rid) /\ C = SumFunctionOnSet(cache, Prefix) /\ v = Freed(V)
    BY <1>1, <1>2
  <2>2. num_free + F + C = NumBlocks
    BY <1>0, <2>1 DEF Balanced
  <2>3. num_free' + (F - v + n) + C = NumBlocks
    BY <1>3, <2>1, <2>2, SMTT(30)
  <2> QED
    BY <1>8, <2>1, <2>3 DEF Balanced
<1>10. OracleRoom'
  <2> SUFFICES ASSUME opts.admission = "oracle" PROVE num_free' >= committed'
    BY DEF OracleRoom
  <2>1. V = {} /\ num_free >= committed
    BY DEF OracleRoom
  <2>2. Freed(V) = 0
    BY <1>1, <1>2, <2>1, SumEmpty
  <2>3. PICK g, h, M : g = GrowthOf /\ h = GrowthOf' /\ M = Members(active)
    OBVIOUS
  <2>4. \A q \in Rid : h[q] = total_blocks(q) - table'[q] - scratch[q]
    BY <2>3 DEF GrowthOf, total_blocks, total_len, scratch_per_seq
  <2>5. M \in SUBSET Rid /\ IsFiniteSet(M) /\ r \in M
    BY <1>2, <2>3, RidFinite
  <2>6. \A q \in M : g[q] = total_blocks(q) - table[q] - scratch[q] /\ g[q] \in Int
                     /\ total_blocks(q) \in Nat /\ table[q] \in Nat /\ scratch[q] \in Nat
    <3> SUFFICES ASSUME NEW q \in M
                 PROVE  /\ g[q] = total_blocks(q) - table[q] - scratch[q] /\ g[q] \in Int
                        /\ total_blocks(q) \in Nat /\ table[q] \in Nat /\ scratch[q] \in Nat
      OBVIOUS
    <3>1. q \in Rid
      BY <2>5
    <3>2. total_blocks(q) \in Nat
      BY <3>1, Footprint
    <3>3. g[q] = total_blocks(q) - table[q] - scratch[q] /\ g[q] \in Nat
      BY <1>1, <2>3
    <3> QED
      BY <1>3, <3>1, <3>2, <3>3
  <2>7. \A q \in M : table'[q] = IF q = r THEN table[q] + n ELSE table[q]
    BY <1>2, <1>4, <2>1, <2>3
  <2>8. \A q \in M : g[q] \in Int /\ h[q] \in Int /\ (q # r => h[q] = g[q])
    <3> SUFFICES ASSUME NEW q \in M
                 PROVE  g[q] \in Int /\ h[q] \in Int /\ (q # r => h[q] = g[q])
      OBVIOUS
    <3>1. h[q] = total_blocks(q) - table'[q] - scratch[q]
      BY <2>4, <2>5
    <3>2. /\ g[q] = total_blocks(q) - table[q] - scratch[q] /\ g[q] \in Int
          /\ total_blocks(q) \in Nat /\ table[q] \in Nat /\ scratch[q] \in Nat
      BY <2>6
    <3>3. table'[q] \in Nat /\ (q # r => table'[q] = table[q])
      BY <1>4, <2>5, <2>7
    <3>4. h[q] \in Int
      <4>1. PICK x \in Nat, y \in Nat, z \in Nat :
               x = total_blocks(q) /\ y = table'[q] /\ z = scratch[q]
        BY <3>2, <3>3
      <4>2. h[q] = x - y - z
        BY <3>1, <4>1
      <4> QED
        BY <4>2
    <3>5. q # r => h[q] = g[q]
      BY <3>1, <3>2, <3>3
    <3> QED
      BY <3>2, <3>4, <3>5
  <2>9. SumFunctionOnSet(h, M) = SumFunctionOnSet(g, M) + (h[r] - g[r])
    BY <2>5, <2>8, SumAt
  <2>10. h[r] - g[r] = - n
    <3>1. h[r] = total_blocks(r) - table'[r] - scratch[r] /\ table'[r] = table[r] + n
      BY <1>2, <2>4, <2>5, <2>7
    <3>2. /\ total_blocks(r) \in Nat /\ table[r] \in Nat /\ scratch[r] \in Nat
          /\ g[r] = total_blocks(r) - table[r] - scratch[r]
      BY <2>5, <2>6
    <3> QED
      BY <3>1, <3>2
  <2>11. committed' = SumFunctionOnSet(h, M) /\ committed = SumFunctionOnSet(g, M)
    <3>1. Members(active') = M
      BY <2>1, <2>3
    <3> QED
      BY <1>1, <2>3, <3>1, NewSums
  <2>12. committed' = committed - n
    BY <1>1, <2>9, <2>10, <2>11
  <2> QED
    BY <1>1, <1>3, <2>1, <2>2, <2>12
<1>11. GateSuffices'
  BY DEF GateSuffices
<1> QED
  BY <1>6, <1>7, <1>9, <1>10, <1>11 DEF Holdings

\* The count of preemptions stops at its limit.
LEMMA PreemptCounts ==
  ASSUME preempts \in [Rid -> 0 .. MaxPreempts + 1], NEW vs, Preempt(vs)
  PROVE  preempts' \in [Rid -> 0 .. MaxPreempts + 1]
<1>1. ASSUME NEW q \in Rid PROVE Min({preempts[q] + 1, MaxPreempts + 1}) \in 0 .. MaxPreempts + 1
  <2>1. PICK S : S = {preempts[q] + 1, MaxPreempts + 1}
    OBVIOUS
  <2>2. S \subseteq Nat /\ S # {} /\ MaxPreempts + 1 \in S /\ MaxPreempts + 1 \in Nat
    BY <2>1, SimAssumption
  <2>3. Min(S) \in S /\ Min(S) <= MaxPreempts + 1
    BY <2>2, NatMin
  <2>4. Min(S) \in 0 .. MaxPreempts + 1
    <3>1. Min(S) \in Nat /\ MaxPreempts \in Nat
      BY <2>2, <2>3, SimAssumption
    <3> QED
      BY <2>3, <3>1
  <2> QED
    BY <2>1, <2>4
<1> QED
  BY <1>1 DEF Preempt

\* What ensure_free and append_block leave: the blocks of the victims are back in
\* the pool, the sequence has its new ones, and an oracle run does not crash.
LEMMA GrowHolds ==
  ASSUME Places, Tokens, Holdings, OracleRoom, GateSuffices, NoCrash, Running,
         Current \in Members(active), NEW n \in Nat, NEW held \in Nat, NEW t \in Nat,
         Blocks(length[Current] + t) = Blocks(length[Current]) + n,
         length[Current] + t <= total_len(Current),
         opts.admission = "oracle" /\ (opts.adopt # "copyback" \/ opts.contiguous) => held = 0,
         Grow(Current, n, held, t), UNCHANGED <<setup, results, frag_failures>>
  PROVE  Holdings' /\ OracleRoom' /\ GateSuffices' /\ NoCrash'
<1>0. ListTypes /\ Apart /\ HoldTypes /\ Held /\ Balanced
  BY DEF Places, Holdings
<1>1. /\ opts \in Options /\ active \in Seq(Rid) /\ Distinct(active) /\ pc = "decode"
      /\ UNCHANGED <<opts, reqs>>
  BY <1>0 DEF ListTypes, Apart, Running, setup
<1>2. PICK r \in Members(active) : r = Current
  OBVIOUS
<1>3. r \in Rid /\ Members(active) \subseteq Rid
  BY <1>1, MemberOf
<1>4. PICK vs, V : vs = Victims(r, num_free - held, n) /\ V = Members(vs)
  OBVIOUS
<1>5. /\ vs \in Seq(Rid) /\ Distinct(vs) /\ V \subseteq Members(active)
      /\ opts.admission = "oracle" => vs = << >>
  BY <1>1, <1>4, VictimList
<1>6. V # {} => opts.admission # "oracle"
  BY <1>4, <1>5, NoMembers
<1>7. /\ committed \in Nat
      /\ \A q \in Members(active) : total_blocks(q) - table[q] - scratch[q] <= committed
      /\ \A S \in SUBSET Rid : Freed(S) \in Nat /\ Freed(S) = SumFunctionOnSet(PrivateOf, S)
  BY <1>0, <1>1, SumFacts
<1>8. V \in SUBSET Rid /\ Freed(V) \in Nat /\ num_free \in Nat /\ (V = {} => Freed(V) = 0)
  BY <1>0, <1>3, <1>5, <1>7, SumEmpty DEF HoldTypes
<1>9. /\ table \in [Rid -> Nat] /\ shared \in [Rid -> Nat] /\ length \in [Rid -> Nat]
      /\ scratch \in [Rid -> Nat] /\ preempts \in [Rid -> 0 .. MaxPreempts + 1]
  BY <1>0 DEF HoldTypes, Tokens
<1>10. n <= total_blocks(r) - scratch[r] - table[r] /\ total_blocks(r) \in Nat
  <2>1. table[r] = Blocks(length[r]) /\ scratch[r] = scratch_per_seq
    BY <1>0, <1>3 DEF Held, TablesCover
  <2>2. length[r] + t \in Nat /\ total_len(r) \in Nat
    BY <1>3, <1>9, RequestCounts DEF Tokens
  <2>3. Blocks(length[r] + t) <= Blocks(total_len(r)) /\ Blocks(total_len(r)) \in Nat
    BY <1>2, <2>2, BlockCounts
  <2>4. scratch_per_seq \in Nat /\ table[r] \in Nat
    BY <1>1, <1>3, <1>9, Footprint
  <2> QED
    BY <1>2, <2>1, <2>3, <2>4 DEF total_blocks
<1>11. opts.admission = "oracle" => n <= num_free
  <2>1. total_blocks(r) - table[r] - scratch[r] <= committed
    BY <1>7
  <2>2. table[r] \in Nat /\ scratch[r] \in Nat
    BY <1>3, <1>9
  <2> QED
    BY <1>7, <1>8, <1>10, <2>1, <2>2 DEF OracleRoom
<1>12. \/ /\ r \notin V /\ Crash
          /\ n > IF opts.contiguous THEN total_blocks(r) - scratch[r] - table[r]
                                    ELSE (num_free + Freed(V)) - held
       \/ /\ r \in V /\ Preempt(vs) /\ table' = Forget(table, V) /\ shared' = Forget(shared, V)
          /\ num_free' = num_free + Freed(V)
          /\ UNCHANGED <<scratch, span, cache, length, pc>>
       \/ /\ r \notin V /\ Preempt(vs) /\ table' = [Forget(table, V) EXCEPT ![r] = @ + n]
          /\ ~ (n > IF opts.contiguous THEN total_blocks(r) - scratch[r] - table[r]
                                       ELSE (num_free + Freed(V)) - held)
          /\ shared' = Forget(shared, V)
          /\ num_free' = (num_free + Freed(V)) - n
          /\ length' = [length EXCEPT ![r] = length[r] + t]
          /\ UNCHANGED <<scratch, span, cache, pc>>
  BY <1>2, <1>4, Zenon DEF Grow
<1>13. CASE /\ r \notin V /\ Crash
            /\ n > IF opts.contiguous THEN total_blocks(r) - scratch[r] - table[r]
                                      ELSE (num_free + Freed(V)) - held
  <2>1. UNCHANGED <<active, table, shared, scratch, span, cache, num_free, length, preempts>>
    BY <1>13 DEF Crash, pool
  <2>2. HoldTypes' /\ Held'
    BY <1>0, <1>1, <2>1 DEF HoldTypes, Held, TablesCover, Sharing, scratch_per_seq
  <2>3. Freed(Rid)' = Freed(Rid) /\ committed' = committed
    BY <1>1, <2>1 DEF Freed, Private, committed, total_blocks, total_len, scratch_per_seq
  <2>4. Balanced' /\ OracleRoom' /\ GateSuffices'
    BY <1>0, <1>1, <2>1, <2>3 DEF Balanced, OracleRoom, GateSuffices
  <2>5. ~ (opts.admission = "oracle" /\ (opts.adopt # "copyback" \/ opts.contiguous))
    <3> SUFFICES ASSUME opts.admission = "oracle", opts.adopt # "copyback" \/ opts.contiguous
                 PROVE  FALSE
      OBVIOUS
    <3>1. held = 0 /\ Freed(V) = 0 /\ n <= num_free
      BY <1>6, <1>8, <1>11
    <3>2. ~ opts.contiguous /\ n > (num_free + Freed(V)) - held
      <4>1. table[r] \in Nat /\ scratch[r] \in Nat
        BY <1>3, <1>9
      <4>2. ~ (n > total_blocks(r) - scratch[r] - table[r])
        BY <1>10, <4>1
      <4> QED
        BY <1>13, <4>2
    <3> QED
      BY <1>8, <3>1, <3>2
  <2> QED
    BY <1>1, <2>2, <2>4, <2>5 DEF Holdings, NoCrash
<1>14. CASE /\ r \in V /\ Preempt(vs) /\ table' = Forget(table, V) /\ shared' = Forget(shared, V)
            /\ num_free' = num_free + Freed(V)
            /\ UNCHANGED <<scratch, span, cache, length, pc>>
  <2>1. active' \in Seq(Rid) /\ Members(active') = Members(active) \ V
    BY <1>0, <1>4, <1>5, <1>14, PreemptLists
  <2>2. preempts' \in [Rid -> 0 .. MaxPreempts + 1]
    BY <1>9, <1>14, PreemptCounts
  <2>z. PICK z \in Nat : z = 0
    OBVIOUS
  <2>3. table' = [q \in Rid |-> IF q \in V THEN 0 ELSE IF q = r THEN table[q] + z ELSE table[q]]
    BY <1>9, <1>14, <2>z DEF Forget
  <2>4. /\ num_free' = num_free + Freed(V) - z /\ num_free' \in Nat
    BY <1>8, <1>14, <2>z
  <2>5. length' = [length EXCEPT ![r] = length[r] + z]
    BY <1>3, <1>9, <1>14, <2>z
  <2>6. Blocks(length[r] + z) = Blocks(length[r]) + z
    <3>1. length[r] \in Nat /\ length[r] + z = length[r]
      BY <1>3, <1>9, <2>z
    <3>2. Blocks(length[r]) \in Nat
      BY <3>1, BlockCounts
    <3> QED
      BY <2>z, <3>1, <3>2
  <2>7. UNCHANGED <<opts, reqs, scratch, span, cache, frag_failures>>
    BY <1>1, <1>14
  <2>8. (r \in V => z = 0 /\ z = 0) /\ shared' = Forget(shared, V) /\ V \subseteq Members(active)
    BY <1>5, <1>14, <2>z
  <2>9. Holdings' /\ OracleRoom' /\ GateSuffices'
    BY <1>1, <1>6, <2>1, <2>2, <2>3, <2>4, <2>5, <2>6, <2>7, <2>8, GrownHolds
  <2> QED
    BY <1>1, <1>14, <2>9 DEF NoCrash
<1>15. CASE /\ r \notin V /\ Preempt(vs) /\ table' = [Forget(table, V) EXCEPT ![r] = @ + n]
            /\ ~ (n > IF opts.contiguous THEN total_blocks(r) - scratch[r] - table[r]
                                         ELSE (num_free + Freed(V)) - held)
            /\ shared' = Forget(shared, V)
            /\ num_free' = (num_free + Freed(V)) - n
            /\ length' = [length EXCEPT ![r] = length[r] + t]
            /\ UNCHANGED <<scratch, span, cache, pc>>
  <2>1. active' \in Seq(Rid) /\ Members(active') = Members(active) \ V
    BY <1>0, <1>4, <1>5, <1>15, PreemptLists
  <2>2. preempts' \in [Rid -> 0 .. MaxPreempts + 1]
    BY <1>9, <1>15, PreemptCounts
  <2>3. table' = [q \in Rid |-> IF q \in V THEN 0 ELSE IF q = r THEN table[q] + n ELSE table[q]]
    BY <1>3, <1>9, <1>15 DEF Forget
  <2>4. num_free' = num_free + Freed(V) - n
    BY <1>8, <1>15
  <2>5. num_free' \in Nat
    <3>1. opts.contiguous => n <= num_free
      BY <1>1, <1>11, SimAssumption
    <3>2. ~ opts.contiguous => n <= num_free + Freed(V) - held
      BY <1>8, <1>15
    <3> QED
      BY <1>8, <2>4, <3>1, <3>2
  <2>6. Blocks(length[r] + t) = Blocks(length[r]) + n
    BY <1>2
  <2>7. UNCHANGED <<opts, reqs, scratch, span, cache, frag_failures>>
    BY <1>1, <1>15
  <2>8. Holdings' /\ OracleRoom' /\ GateSuffices'
    BY <1>1, <1>5, <1>6, <1>15, <2>1, <2>2, <2>3, <2>4, <2>5, <2>6, <2>7, GrownHolds
  <2> QED
    BY <1>1, <1>15, <2>8 DEF NoCrash
<1> QED
  BY <1>12, <1>13, <1>14, <1>15

\* Min of two counts of which the first is the smaller one.
LEMMA MinFirst ==
  ASSUME NEW x \in Nat, NEW y \in Nat, x <= y
  PROVE  Min({x, y}) = x
<1>1. PICK S : S = {x, y}
  OBVIOUS
<1>2. S \subseteq Nat /\ S # {} /\ x \in S
  BY <1>1
<1>3. PICK m : m = Min(S) /\ m \in S /\ m <= x
  BY <1>2, NatMin
<1>4. m = x
  BY <1>1, <1>2, <1>3
<1> QED
  BY <1>1, <1>3, <1>4

\* Adopting a branch by swapping pointers: the table ends with the blocks the
\* accepted tokens need, and the blocks of the cache stay in it.
LEMMA SpliceHolds ==
  ASSUME Places, Tokens, Holdings, OracleRoom, GateSuffices, NoCrash,
         NEW k \in 0 .. opts.depth, spec_splice(k)
  PROVE  Holdings' /\ OracleRoom' /\ GateSuffices' /\ NoCrash'
<1>0. ListTypes /\ Apart /\ HoldTypes /\ Held
  BY DEF Places, Holdings
<1>1. /\ opts \in Options /\ active \in Seq(Rid) /\ Running /\ Current \in Members(active)
      /\ pc' = pc /\ pc = "decode"
      /\ UNCHANGED <<opts, reqs, active, scratch, span, cache, preempts, frag_failures>>
  BY <1>0 DEF ListTypes, spec_splice, setup, Running
<1>2. PICK r \in Members(active) : r = Current
  BY <1>1
<1>3. r \in Rid /\ length[r] < total_len(r)
  BY <1>1, <1>2, TokensLeft
<1>4. PICK x \in Nat : x = length[r]
  BY <1>3 DEF Tokens
<1>5. opts.depth \in Nat /\ opts.width \in Nat \ {0} /\ k \in Nat /\ BlockTokens \in Nat \ {0}
  BY <1>1, SimAssumption
<1>6. PICK a \in Nat : a = adv(r, k) /\ a <= opts.depth + 1
  <2>1. adv(r, k) \in 1 .. k + 1
    BY <1>3, <1>5, Advance
  <2> QED
    BY <1>5, <2>1
<1>7. PICK m \in Nat : m = partial(r) /\ m = x % BlockTokens
  BY <1>4, <1>5, ModNat DEF partial
<1>8. PICK c \in Nat : c = ceil_div(m + a, BlockTokens)
  <2>1. m + a \in Nat
    OBVIOUS
  <2> QED
    BY <1>5, <2>1, CeilDiv DEF ceil_div
<1>9. PICK d \in Nat : d = n_br(r) /\ c <= d
  <2>1. PICK y \in Nat : y = m + opts.depth + 1
    BY <1>5
  <2>2. m + a \in Nat /\ m + a <= y
    BY <1>5, <1>6, <2>1
  <2>3. ceil_div(y, BlockTokens) \in Nat /\ ceil_div(m + a, BlockTokens) <= ceil_div(y, BlockTokens)
    BY <1>5, <2>1, <2>2, CeilDiv DEF ceil_div
  <2> QED
    BY <1>7, <1>8, <2>1, <2>3 DEF n_br
<1>10. PICK base \in Nat : base = x \div BlockTokens
  BY <1>5, CeilDiv
<1>11. /\ Blocks(x + a) = base + c
       /\ base = IF m > 0 THEN Blocks(x) - 1 ELSE Blocks(x)
  <2>1. /\ (x + a + BlockTokens - 1) \div BlockTokens
             = (x \div BlockTokens) + (((x % BlockTokens) + a + BlockTokens - 1) \div BlockTokens)
        /\ x \div BlockTokens = IF (x % BlockTokens) > 0
                                THEN ((x + BlockTokens - 1) \div BlockTokens) - 1
                                ELSE (x + BlockTokens - 1) \div BlockTokens
    <3>1. PICK b \in Nat \ {0} : b = BlockTokens
      BY <1>5
    <3>2. (x + a + b - 1) \div b = (x \div b) + (((x % b) + a + b - 1) \div b)
      BY CeilSplit, Zenon
    <3>3. x \div b = IF (x % b) > 0 THEN ((x + b - 1) \div b) - 1 ELSE (x + b - 1) \div b
      BY FloorOfCeil, Zenon
    <3> QED
      BY <3>1, <3>2, <3>3, Zenon
  <2>2. (x + a + BlockTokens - 1) \div BlockTokens = Blocks(x + a)
    BY DEF Blocks, ceil_div
  <2>3. (x + BlockTokens - 1) \div BlockTokens = Blocks(x)
    BY DEF Blocks, ceil_div
  <2>4. ((x % BlockTokens) + a + BlockTokens - 1) \div BlockTokens = c
    BY <1>7, <1>8 DEF ceil_div
  <2> QED
    BY <1>7, <1>10, <2>1, <2>2, <2>3, <2>4, Zenon
<1>12. PICK n \in Nat : Blocks(x + a) = Blocks(x) + n /\ Blocks(x) \in Nat
  <2>1. x + a \in Nat /\ x <= x + a
    OBVIOUS
  <2>2. Blocks(x) \in Nat /\ Blocks(x + a) \in Nat /\ Blocks(x) <= Blocks(x + a)
    BY <2>1, BlockCounts
  <2>3. Blocks(x + a) - Blocks(x) \in Nat
    BY <2>2
  <2> QED
    BY <2>2, <2>3
<1>13. /\ table[r] = Blocks(x) /\ table \in [Rid -> Nat] /\ shared \in [Rid -> Nat]
       /\ shared[r] \in Nat /\ shared[r] <= base /\ num_free \in Nat
  <2>1. shared[r] <= length[r] \div BlockTokens
    BY <1>0, <1>1, <1>3, HeldFacts
  <2> QED
    BY <1>0, <1>3, <1>4, <1>10, <2>1 DEF Held, TablesCover, HoldTypes
<1>14. Min({c, d}) = c /\ Min({shared[r], base}) = shared[r]
  BY <1>9, <1>13, MinFirst
<1>15. /\ num_free >= Branches(r)
       /\ table' = [table EXCEPT ![r] = base + c]
       /\ shared' = [shared EXCEPT ![r] = shared[r]]
       /\ num_free' = num_free + ((table[r] - shared[r]) - (base - shared[r])) - c
       /\ length' = [length EXCEPT ![r] = x + a]
  <2>1. base = IF partial(r) > 0 THEN table[r] - 1 ELSE table[r]
    BY <1>7, <1>11, <1>13
  <2>2. c = Min({ceil_div(partial(r) + a, BlockTokens), n_br(r)})
    BY <1>7, <1>8, <1>9, <1>14
  <2>3. Min({shared[r], IF partial(r) > 0 THEN table[r] - 1 ELSE table[r]}) = shared[r]
    BY <1>14, <2>1, Zenon
  <2>4. /\ num_free >= Branches(r)
        /\ table' = [table EXCEPT ![r] = (IF partial(r) > 0 THEN table[r] - 1 ELSE table[r]) 
                                         + Min({ceil_div(partial(r) + a, BlockTokens), n_br(r)})]
        /\ shared' = [shared EXCEPT ![r] = Min({shared[r], IF partial(r) > 0 THEN table[r] - 1 ELSE table[r]})]
        /\ num_free' = num_free + ((table[r] - shared[r])
                          - ((IF partial(r) > 0 THEN table[r] - 1 ELSE table[r])
                             - Min({shared[r], IF partial(r) > 0 THEN table[r] - 1 ELSE table[r]})))
                       - Min({ceil_div(partial(r) + a, BlockTokens), n_br(r)})
        /\ length' = [length EXCEPT ![r] = length[r] + a]
    BY <1>2, <1>6, Zenon DEF spec_splice
  <2> QED
    BY <1>4, <2>1, <2>2, <2>3, <2>4, Zenon
<1>16. num_free' = num_free - n /\ num_free' \in Nat
  <2>1. num_free' = num_free - n
    BY <1>11, <1>12, <1>13, <1>15
  <2>2. d <= opts.width * d
    BY <1>5
  <2>3. c <= num_free
    BY <1>5, <1>9, <1>13, <1>15, <2>2 DEF Branches
  <2>4. n <= c
    BY <1>11, <1>12
  <2> QED
    BY <1>13, <2>1, <2>3, <2>4
<1>17. PICK V : V = {}
  OBVIOUS
<1>18. Freed(V) = 0
  BY <1>17, SumEmpty DEF Freed
<1>19. /\ r \in V => n = 0 /\ a = 0
       /\ V # {} => opts.admission # "oracle"
       /\ V \subseteq Members(active) /\ Members(active') = Members(active) \ V
       /\ active' \in Seq(Rid)
  BY <1>1, <1>17
<1>20. table' = [q \in Rid |-> IF q \in V THEN 0 ELSE IF q = r THEN table[q] + n ELSE table[q]]
  BY <1>3, <1>11, <1>12, <1>13, <1>15, <1>17
<1>21. shared' = Forget(shared, V)
  BY <1>3, <1>13, <1>15, <1>17 DEF Forget
<1>22. num_free' = num_free + Freed(V) - n
  BY <1>13, <1>16, <1>18
<1>23. Blocks(length[r] + a) = Blocks(length[r]) + n /\ length' = [length EXCEPT ![r] = length[r] + a]
  BY <1>4, <1>12, <1>15
<1>24. preempts' \in [Rid -> 0 .. MaxPreempts + 1]
  BY <1>0, <1>1 DEF HoldTypes
<1>25. Holdings' /\ OracleRoom' /\ GateSuffices'
  BY <1>1, <1>16, <1>19, <1>20, <1>21, <1>22, <1>23, <1>24, GrownHolds
<1> QED
  BY <1>1, <1>25 DEF NoCrash

\* Every block is back in the pool when the loop stops.
AllBack == pc = "done" => num_free = NumBlocks

SimInv ==
    /\ Places /\ Tokens /\ Holdings
    /\ OracleRoom /\ GateSuffices /\ NoCrash /\ AllBack

\* Steps that touch neither the pool nor the tokens.
LEMMA HoldKeep ==
  ASSUME Holdings, OracleRoom, GateSuffices,
         UNCHANGED <<opts, reqs, active, table, shared, scratch, span, cache, num_free, length,
                     preempts, frag_failures>>
  PROVE  Holdings' /\ OracleRoom' /\ GateSuffices'
<1>1. HoldTypes' /\ Held'
  BY DEF Holdings, HoldTypes, Held, TablesCover, Sharing, scratch_per_seq
<1>2. Freed(Rid)' = Freed(Rid) /\ committed' = committed
  BY DEF Freed, Private, committed, total_blocks, total_len, scratch_per_seq
<1> QED
  BY <1>1, <1>2 DEF Holdings, Balanced, OracleRoom, GateSuffices

\* A sequence without a token to spare takes a new block exactly when its table
\* is full.
LEMMA TokenHolds ==
  ASSUME Places, Tokens, Holdings, OracleRoom, GateSuffices, NoCrash, Running,
         Current \in Members(active), OneToken(Current), UNCHANGED <<setup, results, frag_failures>>
  PROVE  Holdings' /\ OracleRoom' /\ GateSuffices' /\ NoCrash'
<1>1. PICK r \in Rid : r = Current /\ length[r] < total_len(r)
  BY TokensLeft
<1>2. PICK x \in Nat : x = length[r] /\ x + 1 <= total_len(r)
  <2>1. length[r] \in Nat /\ total_len(r) \in Nat
    BY RequestCounts DEF Tokens
  <2> QED
    BY <1>1, <2>1
<1>3. table[r] = Blocks(x)
  BY <1>1, <1>2 DEF Holdings, Held, TablesCover
<1>4. PICK n \in Nat : n = IF length[r] + 1 > table[r] * BlockTokens THEN 1 ELSE 0
  OBVIOUS
<1>5. Blocks(x + 1) = Blocks(x) + n
  <2>1. PICK b \in Nat \ {0} : b = BlockTokens
    BY SimAssumption
  <2>2. ((x + 1) + b - 1) \div b
            = ((x + b - 1) \div b) + IF x + 1 > ((x + b - 1) \div b) * b THEN 1 ELSE 0
    BY CeilNext
  <2>3. Blocks(x + 1) = ((x + 1) + b - 1) \div b /\ Blocks(x) = (x + b - 1) \div b
    BY <2>1 DEF Blocks, ceil_div
  <2>4. Blocks(x + 1) = Blocks(x) + IF x + 1 > Blocks(x) * b THEN 1 ELSE 0
    BY <2>2, <2>3, Zenon
  <2> QED
    BY <1>2, <1>3, <1>4, <2>1, <2>4, Zenon
<1>6. PICK z \in Nat, u \in Nat : z = 0 /\ u = 1
  OBVIOUS
<1>7. Grow(Current, n, z, u)
  BY <1>1, <1>4, <1>6 DEF OneToken
<1>8. /\ Blocks(length[Current] + u) = Blocks(length[Current]) + n
      /\ length[Current] + u <= total_len(Current)
      /\ opts.admission = "oracle" /\ (opts.adopt # "copyback" \/ opts.contiguous) => z = 0
  BY <1>1, <1>2, <1>5, <1>6
<1> QED
  BY <1>7, <1>8, GrowHolds

\* The tokens of a speculation round, copied to the tail of the sequence.
LEMMA CopyHolds ==
  ASSUME Places, Tokens, Holdings, OracleRoom, GateSuffices, NoCrash, Running,
         Current \in Members(active), NEW k \in 0 .. opts.depth, NEW held \in Nat,
         opts.admission = "oracle" /\ (opts.adopt # "copyback" \/ opts.contiguous) => held = 0,
         Grow(Current, Blocks(length[Current] + adv(Current, k)) - Blocks(length[Current]), held,
              adv(Current, k)),
         UNCHANGED <<setup, results, frag_failures>>
  PROVE  Holdings' /\ OracleRoom' /\ GateSuffices' /\ NoCrash'
<1>1. PICK r \in Rid : r = Current /\ length[r] < total_len(r)
  BY TokensLeft
<1>2. PICK x \in Nat : x = length[r]
  BY <1>1 DEF Tokens
<1>3. opts.depth \in Nat /\ k \in Nat
  <2>1. opts.depth \in Nat
    BY SimAssumption DEF Places, ListTypes
  <2> QED
    BY <2>1
<1>4. PICK a \in Nat : a = adv(r, k) /\ x + a <= total_len(r)
  <2>1. adv(r, k) \in 1 .. k + 1 /\ length[r] + adv(r, k) <= total_len(r)
    BY <1>1, <1>3, Advance
  <2> QED
    BY <1>2, <1>3, <2>1
<1>5. Blocks(x) \in Nat /\ Blocks(x + a) \in Nat /\ Blocks(x) <= Blocks(x + a)
  <2>1. x + a \in Nat /\ x <= x + a
    OBVIOUS
  <2> QED
    BY <2>1, BlockCounts
<1>6. PICK n \in Nat : n = Blocks(x + a) - Blocks(x) /\ Blocks(x + a) = Blocks(x) + n
  BY <1>5
<1>7. /\ Grow(Current, n, held, a)
      /\ Blocks(length[Current] + a) = Blocks(length[Current]) + n
      /\ length[Current] + a <= total_len(Current)
  BY <1>1, <1>2, <1>4, <1>6
<1> QED
  BY <1>7, GrowHolds

\* A finished sequence gives back what it holds; in an oracle run it is there.
LEMMA FinishHolds ==
  ASSUME Places, Tokens, Holdings, OracleRoom, GateSuffices, NoCrash, finish
  PROVE  Holdings' /\ OracleRoom' /\ GateSuffices' /\ NoCrash'
<1>0. ListTypes /\ Apart /\ StepLists /\ Queue /\ HoldTypes /\ Held /\ Balanced
  BY DEF Places, Holdings
<1>1. /\ opts \in Options /\ active \in Seq(Rid) /\ finished \in Seq(Rid) /\ pc = "finish"
      /\ finished # << >> /\ UNCHANGED <<opts, reqs, frag_failures>>
  BY <1>0 DEF ListTypes, finish, setup
<1>2. PICK r \in Rid : r = Head(finished) /\ r \in Members(finished)
  BY <1>1, TailMember
<1>3. CASE r \notin Members(active)
  <2>1. UNCHANGED <<active, table, shared, scratch, span, cache, num_free, length, preempts>>
    BY <1>2, <1>3 DEF finish, Crash, pool
  <2>2. Holdings' /\ OracleRoom' /\ GateSuffices'
    BY <1>1, <2>1, HoldKeep
  <2>3. opts.admission # "oracle"
    BY <1>0, <1>1, <1>2, <1>3, NoMembers DEF StepLists, Queue
  <2> QED
    BY <1>1, <2>2, <2>3 DEF NoCrash
<1>4. CASE r \in Members(active)
  <2>1. /\ active' = Without(active, {r})
        /\ table' = Forget(table, {r}) /\ shared' = Forget(shared, {r})
        /\ scratch' = Forget(scratch, {r}) /\ span' = [span EXCEPT ![r] = NoSpan]
        /\ num_free' = num_free + Private(r)
        /\ UNCHANGED <<cache, length, preempts, pc>>
    BY <1>2, <1>4, Zenon DEF finish
  <2>2. active' \in Seq(Rid) /\ Members(active') = Members(active) \ {r}
    BY <1>0, <1>1, <2>1, WithoutMember DEF Apart
  <2>3. /\ committed \in Nat /\ SumFunctionOnSet(cache, Prefix) \in Nat
        /\ committed = SumFunctionOnSet(GrowthOf, Members(active))
        /\ Freed(Rid) \in Nat /\ Freed(Rid) = SumFunctionOnSet(PrivateOf, Rid)
        /\ \A q \in Rid : PrivateOf[q] = Private(q) /\ PrivateOf[q] \in Nat
        /\ \A q \in Members(active) : GrowthOf[q] = total_blocks(q) - table[q] - scratch[q]
                                      /\ GrowthOf[q] \in Nat
    BY <1>0, <1>1, SumFacts
  <2>4. /\ num_free \in Nat /\ table \in [Rid -> Nat] /\ shared \in [Rid -> Nat]
        /\ scratch \in [Rid -> Nat] /\ span \in [Rid -> NoSpan .. NumBlocks - 1]
    BY <1>0 DEF HoldTypes
  <2>5. /\ table' \in [Rid -> Nat] /\ shared' \in [Rid -> Nat] /\ scratch' \in [Rid -> Nat]
        /\ \A q \in Rid : q # r => /\ table'[q] = table[q] /\ shared'[q] = shared[q]
                                   /\ scratch'[q] = scratch[q] /\ span'[q] = span[q]
        /\ table'[r] = 0 /\ shared'[r] = 0 /\ scratch'[r] = 0 /\ span'[r] = NoSpan
    BY <2>1, <2>4 DEF Forget
  <2>6. num_free' \in Nat /\ num_free' >= num_free
    <3>1. Private(r) \in Nat
      BY <2>3
    <3> QED
      BY <2>1, <2>4, <3>1
  <2>7. HoldTypes'
    <3>1. span' \in [Rid -> NoSpan .. NumBlocks - 1]
      <4>1. NoSpan \in NoSpan .. NumBlocks - 1
        BY SimAssumption DEF NoSpan
      <4> QED
        BY <2>1, <2>4, <4>1
    <3> QED
      BY <1>0, <1>1, <2>1, <2>5, <2>6, <3>1 DEF HoldTypes
  <2>8. Held'
    <3>1. TablesCover'
      BY <1>0, <2>1, <2>2, <2>5 DEF Held, TablesCover
    <3>2. \A q \in Rid : IF q \in Members(active')
                         THEN scratch'[q] = scratch_per_seq
                         ELSE scratch'[q] = 0 /\ shared'[q] = 0 /\ span'[q] = NoSpan
      BY <1>0, <2>2, <2>5 DEF Held
    <3>3. \A q \in Rid : ~ opts.contiguous => span'[q] = NoSpan
      BY <1>0, <2>5 DEF Held
    <3>4. \A q \in Rid : shared'[q] > 0 => Sharing(q) /\ shared'[q] = cache[reqs[q].prefix]
      BY <1>0, <2>5 DEF Held
    <3>5. scratch_per_seq' = scratch_per_seq /\ \A q \in Rid : Sharing(q)' = Sharing(q)
      BY <1>1 DEF scratch_per_seq, Sharing
    <3> QED
      BY <1>0, <1>1, <2>1, <3>1, <3>2, <3>3, <3>4, <3>5 DEF Held
  <2>9. Freed(Rid)' = Freed(Rid) - Private(r)
    <3>1. PICK g, h : g = PrivateOf /\ h = PrivateOf'
      OBVIOUS
    <3>2. \A q \in Rid : h[q] = table'[q] - shared'[q] + scratch'[q]
      BY <3>1 DEF PrivateOf, Private
    <3>3. h[r] = 0 /\ g[r] = Private(r) /\ g[r] \in Nat
      <4>1. h[r] = 0 - 0 + 0
        BY <2>5, <3>2
      <4>2. g[r] = Private(r) /\ g[r] \in Nat
        BY <2>3, <3>1
      <4> QED
        BY <4>1, <4>2
    <3>4. \A q \in Rid : q # r => h[q] = g[q]
      BY <2>3, <2>5, <3>1, <3>2 DEF Private
    <3>5. /\ IsFiniteSet(Rid) /\ r \in Rid
          /\ \A q \in Rid : g[q] \in Int /\ h[q] \in Int /\ (q # r => h[q] = g[q])
      BY <2>3, <3>1, <3>3, <3>4, RidFinite
    <3>6. SumFunctionOnSet(h, Rid) = SumFunctionOnSet(g, Rid) + (h[r] - g[r])
      BY <3>5, SumAt
    <3>7. Freed(Rid)' = SumFunctionOnSet(h, Rid) /\ Freed(Rid) = SumFunctionOnSet(g, Rid)
      BY <2>3, <3>1, NewSums
    <3> QED
      BY <2>3, <3>3, <3>6, <3>7
  <2>10. Balanced'
    <3>1. PICK F \in Nat, C \in Nat, v \in Nat :
             F = Freed(Rid) /\ C = SumFunctionOnSet(cache, Prefix) /\ v = Private(r)
      BY <2>3
    <3>2. num_free + F + C = NumBlocks
      BY <1>0, <3>1 DEF Balanced
    <3>3. num_free' + (F - v) + C = NumBlocks
      BY <2>1, <2>4, <3>1, <3>2
    <3> QED
      BY <2>1, <2>9, <3>1, <3>3 DEF Balanced
  <2>11. committed' <= committed
    <3>1. PICK g, h, M, N : /\ g = GrowthOf /\ h = GrowthOf' /\ M = Members(active)
                            /\ N = Members(active) \ {r}
      OBVIOUS
    <3>2. \A q \in Rid : h[q] = total_blocks(q) - table'[q] - scratch'[q]
      BY <1>1, <3>1 DEF GrowthOf, total_blocks, total_len, scratch_per_seq
    <3>3. M \in SUBSET Rid /\ N \in SUBSET Rid /\ IsFiniteSet(M) /\ IsFiniteSet(N) /\ N \subseteq M
      BY <1>1, <3>1, MemberOf, RidFinite
    <3>4. \A q \in M : g[q] \in Int /\ g[q] \in Nat
      BY <2>3, <3>1
    <3>5. \A q \in N : g[q] \in Int /\ h[q] = g[q]
      BY <2>3, <2>5, <3>1, <3>2, <3>3
    <3>6. SumFunctionOnSet(h, N) = SumFunctionOnSet(g, N)
      BY <3>3, <3>5, SumEqual
    <3>7. SumFunctionOnSet(g, M) = g[r] + SumFunctionOnSet(g, N)
      <4>1. r \in M /\ N = M \ {r}
        BY <1>4, <3>1
      <4> QED
        BY <3>3, <3>4, <4>1, SumRemove
    <3>8. SumFunctionOnSet(g, N) \in Int /\ g[r] \in Nat
      <4>1. \A q \in N : g[q] \in Int
        BY <3>5
      <4>2. r \in M
        BY <1>4, <3>1
      <4> QED
        BY <3>3, <3>4, <4>1, <4>2, SumRemove
    <3>9. committed' = SumFunctionOnSet(h, N) /\ committed = SumFunctionOnSet(g, M)
      BY <2>2, <2>3, <3>1, NewSums
    <3> QED
      BY <3>6, <3>7, <3>8, <3>9
  <2>12. committed' \in Int
    <3>1. PICK M : M = Members(active') /\ M \in SUBSET Rid /\ IsFiniteSet(M)
      BY <2>2, MemberOf, RidFinite
    <3>2. \A q \in M : GrowthOf'[q] \in Int
      <4>1. \A q \in M : GrowthOf'[q] = GrowthOf[q] /\ q \in Members(active)
        BY <1>1, <2>2, <2>5, <3>1 DEF GrowthOf, total_blocks, total_len, scratch_per_seq
      <4> QED
        BY <2>3, <4>1
    <3>3. SumFunctionOnSet(GrowthOf', M) \in Int
      BY <3>1, <3>2, SumRemove
    <3> QED
      BY <3>1, <3>3, NewSums
  <2>13. OracleRoom' /\ GateSuffices' /\ NoCrash'
    BY <1>1, <2>1, <2>3, <2>4, <2>6, <2>11, <2>12 DEF OracleRoom, GateSuffices, NoCrash
  <2> QED
    BY <2>7, <2>8, <2>10, <2>13 DEF Holdings
<1> QED
  BY <1>3, <1>4

\* Nothing runs, so nothing is held but by the caches.
LEMMA IdleHolds ==
  ASSUME opts \in Options, active = << >>, Tokens, Holdings
  PROVE  /\ Freed(Rid) = 0 /\ committed = 0
         /\ num_free + SumFunctionOnSet(cache, Prefix) = NumBlocks
         /\ \A q \in Rid : shared[q] = 0 /\ span[q] = NoSpan
<1>0. HoldTypes /\ Held /\ Balanced
  BY DEF Holdings
<1>1. active \in Seq(Rid) /\ Members(active) = {}
  BY NoMembers
<1>2. /\ Freed(Rid) = SumFunctionOnSet(PrivateOf, Rid)
      /\ committed = SumFunctionOnSet(GrowthOf, Members(active))
      /\ \A q \in Rid : PrivateOf[q] = Private(q)
  BY <1>0, <1>1, SumFacts
<1>3. \A q \in Rid : PrivateOf[q] = 0
  BY <1>0, <1>1, <1>2, HeldFacts
<1>4. PICK z \in Int : z = 0
  OBVIOUS
<1>5. \A q \in Rid : PrivateOf[q] = z
  BY <1>3, <1>4
<1>6. SumFunctionOnSet(PrivateOf, Rid) = z * Cardinality(Rid)
  BY <1>5, RidFinite, SumConst
<1>7. Cardinality(Rid) \in Nat
  BY RidFinite, FS_CardinalityType
<1>8. Freed(Rid) = 0
  BY <1>2, <1>4, <1>6, <1>7
<1>9. committed = 0
  BY <1>1, <1>2, SumEmpty
<1>10. num_free \in Nat /\ SumFunctionOnSet(cache, Prefix) \in Nat
  BY <1>0, <1>1, SumFacts DEF HoldTypes
<1>11. num_free + SumFunctionOnSet(cache, Prefix) = NumBlocks
  BY <1>0, <1>8, <1>10 DEF Balanced
<1> QED
  BY <1>0, <1>1, <1>8, <1>9, <1>11 DEF Held

\* The prefix caches are released at the end.
LEMMA StopHolds ==
  ASSUME Places, Tokens, Holdings, OracleRoom, GateSuffices, stop
  PROVE  Holdings' /\ OracleRoom' /\ GateSuffices' /\ num_free' = NumBlocks
<1>0. opts \in Options /\ HoldTypes /\ Held
  BY DEF Places, ListTypes, Holdings
<1>1. /\ active = << >> /\ num_free' = num_free + SumFunctionOnSet(cache, Prefix)
      /\ cache' = [p \in Prefix |-> 0]
      /\ UNCHANGED <<opts, reqs, active, table, shared, scratch, span, length, preempts,
                     frag_failures>>
  BY DEF stop, setup
<1>2. /\ Freed(Rid) = 0 /\ committed = 0 /\ num_free' = NumBlocks
      /\ \A q \in Rid : shared[q] = 0
  BY <1>0, <1>1, IdleHolds
<1>3. NumBlocks \in Nat /\ IsFiniteSet(Prefix)
  BY SimAssumption, RequestsAssumption
<1>4. HoldTypes'
  BY <1>0, <1>1, <1>2, <1>3 DEF HoldTypes
<1>5. Held'
  <2>1. \A p \in Prefix : cache'[p] = 0
    BY <1>1
  <2>2. \A q \in Rid : shared'[q] = 0
    BY <1>1, <1>2
  <2> QED
    BY <1>0, <1>1, <2>1, <2>2 DEF Held, TablesCover, scratch_per_seq
<1>6. Freed(Rid)' = 0 /\ committed' = 0
  <2>1. Freed(Rid)' = Freed(Rid) /\ committed' = committed
    BY <1>1 DEF Freed, Private, committed, total_blocks, total_len, scratch_per_seq
  <2> QED
    BY <1>2, <2>1
<1>7. SumFunctionOnSet(cache', Prefix) = 0
  <2>1. PICK d, z : d = cache' /\ z = 0 /\ z \in Int
    OBVIOUS
  <2>2. \A p \in Prefix : d[p] = z
    BY <1>1, <2>1
  <2>3. SumFunctionOnSet(d, Prefix) = z * Cardinality(Prefix)
    BY <1>3, <2>1, <2>2, SumConst
  <2>4. Cardinality(Prefix) \in Nat
    BY <1>3, FS_CardinalityType
  <2> QED
    BY <2>1, <2>3, <2>4
<1>8. Balanced' /\ OracleRoom' /\ GateSuffices'
  <2>1. num_free' \in Nat
    BY <1>2, <1>3
  <2> QED
    BY <1>1, <1>2, <1>3, <1>6, <1>7, <2>1 DEF Balanced, OracleRoom, GateSuffices
<1> QED
  BY <1>2, <1>4, <1>5, <1>8 DEF Holdings

\* The pool is full and nothing is held when simulate() starts.
LEMMA HoldingsInit == Init => Holdings /\ OracleRoom /\ GateSuffices /\ NoCrash /\ AllBack
<1> SUFFICES ASSUME Init PROVE Holdings /\ OracleRoom /\ GateSuffices /\ NoCrash /\ AllBack
  OBVIOUS
<1>0. Tokens /\ opts \in Options /\ active = << >> /\ Members(active) = {} /\ active \in Seq(Rid)
  BY TokensInit, NoMembers DEF Init
<1>1. NumBlocks \in Nat \ {0} /\ MaxPreempts \in Nat /\ IsFiniteSet(Prefix)
  BY SimAssumption, RequestsAssumption
<1>2. HoldTypes
  BY <1>1 DEF Init, HoldTypes, NoSpan
<1>3. Held
  BY <1>0 DEF Init, Held, TablesCover
<1>4. PICK z \in Int : z = 0
  OBVIOUS
<1>5. SumFunctionOnSet(cache, Prefix) = 0
  <2>1. \A p \in Prefix : cache[p] = z
    BY <1>4 DEF Init
  <2>2. SumFunctionOnSet(cache, Prefix) = z * Cardinality(Prefix)
    BY <1>1, <2>1, SumConst
  <2>3. Cardinality(Prefix) \in Nat
    BY <1>1, FS_CardinalityType
  <2> QED
    BY <1>4, <2>2, <2>3
<1>6. Freed(Rid) = 0
  <2>1. \A q \in Rid : PrivateOf[q] = z
    BY <1>4 DEF Init, PrivateOf, Private
  <2>2. SumFunctionOnSet(PrivateOf, Rid) = z * Cardinality(Rid)
    BY <2>1, RidFinite, SumConst
  <2>3. Cardinality(Rid) \in Nat
    BY RidFinite, FS_CardinalityType
  <2>4. Freed(Rid) = SumFunctionOnSet(PrivateOf, Rid)
    BY Zenon DEF Freed, PrivateOf
  <2> QED
    BY <1>4, <2>2, <2>3, <2>4
<1>7. Balanced
  BY <1>1, <1>5, <1>6 DEF Init, Balanced
<1>8. committed = 0
  BY <1>0, SumEmpty DEF committed
<1>9. OracleRoom /\ GateSuffices /\ NoCrash /\ AllBack
  BY <1>1, <1>8 DEF Init, OracleRoom, GateSuffices, NoCrash, AllBack
<1> QED
  BY <1>2, <1>3, <1>7, <1>9 DEF Holdings

\* Every iteration of the loop gives back what it took: one case per action.
LEMMA HoldingsStep ==
  ASSUME SimInv, [SimNext]_simvars
  PROVE  Holdings' /\ OracleRoom' /\ GateSuffices' /\ NoCrash' /\ AllBack'
<1>0. /\ Places /\ Tokens /\ Holdings /\ OracleRoom /\ GateSuffices /\ NoCrash /\ AllBack
      /\ ListTypes /\ Apart
  BY DEF SimInv, Places
<1>1. CASE drop_hopeless
  <2>1. /\ pc = "waiting" /\ pc' = pc
        /\ UNCHANGED <<opts, reqs, active, table, shared, scratch, span, cache, num_free, length,
                       preempts, frag_failures>>
    BY <1>1 DEF drop_hopeless, setup, pool
  <2> QED
    BY <1>0, <2>1, HoldKeep DEF NoCrash, AllBack
<1>2. CASE readmit_end \/ start_decode \/ idle_jump \/ decode_skip \/ decode_end \/ tick
  <2>1. /\ pc' \in {"arrivals", "decode", "waiting", "finish"}
        /\ UNCHANGED <<opts, reqs, active, table, shared, scratch, span, cache, num_free, length,
                       preempts, frag_failures>>
    BY <1>2 DEF readmit_end, start_decode, StartDecode, idle_jump, decode_skip, Running, decode_end,
       tick, setup, pool
  <2> QED
    BY <1>0, <2>1, HoldKeep DEF NoCrash, AllBack
<1>3. CASE readmit
  <2>1. /\ TryAdmit(Head(waiting)) /\ waiting # << >> /\ pc' \in {"waiting", "decode"}
        /\ UNCHANGED <<opts, reqs, length, preempts>>
    BY <1>3 DEF readmit, setup, StartDecode
  <2>2. waiting \in Seq(Rid)
    BY <1>0 DEF ListTypes
  <2>3. Head(waiting) \in Rid /\ Head(waiting) \in Members(waiting)
    BY <2>1, <2>2, TailMember DEF Apart
  <2>4. PICK r \in Rid : r = Head(waiting) /\ r \notin Members(active)
    BY <1>0, <2>3 DEF Apart
  <2>5. Holdings' /\ OracleRoom' /\ GateSuffices'
    BY <1>0, <2>1, <2>4, AdmitHolds
  <2> QED
    BY <2>1, <2>5 DEF NoCrash, AllBack
<1>4. CASE arrive
  <2>1. /\ TryAdmit(next + 1) /\ next < arrived /\ pc' \in {"arrivals", "decode"}
        /\ UNCHANGED <<opts, reqs, length, preempts>>
    BY <1>4 DEF arrive, setup, StartDecode
  <2>2. PICK r \in Rid : r = next + 1 /\ r \notin 1 .. next
    BY <1>0, <2>1, SimAssumption DEF ListTypes, Rid
  <2>3. r \notin Members(active)
    BY <1>0, <2>2 DEF Apart
  <2>4. Holdings' /\ OracleRoom' /\ GateSuffices'
    BY <1>0, <2>1, <2>2, <2>3, AdmitHolds
  <2> QED
    BY <2>1, <2>4 DEF NoCrash, AllBack
<1>5. CASE stop
  <2>1. Holdings' /\ OracleRoom' /\ GateSuffices' /\ num_free' = NumBlocks
    BY <1>0, <1>5, StopHolds
  <2>2. pc' = "done"
    BY <1>5 DEF stop
  <2> QED
    BY <2>1, <2>2 DEF NoCrash, AllBack
<1>6. ASSUME decode \/ spec_stall
             \/ \E k \in 0 .. opts.depth : spec_contiguous(k) \/ spec_copyback(k) \/ spec_splice(k)
      PROVE  AllBack'
  <2>1. pc = "decode" /\ pc' \in {pc, "crashed"}
    BY <1>6 DEF decode, spec_stall, spec_contiguous, spec_copyback, spec_splice, OneToken, Grow,
       Crash, Running
  <2> QED
    BY <2>1 DEF AllBack
<1>7. CASE decode
  <2>1. /\ Running /\ Current \in Members(active) /\ OneToken(Current)
        /\ UNCHANGED <<setup, results, frag_failures>>
    BY <1>7 DEF decode
  <2> QED
    BY <1>0, <1>6, <1>7, <2>1, TokenHolds
<1>8. CASE spec_stall
  <2>1. /\ Running /\ Current \in Members(active) /\ OneToken(Current)
        /\ UNCHANGED <<setup, results, frag_failures>>
    BY <1>8 DEF spec_stall
  <2> QED
    BY <1>0, <1>6, <1>8, <2>1, TokenHolds
<1>9. ASSUME NEW k \in 0 .. opts.depth, spec_contiguous(k)
      PROVE  Holdings' /\ OracleRoom' /\ GateSuffices' /\ NoCrash' /\ AllBack'
  <2>1. PICK held \in Nat : held = 0
    OBVIOUS
  <2>2. /\ Running /\ Current \in Members(active) /\ UNCHANGED <<setup, results, frag_failures>>
        /\ Grow(Current, Blocks(length[Current] + adv(Current, k)) - Blocks(length[Current]), held,
                adv(Current, k))
    BY <1>9, <2>1 DEF spec_contiguous
  <2>3. opts.admission = "oracle" /\ (opts.adopt # "copyback" \/ opts.contiguous) => held = 0
    BY <2>1
  <2> QED
    BY <1>0, <1>6, <1>9, <2>2, <2>3, CopyHolds
<1>10. ASSUME NEW k \in 0 .. opts.depth, spec_copyback(k)
       PROVE  Holdings' /\ OracleRoom' /\ GateSuffices' /\ NoCrash' /\ AllBack'
  <2>1. Running /\ Current \in Members(active) /\ UNCHANGED <<setup, results, frag_failures>>
    BY <1>10 DEF spec_copyback
  <2>2. PICK held \in Nat : held = Branches(Current)
    <3>1. opts.depth \in Nat /\ opts.width \in Nat /\ BlockTokens \in Nat \ {0}
      BY <1>0, SimAssumption DEF ListTypes
    <3>2. Current \in Rid
      BY <1>0, <2>1, TokensLeft
    <3>3. length[Current] \in Nat
      BY <1>0, <3>2 DEF Tokens
    <3>4. partial(Current) \in Nat
      BY <3>1, <3>3, ModNat DEF partial
    <3>5. partial(Current) + opts.depth + 1 \in Nat
      BY <3>1, <3>4
    <3>6. n_br(Current) \in Nat
      BY <3>1, <3>5, CeilDiv DEF n_br, ceil_div
    <3>7. opts.width * n_br(Current) \in Nat
      BY <3>1, <3>6
    <3> QED
      BY <3>7 DEF Branches
  <2>3. Grow(Current, Blocks(length[Current] + adv(Current, k)) - Blocks(length[Current]), held,
             adv(Current, k))
    BY <1>10, <2>2 DEF spec_copyback
  <2>4. opts.admission = "oracle" /\ (opts.adopt # "copyback" \/ opts.contiguous) => held = 0
    BY <1>10 DEF spec_copyback
  <2> QED
    BY <1>0, <1>6, <1>10, <2>1, <2>3, <2>4, CopyHolds
<1>11. ASSUME NEW k \in 0 .. opts.depth, spec_splice(k)
       PROVE  Holdings' /\ OracleRoom' /\ GateSuffices' /\ NoCrash' /\ AllBack'
  BY <1>0, <1>6, <1>11, SpliceHolds
<1>12. CASE finish
  <2>1. pc' \in {"finish", "crashed"}
    BY <1>12 DEF finish, Crash
  <2> QED
    BY <1>0, <1>12, <2>1, FinishHolds DEF AllBack
<1>13. CASE UNCHANGED simvars
  <2>1. /\ pc' = pc
        /\ UNCHANGED <<opts, reqs, active, table, shared, scratch, span, cache, num_free, length,
                       preempts, frag_failures>>
    BY <1>13 DEF simvars, setup, pool
  <2> QED
    BY <1>0, <2>1, HoldKeep DEF NoCrash, AllBack
<1> QED
  BY <1>1, <1>2, <1>3, <1>4, <1>5, <1>7, <1>8, <1>9, <1>10, <1>11, <1>12, <1>13 DEF SimNext, Over

-----------------------------------------------------------------------------
(* The theorems *)

\* The three layers together are inductive.
LEMMA SimInvStep == SimInv /\ [SimNext]_simvars => SimInv'
<1> SUFFICES ASSUME SimInv, [SimNext]_simvars PROVE SimInv'
  OBVIOUS
<1>1. Places' /\ Tokens'
  BY PlacesStep, TokensStep DEF SimInv
<1>2. Holdings' /\ OracleRoom' /\ GateSuffices' /\ NoCrash' /\ AllBack'
  BY HoldingsStep
<1> QED
  BY <1>1, <1>2 DEF SimInv

\* The inductive invariant: where the requests are, how many tokens they have and
\* what they hold of the pool.
THEOREM SimInvariant == SimSpec => []SimInv
<1>1. Init => SimInv
  BY PlacesInit, TokensInit, HoldingsInit DEF SimInv
<1> QED
  BY <1>1, SimInvStep, PTL DEF SimSpec

\* Every request of simulate() is in one place: to come, running, preempted,
\* completed or dropped.
THEOREM RequestsInOnePlace == SimSpec => []OnePlace
<1>1. SimInv => OnePlace
  BY PlacesOne DEF SimInv
<1> QED
  BY <1>1, SimInvariant, PTL

\* A sequence completes with exactly the tokens it was asked for, whatever the
\* branches of a speculation round, stalls and preemptions did before.
THEOREM CompletesExactly == SimSpec => []CompletedExactly
<1>1. SimInv => CompletedExactly
  BY DEF SimInv, Tokens, CompletedExactly
<1> QED
  BY <1>1, SimInvariant, PTL

\* The block table of a running sequence is as long as its tokens need.
THEOREM TablesAlwaysCover == SimSpec => []TablesCover
<1>1. SimInv => TablesCover
  BY DEF SimInv, Holdings, Held
<1> QED
  BY <1>1, SimInvariant, PTL

\* The blocks a sequence shares with a prefix cache are full blocks of its prefix.
THEOREM SharedBlocksFull == SimSpec => []SharedAreFull
<1>1. ASSUME SimInv PROVE SharedAreFull
  <2>0. opts \in Options /\ active \in Seq(Rid) /\ Tokens /\ HoldTypes /\ Held
    BY <1>1 DEF SimInv, Places, ListTypes, Holdings
  <2> SUFFICES ASSUME NEW r \in Members(active), shared[r] > 0
               PROVE  /\ shared[r] = cache[reqs[r].prefix]
                      /\ shared[r] * BlockTokens <= PrefixLen[reqs[r].prefix]
    BY DEF SharedAreFull
  <2>1. r \in Rid
    BY <2>0, MemberOf
  <2>2. Sharing(r) /\ shared[r] = cache[reqs[r].prefix] /\ shared[r] \in Nat
    BY <2>0, <2>1 DEF Held, HoldTypes
  <2>3. PICK p \in Prefix : /\ p = reqs[r].prefix /\ n_shared(r) = PrefixLen[p] \div BlockTokens
                            /\ n_shared(r) * BlockTokens <= PrefixLen[p]
    BY <2>0, <2>1, <2>2, SharedBlocks
  <2>4. cache[p] \in {0, PrefixLen[p] \div BlockTokens}
    BY <2>0 DEF Held
  <2>5. shared[r] = n_shared(r)
    BY <2>2, <2>3, <2>4
  <2> QED
    BY <2>2, <2>3, <2>5
<1> QED
  BY <1>1, SimInvariant, PTL

\* Every block of the pool is free, pinned by a prefix cache or private to a
\* running sequence, and all are free when simulate() returns.
THEOREM PoolBalances == SimSpec => []PoolBalance
<1>1. ASSUME SimInv PROVE PoolBalance
  <2>0. /\ ListTypes /\ Tokens /\ HoldTypes /\ Held /\ Balanced /\ AllBack
        /\ opts \in Options /\ active \in Seq(Rid)
    BY <1>1 DEF SimInv, Places, ListTypes, Holdings
  <2>1. Freed(Rid) \in Nat /\ SumFunctionOnSet(cache, Prefix) \in Nat /\ num_free \in Nat
    BY <2>0, SumFacts DEF HoldTypes
  <2>2. num_free + Freed(Rid) + SumFunctionOnSet(cache, Prefix) = NumBlocks /\ NumBlocks \in Nat
    BY <2>0, SimAssumption DEF Balanced
  <2>3. num_free \in 0 .. NumBlocks
    BY <2>1, <2>2
  <2>4. SimTypeOK
    BY <2>0, <2>3 DEF ListTypes, Tokens, HoldTypes, SimTypeOK
  <2> QED
    BY <2>0, <2>2, <2>4 DEF PoolBalance, AllBack
<1> QED
  BY <1>1, SimInvariant, PTL

\* Oracle admission never commits more growth than there are free blocks.
THEOREM OracleKeepsRoom == SimSpec => []OracleRoom
<1>1. SimInv => OracleRoom
  BY DEF SimInv
<1> QED
  BY <1>1, SimInvariant, PTL

\* An admission that passed the gates of try_admit never fails in an allocator
\* that places block by block.
THEOREM GatesSuffice == SimSpec => []GateSuffices
<1>1. SimInv => GateSuffices
  BY DEF SimInv
<1> QED
  BY <1>1, SimInvariant, PTL

\* An oracle run raises no exception, unless branches are copied back.
THEOREM OracleNeverCrashes == SimSpec => []NoCrash
<1>1. SimInv => NoCrash
  BY DEF SimInv
<1> QED
  BY <1>1, SimInvariant, PTL

\* No new arrival is admitted while a preempted sequence waits.
THEOREM PreemptedGoFirst == SimSpec => PreemptedFirst
<1>1. SimInv /\ [SimNext]_simvars => [next' > next => waiting = << >>]_simvars
  <2> SUFFICES ASSUME SimInv, SimNext, next' > next PROVE waiting = << >>
    OBVIOUS
  <2> QED
    BY ArrivalsLast DEF SimInv
<1> QED
  BY <1>1, SimInvariant, PTL DEF SimSpec, PreemptedFirst

\* What an oracle run drops as "can never be placed" does not fit into the free
\* blocks of the pool.
LEMMA DropStep ==
  ASSUME SimInv, SimNext, NEW r \in dropped' \ dropped, opts.admission = "oracle", ~ Sharing(r)
  PROVE  total_blocks(r) > num_free
<1>0. /\ Places /\ Tokens /\ Holdings /\ HoldTypes /\ Held /\ ListTypes /\ Queue /\ opts \in Options
  BY DEF SimInv, Places, Holdings, ListTypes
<1>1. waiting = << >>
  BY <1>0 DEF Queue
<1>2. arrive
  BY <1>1 DEF SimNext, drop_hopeless, readmit, readmit_end, start_decode, idle_jump, stop,
     decode_skip, decode, spec_stall, spec_contiguous, spec_copyback, spec_splice, decode_end,
     finish, tick, Over, results, simvars
<1>3. r = next + 1 /\ Verdict(r) # "admitted" /\ active = << >> /\ next < arrived
  BY <1>2 DEF arrive
<1>4. r \in Rid
  BY <1>0, <1>3, SimAssumption DEF ListTypes, Rid
<1>5. /\ committed = 0 /\ num_free + SumFunctionOnSet(cache, Prefix) = NumBlocks
      /\ \A q \in Rid : span[q] = NoSpan
  BY <1>0, <1>3, IdleHolds
<1>6. num_free \in Nat /\ SumFunctionOnSet(cache, Prefix) \in Nat /\ num_free <= NumBlocks
      /\ NumBlocks \in Nat
  <2>1. active \in Seq(Rid)
    BY <1>0 DEF ListTypes
  <2>2. num_free \in Nat /\ SumFunctionOnSet(cache, Prefix) \in Nat
    BY <1>0, <2>1, SumFacts DEF HoldTypes
  <2> QED
    BY <1>5, <2>2
<1>7. ~ Fills(r) /\ to_fill(r) = 0 /\ n_shared(r) = 0
  BY DEF Fills, to_fill, n_shared
<1>8. /\ total_blocks(r) \in Nat /\ prompt_blocks(r) \in Nat /\ scratch_per_seq \in Nat
      /\ prompt_blocks(r) + scratch_per_seq <= total_blocks(r)
  BY <1>0, <1>4, Footprint
<1>9. ~ Gate(r) \/ Unplaced(r)
  BY <1>3, <1>6, <1>7 DEF Verdict
<1>10. CASE ~ Gate(r)
  BY <1>5, <1>6, <1>7, <1>8, <1>10 DEF Gate
<1>11. CASE Unplaced(r) /\ ~ opts.contiguous
  BY <1>6, <1>7, <1>8, <1>11 DEF Unplaced, n_new
<1>12. CASE Unplaced(r) /\ opts.contiguous
  <2>1. Starts(r) = {}
    BY <1>12 DEF Unplaced
  <2>2. 0 .. NumBlocks - total_blocks(r) = {}
    BY <1>5, <2>1 DEF Starts
  <2>3. 0 \notin 0 .. NumBlocks - total_blocks(r)
    BY <2>2
  <2> QED
    BY <1>6, <1>8, <2>3
<1> QED
  BY <1>9, <1>10, <1>11, <1>12

\* An oracle run gives up only requests that do not fit into the free blocks,
\* however fragmented the pool of the contiguous oracle was before.
THEOREM OnlyUnplaceableDropped == SimSpec => DropsUnplaceable
<1>1. SimInv /\ [SimNext]_simvars =>
         [\A r \in dropped' \ dropped :
             opts.admission = "oracle" /\ ~ Sharing(r) => total_blocks(r) > num_free]_simvars
  BY DropStep
<1> QED
  BY <1>1, SimInvariant, PTL DEF SimSpec, DropsUnplaceable
=============================================================================
