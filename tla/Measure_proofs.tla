---------------------------- MODULE Measure_proofs ----------------------------
(***************************************************************************)
(* Proofs about the metrics, for every geometry, address map, model shape, *)
(* window size and table: the command count of a window is the least any   *)
(* schedule has, no two bursts of a sequence are in one cell, the frames   *)
(* the allocator packs are the rows the all-bank commands open, and        *)
(* reordering never makes a sequence slower than its window cuts cost.     *)
(***************************************************************************)
EXTENDS Measure, Counting_proofs, SequenceTheorems

-----------------------------------------------------------------------------
(* Setups and bursts *)

\* A size a configuration accepts is a positive number.
LEMMA PowerOfTwo ==
  ASSUME NEW x, is_pow2(x)
  PROVE  x \in Nat \ {0} /\ \E k \in 0 .. MaxExponent : x = 2^k
<1>1. PICK k \in 0 .. MaxExponent : x = 2^k
  BY DEF is_pow2
<1>2. k \in Nat
  BY <1>1 DEF MaxExponent
<1> QED
  BY <1>1, <1>2, PowPos

\* The bursts of a token, of a block.
bpt == kv_bytes_per_token(setup.shape) \div setup.geom.burst_bytes

\* The sizes of an accepted setup.
LEMMA SetupFacts ==
  ASSUME setup \in Setups
  PROVE  /\ setup.block_tokens \in Nat \ {0} /\ setup.pool \in Nat \ {0}
         /\ setup.window \in Nat \ {0} /\ setup.tokens \in Nat \ {0}
         /\ setup.geom.burst_bytes \in Nat \ {0}
         /\ bpt \in Nat \ {0} /\ bpb \in Nat \ {0}
         /\ bpb = setup.block_tokens * bpt
         /\ kv_bytes_per_token(setup.shape) = bpt * setup.geom.burst_bytes
<1>1. PICK h, d, t, bt, po, wi, to :
         /\ h = setup.shape.kv_heads /\ d = setup.shape.head_dim /\ t = setup.shape.dtype_bytes
         /\ bt = setup.block_tokens /\ po = setup.pool /\ wi = setup.window /\ to = setup.tokens
  OBVIOUS
<1>2. {h, d, t, bt, po, wi, to} \subseteq Nat \ {0}
  BY <1>1, SetupsAssumption
<1>3. PICK bb : bb = setup.geom.burst_bytes
  OBVIOUS
<1>4. bb \in Nat \ {0}
  <2>1. is_pow2(bb)
    BY <1>3, SetupsAssumption DEF ValidGeometry
  <2> QED
    BY <2>1, PowerOfTwo
<1>5. PICK kv : kv = kv_bytes_per_token(setup.shape)
  OBVIOUS
<1>6. kv \in Nat \ {0}
  <2>1. 2 * h \in Nat \ {0}
    BY <1>2
  <2>2. (2 * h) * d \in Nat \ {0}
    BY <1>2, <2>1, Product
  <2>3. ((2 * h) * d) * t \in Nat \ {0}
    BY <1>2, <2>2, Product
  <2> QED
    BY <1>1, <1>5, <2>3 DEF kv_bytes_per_token
<1>7. kv % bb = 0
  BY <1>3, <1>5, SetupsAssumption
<1>8. PICK q \in Nat, r \in 0 .. bb - 1 : kv = q * bb + r /\ q = kv \div bb /\ r = kv % bb
  BY <1>4, <1>6, DivMod
<1>9. r = 0 /\ kv = q * bb /\ q # 0
  BY <1>4, <1>6, <1>7, <1>8
<1>10. bt * q \in Nat \ {0}
  BY <1>2, <1>9, Product
<1>11. bpt = q /\ bpb = bt * q
  BY <1>1, <1>3, <1>5, <1>8 DEF bpt, bpb
<1> QED
  BY <1>1, <1>2, <1>3, <1>4, <1>5, <1>8, <1>9, <1>10, <1>11

\* A list with a known domain is a sequence of its elements.
LEMMA ListIsSeq ==
  ASSUME NEW n \in Nat, NEW l, l = [i \in 1 .. n |-> l[i]]
  PROVE  \E R : l \in Seq(R) /\ R = {l[i] : i \in 1 .. n} /\ Len(l) = n
<1>1. PICK R : R = {l[i] : i \in 1 .. n}
  OBVIOUS
<1>2. \A i \in 1 .. n : l[i] \in R
  BY <1>1
<1>3. l \in [1 .. n -> R]
  BY <1>2
<1>4. l \in Seq(R) /\ Len(l) = n
  BY <1>3
<1> QED
  BY <1>1, <1>4

\* One burst per burst of every token.
LEMMA BurstList ==
  ASSUME setup \in Setups, length \in Nat
  PROVE  /\ length * bpt \in Nat
         /\ bursts = [i \in 1 .. length * bpt |-> map(am, table[((i - 1) \div bpb) + 1] * bpb + ((i - 1) % bpb))]
         /\ \E R : bursts \in Seq(R) /\ R = {bursts[i] : i \in 1 .. length * bpt} /\ Len(bursts) = length * bpt
<1>1. bpt \in Nat
  BY SetupFacts
<1>2. PICK n \in Nat : n = length * bpt
  BY <1>1
<1>3. am.geom = setup.geom
  BY DEF am, address_map
<1>4. bursts = [i \in 1 .. n |-> map(am, table[((i - 1) \div bpb) + 1] * bpb + ((i - 1) % bpb))]
  BY <1>2, <1>3, Zenon DEF bursts, enumerate_bursts, bpt, bpb
<1>5. bursts = [i \in 1 .. n |-> bursts[i]]
  <2>1. PICK G : G = [i \in 1 .. n |-> map(am, table[((i - 1) \div bpb) + 1] * bpb + ((i - 1) % bpb))]
    OBVIOUS
  <2>2. G = [i \in 1 .. n |-> G[i]]
    BY <2>1
  <2> QED
    BY <1>4, <2>1, <2>2
<1>6. PICK bs : bs = bursts
  OBVIOUS
<1>7. bs = [i \in 1 .. n |-> bs[i]]
  BY <1>5, <1>6
<1>8. \E R : bs \in Seq(R) /\ R = {bs[i] : i \in 1 .. n} /\ Len(bs) = n
  BY <1>7, ListIsSeq
<1> QED
  BY <1>2, <1>4, <1>6, <1>8

-----------------------------------------------------------------------------
(* A table covers its sequence *)

\* The invariant of the measured sequence.
LEMMA InitCovers ==
  ASSUME Init PROVE TableCovers
<1>1. setup \in Setups /\ length = 1
  BY DEF Init
<1>2. PICK b \in Pool : table = <<b>>
  BY DEF Init
<1>3. setup.tokens \in Nat \ {0} /\ setup.block_tokens \in Nat \ {0}
  BY <1>1, SetupFacts
<1>4. Len(table) = 1 /\ table \in Seq(Pool) /\ DOMAIN table = {1}
  BY <1>2
<1>5. (1 - 1) * setup.block_tokens = 0 /\ 1 * setup.block_tokens = setup.block_tokens
  BY <1>3
<1> QED
  BY <1>1, <1>3, <1>4, <1>5 DEF TableCovers

\* A decoded token keeps the table covering the sequence.
LEMMA NextCovers ==
  ASSUME TableCovers, [Next]_vars
  PROVE  TableCovers'
<1>1. CASE UNCHANGED vars
  <2>1. setup' = setup /\ table' = table /\ length' = length
    BY <1>1 DEF vars
  <2> QED
    BY <2>1 DEF TableCovers, Pool
<1>2. CASE decode
  <2>1. setup' = setup /\ length' = length + 1 /\ length < setup.tokens
    BY <1>2 DEF decode
  <2>2. PICK z, bt : z = Len(table) /\ bt = setup.block_tokens
    OBVIOUS
  <2>3. setup.tokens \in Nat \ {0} /\ bt \in Nat \ {0}
    BY <2>2, SetupFacts DEF TableCovers
  <2>4. /\ length \in Nat \ {0} /\ z \in Nat /\ length <= z * bt /\ (z - 1) * bt < length
        /\ table \in Seq(Pool) /\ DOMAIN table = 1 .. z
    BY <2>2, <2>3 DEF TableCovers
  <2>5. length' \in 1 .. setup.tokens
    BY <2>1, <2>3, <2>4
  <2>6. Pool' = Pool
    BY <2>1 DEF Pool
  <2>7. CASE need
    <3>1. PICK b \in Pool \ ToSet(table) : table' = Append(table, b)
      BY <1>2, <2>7 DEF decode
    <3>2. table' \in Seq(Pool) /\ Len(table') = z + 1 /\ DOMAIN table' = 1 .. z + 1
      BY <2>2, <2>4, <3>1
    <3>3. \A i \in 1 .. z : table'[i] = table[i] /\ table[i] \in ToSet(table)
      BY <2>2, <2>4, <3>1 DEF ToSet
    <3>4. table'[z + 1] = b
      BY <2>2, <2>4, <3>1
    <3>5. \A i, j \in 1 .. z + 1 : table'[i] = table'[j] => i = j
      BY <2>2, <2>4, <3>1, <3>3, <3>4 DEF TableCovers
    <3>6. length + 1 > z * bt
      BY <2>2, <2>7 DEF need
    <3>7. (z + 1) * bt = z * bt + bt /\ (z + 1) - 1 = z /\ z * bt \in Nat
      BY <2>3, <2>4
    <3>8. ((z + 1) - 1) * bt < length + 1 /\ length + 1 <= (z + 1) * bt
      BY <2>3, <2>4, <3>6, <3>7
    <3> QED
      BY <2>1, <2>2, <2>5, <2>6, <3>2, <3>5, <3>8 DEF TableCovers
  <2>8. CASE ~need
    <3>1. table' = table
      BY <1>2, <2>8 DEF decode
    <3>2. z * bt \in Nat /\ (z - 1) * bt \in Int
      BY <2>3, <2>4
    <3>3. length + 1 <= z * bt /\ (z - 1) * bt < length + 1
      BY <2>2, <2>4, <2>8, <3>2 DEF need
    <3> QED
      BY <2>1, <2>2, <2>5, <2>6, <3>1, <3>3 DEF TableCovers
  <2> QED
    BY <2>7, <2>8
<1> QED
  BY <1>1, <1>2 DEF Next

\* A table covers the sequence in every reachable state.
THEOREM MeasuredTableCovers == Spec => []TableCovers
  BY InitCovers, NextCovers, PTL DEF Spec

-----------------------------------------------------------------------------
(* The commands of a window *)

\* How many elements of S are not above x.
Rank(S, x) == Cardinality({y \in S : y <= x})

\* The ranks of a finite set of numbers are the numbers up to its size.
LEMMA RankOnto ==
  ASSUME NEW S, S \subseteq Int, IsFiniteSet(S)
  PROVE  /\ Cardinality(S) \in Nat
         /\ \A x \in S : Rank(S, x) \in 1 .. Cardinality(S)
         /\ \A k \in 1 .. Cardinality(S) : \E x \in S : Rank(S, x) = k
         /\ \A x, y \in S : Rank(S, x) = Rank(S, y) => x = y
<1> DEFINE n == Cardinality(S)
           Upto(x) == {y \in S : y <= x}
           r == [x \in S |-> Rank(S, x)]
<1>1. n \in Nat
  BY FS_CardinalityType
<1>2. \A x \in S : IsFiniteSet(Upto(x)) /\ Cardinality(Upto(x)) \in Nat /\ Cardinality(Upto(x)) <= n
  <2>1. ASSUME NEW x \in S PROVE IsFiniteSet(Upto(x)) /\ Cardinality(Upto(x)) <= n
    <3>1. Upto(x) \in SUBSET S
      OBVIOUS
    <3> QED
      BY <3>1, FS_Subset
  <2> QED
    BY <2>1, FS_CardinalityType
<1>3. ASSUME NEW x \in S, NEW y \in S, x < y PROVE Rank(S, x) < Rank(S, y)
  <2>1. y \in Upto(y) /\ Upto(x) \in SUBSET (Upto(y) \ {y})
    <3>1. x \in Int /\ y \in Int
      OBVIOUS
    <3>2. ASSUME NEW z \in Upto(x) PROVE z \in Upto(y) \ {y}
      <4>1. z \in Int /\ z <= x
        OBVIOUS
      <4>2. z <= y /\ z # y
        BY <1>3, <3>1, <4>1
      <4> QED
        BY <4>2
    <3>3. y \in Upto(y)
      BY <3>1
    <3> HIDE DEF Upto
    <3> QED
      BY <3>2, <3>3
  <2>2. IsFiniteSet(Upto(y) \ {y}) /\ Cardinality(Upto(y) \ {y}) = Cardinality(Upto(y)) - 1
    BY <1>2, <2>1, FS_RemoveElement
  <2>3. Cardinality(Upto(x)) <= Cardinality(Upto(y) \ {y})
    BY <2>1, <2>2, FS_Subset
  <2>4. Cardinality(Upto(x)) < Cardinality(Upto(y))
    BY <1>2, <2>2, <2>3
  <2> QED
    BY <2>4 DEF Rank
<1>4. \A x \in S : Rank(S, x) \in 1 .. n
  <2> SUFFICES ASSUME NEW x \in S PROVE Rank(S, x) \in 1 .. n
    OBVIOUS
  <2>1. x \in Upto(x)
    OBVIOUS
  <2>2. IsFiniteSet(Upto(x) \ {x}) /\ Cardinality(Upto(x) \ {x}) = Cardinality(Upto(x)) - 1
    BY <1>2, <2>1, FS_RemoveElement
  <2>3. Cardinality(Upto(x) \ {x}) \in Nat
    BY <2>2, FS_CardinalityType
  <2>4. Cardinality(Upto(x)) \in 1 .. n
    BY <1>1, <1>2, <2>2, <2>3
  <2> QED
    BY <2>4 DEF Rank
<1>5. \A x, y \in S : Rank(S, x) = Rank(S, y) => x = y
  <2> SUFFICES ASSUME NEW x \in S, NEW y \in S, Rank(S, x) = Rank(S, y), x # y PROVE FALSE
    OBVIOUS
  <2>1. x < y \/ y < x
    OBVIOUS
  <2>2. Rank(S, x) < Rank(S, y) \/ Rank(S, y) < Rank(S, x)
    BY <1>3, <2>1
  <2> QED
    BY <1>4, <2>2
<1>6. IsFiniteSet(1 .. n) /\ Cardinality(1 .. n) = n
  <2> HIDE DEF n
  <2>1. PICK o \in Int : o = 1
    OBVIOUS
  <2>2. IsFiniteSet(o .. n) /\ Cardinality(o .. n) = IF o > n THEN 0 ELSE n - o + 1
    BY <1>1, FS_Interval
  <2> QED
    BY <1>1, <2>1, <2>2
<1>7. r \in Injection(S, 1 .. n)
  BY <1>4, <1>5 DEF Injection, IsInjective
<1>8. r \in Surjection(S, 1 .. n)
  <2>1. PICK T : T = 1 .. n
    OBVIOUS
  <2>2. r \in Injection(S, T) /\ IsFiniteSet(T) /\ Cardinality(S) = Cardinality(T)
    BY <1>6, <1>7, <2>1, Zenon
  <2> HIDE DEF r
  <2>3. r \in Surjection(S, T)
    BY <2>2, FS_Injection
  <2> QED
    BY <2>1, <2>3
<1>9. \A k \in 1 .. n : \E x \in S : Rank(S, x) = k
  <2>1. \A k \in 1 .. n : \E x \in S : r[x] = k
    <3> HIDE DEF r
    <3> QED
      BY <1>8 DEF Surjection
  <2> QED
    BY <2>1
<1> QED
  BY <1>1, <1>4, <1>5, <1>9

\* What the grouped arithmetic of coalesce_channel comes to: for each row of a
\* window the bursts of its busiest bank, and one miss unless it is open.
busiest(win, r) ==
    LET here == {i \in DOMAIN win : win[i].row = r}
    IN  Max({Cardinality({j \in here : win[j].bank = win[i].bank}) : i \in here})
row_cmds(win) ==
    SumFunctionOnSet([r \in RowsRead(win) |-> busiest(win, r)], RowsRead(win))
row_window(s, w) ==
    LET ws == Windows(s, w)
        cmds == [k \in DOMAIN ws |-> row_cmds(ws[k])]
        misses == [k \in DOMAIN ws |-> Cardinality(RowsRead(ws[k]) \ {carry(ws, k)})]
        n == SumFunctionOnSet(cmds, DOMAIN ws)
    IN  [cmds |-> n, hits |-> n - SumFunctionOnSet(misses, DOMAIN ws)]
RowOpens(s) == LET c == row_window(s, setup.window) IN c.cmds - c.hits

\* Bursts i and j are in the same row of the same bank: no command has both.
Mates(win, i) == {j \in DOMAIN win : win[j].row = win[i].row /\ win[j].bank = win[i].bank}

\* A legal schedule of a window, as in LeastCommands.
Legal(win) ==
    {f \in [DOMAIN win -> DOMAIN win] :
        \A i, j \in DOMAIN win :
            i < j /\ f[i] = f[j] => win[i].row = win[j].row /\ win[i].bank # win[j].bank}
Used(win, f) == {f[i] : i \in DOMAIN win}

\* The mates of a burst are finite in number.
LEMMA MatesFinite ==
  ASSUME NEW n \in Nat, NEW win, DOMAIN win = 1 .. n, NEW i \in 1 .. n
  PROVE  /\ Mates(win, i) \subseteq 1 .. n /\ i \in Mates(win, i) /\ IsFiniteSet(Mates(win, i))
         /\ Cardinality(Mates(win, i)) \in 0 .. n
<1>1. IsFiniteSet(1 .. n) /\ Cardinality(1 .. n) = n
  BY UpTo
<1>2. Mates(win, i) \in SUBSET (1 .. n) /\ i \in Mates(win, i)
  BY DEF Mates
<1>3. IsFiniteSet(Mates(win, i)) /\ Cardinality(Mates(win, i)) <= n
  BY <1>1, <1>2, FS_Subset
<1>4. Cardinality(Mates(win, i)) \in Nat
  BY <1>3, FS_CardinalityType
<1> QED
  BY <1>2, <1>3, <1>4

\* It is the size of the largest class of mates of the row.
LEMMA Busiest ==
  ASSUME NEW n \in Nat, NEW win, DOMAIN win = 1 .. n, NEW r \in RowsRead(win)
  PROVE  \E b \in 1 .. n : /\ win[b].row = r /\ busiest(win, r) = Cardinality(Mates(win, b))
                           /\ \A i \in 1 .. n : win[i].row = r =>
                                 Cardinality(Mates(win, i)) <= Cardinality(Mates(win, b))
<1> DEFINE here == {i \in DOMAIN win : win[i].row = r}
           S == {Cardinality(Mates(win, i)) : i \in here}
<1>1. \A i \in here : {j \in here : win[j].bank = win[i].bank} = Mates(win, i)
  BY DEF Mates
<1>2. {Cardinality({j \in here : win[j].bank = win[i].bank}) : i \in here} = S
  BY <1>1
<1>3. busiest(win, r) = Max(S)
  BY <1>2, Zenon DEF busiest
<1>4. S \subseteq 0 .. n /\ S # {}
  <2>1. \A i \in here : Cardinality(Mates(win, i)) \in 0 .. n
    BY MatesFinite
  <2>2. here # {}
    BY DEF RowsRead
  <2> HIDE DEF here
  <2> QED
    BY <2>1, <2>2
<1>5. Max(S) \in S /\ \A x \in S : x <= Max(S)
  <2> HIDE DEF S
  <2> QED
    BY <1>4, NatMax
<1>6. PICK b \in here : Max(S) = Cardinality(Mates(win, b))
  BY <1>5
<1>7. \A i \in here : Cardinality(Mates(win, i)) <= Max(S)
  BY <1>5
<1> QED
  BY <1>3, <1>6, <1>7

\* The counted commands of a window: bursts no two of which share a command,
\* the ones of the busiest banks.
LEMMA WindowCount ==
  ASSUME NEW n \in Nat, NEW win, DOMAIN win = 1 .. n,
         NEW b, \A r \in RowsRead(win) :
                   /\ b[r] \in 1 .. n /\ win[b[r]].row = r
                   /\ busiest(win, r) = Cardinality(Mates(win, b[r])),
         NEW M, M = {i \in 1 .. n : i \in Mates(win, b[win[i].row])}
  PROVE  IsFiniteSet(M) /\ row_cmds(win) = Cardinality(M)
<1> DEFINE R == RowsRead(win)
           g == [i \in 1 .. n |-> win[i].row]
<1>1. IsFiniteSet(1 .. n)
  BY UpTo
<1>2. IsFiniteSet(M)
  <2>1. M \in SUBSET (1 .. n)
    OBVIOUS
  <2> QED
    BY <1>1, <2>1, FS_Subset
<1>3. IsFiniteSet(R)
  <2>1. g \in Surjection(1 .. n, R)
    BY DEF Surjection, RowsRead
  <2> HIDE DEF g, R
  <2> QED
    BY <1>1, <2>1, FS_Surjection
<1>4. \A x \in M : g[x] \in R
  BY DEF RowsRead
<1>5. ASSUME NEW r \in R PROVE {x \in M : g[x] = r} = Mates(win, b[r])
  <2>1. \A x \in Mates(win, b[r]) : x \in 1 .. n /\ win[x].row = r
    BY DEF Mates
  <2>2. ASSUME NEW x \in Mates(win, b[r]) PROVE x \in M /\ g[x] = r
    BY <2>1, <2>2
  <2>3. ASSUME NEW x \in M, g[x] = r PROVE x \in Mates(win, b[r])
    BY <2>3
  <2> QED
    BY <2>2, <2>3
<1>6. ClassSizes(M, g, R) = [r \in R |-> busiest(win, r)]
  <2>1. \A r \in R : Cardinality({x \in M : g[x] = r}) = busiest(win, r)
    BY <1>5
  <2> QED
    BY <2>1 DEF ClassSizes
<1>7. SumFunctionOnSet(ClassSizes(M, g, R), R) = Cardinality(M)
  <2> HIDE DEF g, R
  <2> QED
    BY <1>2, <1>3, <1>4, SumClasses
<1>8. row_cmds(win) = SumFunctionOnSet([r \in R |-> busiest(win, r)], R)
  BY DEF row_cmds
<1> HIDE DEF g, R
<1> QED
  BY <1>2, <1>6, <1>7, <1>8, Zenon

\* The bursts of the busiest banks b picks, row by row.
Busy(win, b) == {i \in DOMAIN win : i \in Mates(win, b[win[i].row])}

\* b picks, for every row of the window, a burst of its busiest bank.
Picks(win, b) ==
    \A i \in DOMAIN win :
        LET p == b[win[i].row]
        IN  /\ p \in DOMAIN win /\ win[p].row = win[i].row
            /\ busiest(win, win[i].row) = Cardinality(Mates(win, p))
            /\ Cardinality(Mates(win, i)) <= Cardinality(Mates(win, p))

\* No schedule has fewer commands than there are bursts in the busiest banks:
\* no command has two of them.
LEMMA NoFewer ==
  ASSUME NEW n \in Nat, NEW win, DOMAIN win = 1 .. n, NEW b, Picks(win, b), NEW f \in Legal(win)
  PROVE  /\ Cardinality(Busy(win, b)) <= Cardinality(Used(win, f))
         /\ Cardinality(Used(win, f)) \in Nat
<1> DEFINE B == Busy(win, b)
           U == Used(win, f)
           h == [i \in B |-> f[i]]
<1>1. f \in [1 .. n -> 1 .. n] /\ B \subseteq 1 .. n /\ U \in SUBSET (1 .. n)
  BY DEF Legal, Busy, Used
<1>2. IsFiniteSet(U) /\ Cardinality(U) \in Nat
  <2>1. PICK o \in Int : o = 1
    OBVIOUS
  <2>2. IsFiniteSet(o .. n)
    BY FS_Interval
  <2>3. IsFiniteSet(U)
    BY <1>1, <2>1, <2>2, FS_Subset
  <2> QED
    BY <2>3, FS_CardinalityType
<1>3. ASSUME NEW i \in B, NEW j \in B, i < j PROVE f[i] # f[j]
  <2>1. i \in DOMAIN win /\ j \in DOMAIN win
    BY DEF Busy
  <2>2. SUFFICES ASSUME f[i] = f[j] PROVE FALSE
    OBVIOUS
  <2>3. win[i].row = win[j].row /\ win[i].bank # win[j].bank
    BY <1>3, <2>1, <2>2 DEF Legal
  <2>4. i \in Mates(win, b[win[i].row]) /\ j \in Mates(win, b[win[i].row])
    BY <2>3 DEF Busy
  <2> QED
    BY <2>3, <2>4 DEF Mates
<1>4. \A i, j \in B : f[i] = f[j] => i = j
  <2> SUFFICES ASSUME NEW i \in B, NEW j \in B, f[i] = f[j], i # j PROVE FALSE
    OBVIOUS
  <2>1. i \in Int /\ j \in Int
    BY <1>1
  <2>2. i < j \/ j < i
    BY <2>1
  <2> QED
    BY <1>3, <2>2
<1>5. h \in Injection(B, U)
  <2>1. \A i \in B : f[i] \in U
    BY DEF Used, Busy
  <2> HIDE DEF B, U
  <2> QED
    BY <1>4, <2>1 DEF Injection, IsInjective
<1> HIDE DEF B, U, h
<1>6. Cardinality(B) <= Cardinality(U)
  BY <1>2, <1>5, FS_Injection
<1> QED
  BY <1>2, <1>6 DEF B, U

\* A schedule with that many: the k-th burst of any bank goes with the k-th
\* burst of the busiest bank of its row.
LEMMA AsFew ==
  ASSUME NEW n \in Nat, NEW win, DOMAIN win = 1 .. n, NEW b, Picks(win, b)
  PROVE  \E f \in Legal(win) : Used(win, f) \subseteq Busy(win, b)
<1> DEFINE Top(i) == Mates(win, b[win[i].row])
           f == [i \in 1 .. n |-> CHOOSE j \in Top(i) : Rank(Top(i), j) = Rank(Mates(win, i), i)]
<1>1. ASSUME NEW i \in 1 .. n
      PROVE  \E j \in Top(i) : Rank(Top(i), j) = Rank(Mates(win, i), i)
  <2>1. PICK p : p = b[win[i].row]
    OBVIOUS
  <2>2. p \in 1 .. n /\ Cardinality(Mates(win, i)) <= Cardinality(Mates(win, p))
    BY <2>1 DEF Picks
  <2>3. /\ Mates(win, i) \subseteq Int /\ i \in Mates(win, i) /\ IsFiniteSet(Mates(win, i))
        /\ Cardinality(Mates(win, i)) \in Nat
    BY MatesFinite
  <2>4. Mates(win, p) \subseteq Int /\ IsFiniteSet(Mates(win, p)) /\ Cardinality(Mates(win, p)) \in Nat
    BY <2>2, MatesFinite
  <2>5. PICK k : k = Rank(Mates(win, i), i)
    OBVIOUS
  <2>6. k \in 1 .. Cardinality(Mates(win, i))
    BY <2>3, <2>5, RankOnto
  <2>7. k \in 1 .. Cardinality(Mates(win, p))
    BY <2>2, <2>3, <2>4, <2>6
  <2>8. \E j \in Mates(win, p) : Rank(Mates(win, p), j) = k
    BY <2>4, <2>7, RankOnto
  <2> QED
    BY <2>1, <2>5, <2>8
<1>2. \A i \in 1 .. n : f[i] \in Top(i) /\ Rank(Top(i), f[i]) = Rank(Mates(win, i), i)
  <2> SUFFICES ASSUME NEW i \in 1 .. n
               PROVE  f[i] \in Top(i) /\ Rank(Top(i), f[i]) = Rank(Mates(win, i), i)
    OBVIOUS
  <2>1. f[i] = CHOOSE j \in Top(i) : Rank(Top(i), j) = Rank(Mates(win, i), i)
    OBVIOUS
  <2> HIDE DEF Top, f
  <2> QED
    BY <1>1, <2>1, Zenon
<1> HIDE DEF f
<1>3. \A i \in 1 .. n : f[i] \in 1 .. n /\ win[f[i]].row = win[i].row
  <2> SUFFICES ASSUME NEW i \in 1 .. n PROVE f[i] \in 1 .. n /\ win[f[i]].row = win[i].row
    OBVIOUS
  <2>1. win[b[win[i].row]].row = win[i].row
    BY DEF Picks
  <2> QED
    BY <1>2, <2>1 DEF Mates
<1>4. f \in Legal(win)
  <2>1. f \in [DOMAIN win -> DOMAIN win]
    BY <1>3 DEF f
  <2>2. ASSUME NEW i \in DOMAIN win, NEW j \in DOMAIN win, i < j, f[i] = f[j]
        PROVE  win[i].row = win[j].row /\ win[i].bank # win[j].bank
    <3>1. win[i].row = win[j].row
      BY <1>3, <2>2
    <3>2. Rank(Mates(win, i), i) = Rank(Mates(win, j), j)
      <4>1. Top(i) = Top(j)
        BY <3>1
      <4> HIDE DEF Top
      <4> QED
        BY <1>2, <2>2, <4>1
    <3>3. SUFFICES ASSUME win[i].bank = win[j].bank PROVE FALSE
      BY <3>1
    <3>4. Mates(win, i) = Mates(win, j)
      BY <3>1, <3>3 DEF Mates
    <3>5. PICK S : S = Mates(win, i)
      OBVIOUS
    <3>6. S \subseteq Int /\ IsFiniteSet(S) /\ i \in S /\ j \in S
      <4>1. Mates(win, i) \subseteq 1 .. n /\ i \in Mates(win, i) /\ IsFiniteSet(Mates(win, i))
        BY MatesFinite
      <4>2. j \in Mates(win, j)
        BY MatesFinite
      <4> QED
        BY <3>4, <3>5, <4>1, <4>2
    <3>7. Rank(S, i) = Rank(S, j)
      BY <3>2, <3>4, <3>5
    <3>8. i = j
      BY <3>6, <3>7, RankOnto
    <3> QED
      BY <2>2, <3>8
  <2> QED
    BY <2>1, <2>2 DEF Legal
<1>5. Used(win, f) \subseteq Busy(win, b)
  BY <1>2, <1>3 DEF Used, Busy
<1> QED
  BY <1>4, <1>5

\* What coalesce_channel counts for a window is the least any schedule needs.
LEMMA CountIsLeast ==
  ASSUME NEW n \in Nat, NEW win, DOMAIN win = 1 .. n
  PROVE  LeastCommands(win) = row_cmds(win)
<1> DEFINE Good(r, p) == /\ p \in 1 .. n /\ win[p].row = r /\ busiest(win, r) = Cardinality(Mates(win, p))
                         /\ \A i \in 1 .. n : win[i].row = r =>
                               Cardinality(Mates(win, i)) <= Cardinality(Mates(win, p))
<1>1. PICK b : b = [r \in RowsRead(win) |-> CHOOSE p : Good(r, p)]
  OBVIOUS
<1>2. \A r \in RowsRead(win) : Good(r, b[r])
  <2> SUFFICES ASSUME NEW r \in RowsRead(win) PROVE Good(r, b[r])
    OBVIOUS
  <2>1. \E p : Good(r, p)
    BY Busiest
  <2>2. b[r] = CHOOSE p : Good(r, p)
    BY <1>1
  <2> HIDE DEF Good
  <2> QED
    BY <2>1, <2>2, Zenon
<1>3. Picks(win, b)
  <2>1. \A i \in DOMAIN win : win[i].row \in RowsRead(win)
    BY DEF RowsRead
  <2> QED
    BY <1>2, <2>1 DEF Picks
<1>4. PICK B : B = Busy(win, b)
  OBVIOUS
<1>5. IsFiniteSet(B) /\ row_cmds(win) = Cardinality(B)
  <2>1. B = {i \in 1 .. n : i \in Mates(win, b[win[i].row])}
    BY <1>4 DEF Busy
  <2> QED
    BY <1>2, <2>1, WindowCount
<1>6. PICK f \in Legal(win) : Used(win, f) \subseteq B
  BY <1>3, <1>4, AsFew
<1>7. Cardinality(Used(win, f)) = Cardinality(B)
  <2>1. Cardinality(Used(win, f)) <= Cardinality(B)
    <3>1. Used(win, f) \in SUBSET B
      BY <1>6
    <3> QED
      BY <1>5, <3>1, FS_Subset
  <2>2. Cardinality(B) <= Cardinality(Used(win, f)) /\ Cardinality(Used(win, f)) \in Nat
    BY <1>3, <1>4, NoFewer
  <2>3. Cardinality(B) \in Nat
    BY <1>5, FS_CardinalityType
  <2> QED
    BY <2>1, <2>2, <2>3
<1>8. PICK C : C = {Cardinality(Used(win, e)) : e \in Legal(win)}
  OBVIOUS
<1>9. C \subseteq Nat /\ Cardinality(B) \in C /\ \A c \in C : Cardinality(B) <= c
  BY <1>3, <1>4, <1>7, <1>8, NoFewer
<1>10. Min(C) = Cardinality(B)
  <2>1. Min(C) \in C /\ \A c \in C : Min(C) <= c
    BY <1>9, NatMin
  <2>2. Min(C) \in Nat /\ Cardinality(B) \in Nat
    BY <1>9, <2>1
  <2> QED
    BY <1>9, <2>1, <2>2
<1>11. LeastCommands(win) = Min(C)
  <2>1. C = {Cardinality({e[i] : i \in DOMAIN win}) : e \in Legal(win)}
    BY <1>8, Zenon DEF Used
  <2> QED
    BY <2>1, Zenon DEF LeastCommands, Legal
<1> QED
  BY <1>5, <1>10, <1>11

-----------------------------------------------------------------------------
(* What a channel is given *)

\* The function OfChannel builds up, for the first n bursts.
Filtered(l, c, g, n) ==
    g = [i \in 0 .. n |-> IF i = 0 THEN << >>
                          ELSE LET b == l[i]
                               IN  IF b.ch = c THEN Append(g[i - 1], b) ELSE g[i - 1]]

\* The recursion of OfChannel has a solution.
LEMMA FilteredExists ==
  ASSUME NEW l, NEW c, NEW n \in Nat
  PROVE  \E g : Filtered(l, c, g, n)
<1> DEFINE P == {k \in Nat : \E g : Filtered(l, c, g, k)}
<1>1. 0 \in P
  <2>1. Filtered(l, c, [i \in 0 .. 0 |-> << >>], 0)
    BY DEF Filtered
  <2> QED
    BY <2>1
<1>2. ASSUME NEW k \in Nat, k \in P PROVE k + 1 \in P
  <2>1. PICK g : Filtered(l, c, g, k)
    BY <1>2
  <2> DEFINE h == [i \in 0 .. k + 1 |->
                      IF i <= k THEN g[i]
                      ELSE IF l[i].ch = c THEN Append(g[i - 1], l[i]) ELSE g[i - 1]]
  <2>2. \A i \in 0 .. k : g[i] = IF i = 0 THEN << >>
                                 ELSE IF l[i].ch = c THEN Append(g[i - 1], l[i]) ELSE g[i - 1]
    BY <2>1 DEF Filtered
  <2>3. \A i \in 0 .. k : h[i] = g[i]
    OBVIOUS
  <2>4. \A i \in 0 .. k + 1 : h[i] = IF i = 0 THEN << >>
                                     ELSE IF l[i].ch = c THEN Append(h[i - 1], l[i]) ELSE h[i - 1]
    <3> SUFFICES ASSUME NEW i \in 0 .. k + 1
                 PROVE  h[i] = IF i = 0 THEN << >>
                               ELSE IF l[i].ch = c THEN Append(h[i - 1], l[i]) ELSE h[i - 1]
      OBVIOUS
    <3>1. CASE i = 0
      BY <2>2, <3>1
    <3>2. CASE i # 0
      <4>1. h[i - 1] = g[i - 1]
        BY <2>3, <3>2
      <4>2. h[i] = IF l[i].ch = c THEN Append(g[i - 1], l[i]) ELSE g[i - 1]
        BY <2>2, <2>3, <3>2
      <4> QED
        BY <3>2, <4>1, <4>2, Zenon
    <3> QED
      BY <3>1, <3>2
  <2>5. h = [i \in 0 .. k + 1 |-> h[i]]
    OBVIOUS
  <2> HIDE DEF h
  <2>6. Filtered(l, c, h, k + 1)
    BY <2>4, <2>5 DEF Filtered
  <2> QED
    BY <2>6
<1> HIDE DEF P
<1>3. \A k \in Nat : k \in P
  BY <1>1, <1>2, NatInduct
<1> QED
  BY <1>3 DEF P

\* A channel receives the bursts that are its own, and all of them.
OwnBursts(l, c) ==
    {OfChannel(l, c)[k] : k \in DOMAIN OfChannel(l, c)}
        = {l[i] : i \in {j \in DOMAIN l : l[j].ch = c}}

\* ... in a list of the same kind.
LEMMA ChannelBursts ==
  ASSUME NEW R, NEW l \in Seq(R), NEW c
  PROVE  OfChannel(l, c) \in Seq(R) /\ OwnBursts(l, c)
<1>1. PICK g : g = CHOOSE h : Filtered(l, c, h, Len(l))
  OBVIOUS
<1>2. Filtered(l, c, g, Len(l))
  <2>1. Len(l) \in Nat
    OBVIOUS
  <2>2. \E h : Filtered(l, c, h, Len(l))
    BY <2>1, FilteredExists
  <2> QED
    BY <1>1, <2>2, Zenon
<1>3. OfChannel(l, c) = g[Len(l)]
  BY <1>1, Zenon DEF OfChannel, Filtered
<1>4. \A i \in 0 .. Len(l) : g[i] = IF i = 0 THEN << >>
                                    ELSE IF l[i].ch = c THEN Append(g[i - 1], l[i]) ELSE g[i - 1]
  BY <1>2 DEF Filtered
<1>5. Len(l) \in Nat /\ DOMAIN l = 1 .. Len(l) /\ \A i \in 1 .. Len(l) : l[i] \in R
  OBVIOUS
<1> DEFINE Own(k) == {l[i] : i \in {j \in 1 .. k : l[j].ch = c}}
           P == {k \in 0 .. Len(l) : /\ g[k] \in Seq(R)
                                     /\ {g[k][i] : i \in DOMAIN g[k]} = Own(k)}
<1>6. 0 \in P
  <2>1. g[0] = << >>
    BY <1>4, <1>5
  <2>2. << >> \in Seq(R) /\ DOMAIN << >> = {}
    OBVIOUS
  <2>3. Own(0) = {}
    OBVIOUS
  <2>4. {g[0][i] : i \in DOMAIN g[0]} = {}
    BY <2>1, <2>2
  <2>5. g[0] \in Seq(R) /\ 0 \in 0 .. Len(l)
    BY <1>5, <2>1, <2>2
  <2>6. {g[0][i] : i \in DOMAIN g[0]} = Own(0)
    BY <2>3, <2>4, Zenon
  <2> HIDE DEF Own
  <2> QED
    BY <2>5, <2>6, Zenon
<1>7. ASSUME NEW k \in 0 .. Len(l), k < Len(l), k \in P PROVE k + 1 \in P
  <2>1. l[k + 1] \in R /\ k \in Nat /\ k + 1 # 0 /\ (k + 1) - 1 = k /\ k + 1 \in 0 .. Len(l)
    BY <1>5, <1>7
  <2>2. g[k + 1] = IF l[k + 1].ch = c THEN Append(g[k], l[k + 1]) ELSE g[k]
    BY <1>4, <2>1
  <2>3. 1 .. k + 1 = (1 .. k) \cup {k + 1}
    BY <2>1
  <2>4. CASE l[k + 1].ch # c
    <3>1. Own(k + 1) = Own(k)
      BY <2>3, <2>4
    <3> HIDE DEF Own
    <3> QED
      BY <1>7, <2>1, <2>2, <2>4, <3>1
  <2>5. CASE l[k + 1].ch = c
    <3>1. Own(k + 1) = Own(k) \cup {l[k + 1]}
      BY <2>3, <2>5
    <3>2. PICK s, e : s = g[k] /\ e = l[k + 1]
      OBVIOUS
    <3>3. s \in Seq(R) /\ e \in R /\ g[k + 1] = Append(s, e)
      BY <1>7, <2>1, <2>2, <2>5, <3>2
    <3>4. /\ Append(s, e) \in Seq(R)
          /\ {Append(s, e)[i] : i \in DOMAIN Append(s, e)} = {s[i] : i \in DOMAIN s} \cup {e}
      <4>1. PICK z \in Nat : z = Len(s)
        BY <3>3
      <4>2. /\ Append(s, e) \in Seq(R) /\ DOMAIN s = 1 .. z /\ DOMAIN Append(s, e) = 1 .. z + 1
            /\ \A i \in 1 .. z : Append(s, e)[i] = s[i]
            /\ Append(s, e)[z + 1] = e
        BY <3>3, <4>1
      <4>3. PICK t : t = Append(s, e)
        OBVIOUS
      <4>4. 1 .. z + 1 = (1 .. z) \cup {z + 1}
        OBVIOUS
      <4> QED
        BY <4>2, <4>3, <4>4
    <3>5. {s[i] : i \in DOMAIN s} = Own(k)
      BY <1>7, <3>2
    <3>6. g[k + 1] \in Seq(R) /\ {g[k + 1][i] : i \in DOMAIN g[k + 1]} = Own(k + 1)
      <4>1. PICK t : t = g[k + 1]
        OBVIOUS
      <4>2. t = Append(s, e)
        BY <3>3, <4>1
      <4>3. t \in Seq(R) /\ {t[i] : i \in DOMAIN t} = {s[i] : i \in DOMAIN s} \cup {e}
        BY <3>4, <4>2, Zenon
      <4>4. Own(k + 1) = {s[i] : i \in DOMAIN s} \cup {e}
        <5> HIDE DEF Own
        <5> QED
          BY <3>1, <3>2, <3>5, Zenon
      <4> HIDE DEF Own
      <4> QED
        BY <4>1, <4>3, <4>4, Zenon
    <3> HIDE DEF Own
    <3> QED
      BY <2>1, <3>6, Zenon
  <2> QED
    BY <2>4, <2>5
<1>8. Len(l) \in P
  <2> HIDE DEF P
  <2> QED
    BY <1>5, <1>6, <1>7, UpToInduct
<1> QED
  BY <1>3, <1>5, <1>8 DEF OwnBursts

\* What a channel is given is a list of bursts.
LEMMA ChannelList ==
  ASSUME setup \in Setups, length \in Nat, NEW c \in DOMAIN perch
  PROVE  /\ perch[c] = OfChannel(bursts, c)
         /\ \E R : perch[c] \in Seq(R)
<1>1. PICK R : bursts \in Seq(R)
  BY BurstList
<1>2. perch[c] = OfChannel(bursts, c)
  BY DEF perch, PerChannel
<1>3. PICK bs : bs = bursts
  OBVIOUS
<1>4. OfChannel(bs, c) \in Seq(R)
  BY <1>1, <1>3, ChannelBursts
<1> QED
  BY <1>2, <1>3, <1>4

-----------------------------------------------------------------------------
(* The least number of commands *)

\* The windows of a list are lists.
LEMMA WindowList ==
  ASSUME NEW R, NEW s \in Seq(R), NEW w \in Nat \ {0}, NEW k \in DOMAIN Windows(s, w)
  PROVE  \E n \in Nat : DOMAIN Windows(s, w)[k] = 1 .. n
<1>1. PICK z \in Nat : z = Len(s)
  OBVIOUS
<1>2. k \in 1 .. ceil_div(z, w)
  BY <1>1 DEF Windows
<1>3. ceil_div(z, w) \in Int
  BY DEF ceil_div
<1>4. k \in Nat \ {0}
  BY <1>2, <1>3
<1>5. k * w \in Nat
  BY <1>4
<1>6. PICK e : e = Min({k * w, z})
  OBVIOUS
<1>7. e \in Nat
  <2>1. {k * w, z} \subseteq Nat /\ {k * w, z} # {}
    BY <1>5
  <2> QED
    BY <1>6, <2>1, NatMin
<1>8. PICK b : b = (k - 1) * w + 1
  OBVIOUS
<1>9. b \in Int
  BY <1>4, <1>8
<1>10. Windows(s, w)[k] = SubSeq(s, b, e)
  BY <1>1, <1>2, <1>6, <1>8, Zenon DEF Windows
<1>11. DOMAIN SubSeq(s, b, e) = 1 .. (1 + e - b)
  BY <1>7, <1>9 
<1>12. CASE 1 + e - b >= 0
  BY <1>7, <1>9, <1>10, <1>11, <1>12
<1>13. CASE 1 + e - b < 0
  <2>1. 1 .. (1 + e - b) = 1 .. 0
    BY <1>7, <1>9, <1>13
  <2> QED
    BY <1>10, <1>11, <2>1
<1> QED
  BY <1>7, <1>9, <1>12, <1>13

\* Window by window, the counted commands are the least.
LEMMA WindowsMinimal ==
  ASSUME NEW R, NEW s \in Seq(R), NEW w \in Nat \ {0}
  PROVE  row_window(s, w).cmds
            = LET ws == Windows(s, w)
              IN  SumFunctionOnSet([k \in DOMAIN ws |-> LeastCommands(ws[k])], DOMAIN ws)
<1>1. PICK ws : ws = Windows(s, w)
  OBVIOUS
<1>2. \A k \in DOMAIN ws : LeastCommands(ws[k]) = row_cmds(ws[k])
  <2> SUFFICES ASSUME NEW k \in DOMAIN ws PROVE LeastCommands(ws[k]) = row_cmds(ws[k])
    OBVIOUS
  <2>1. PICK win : win = ws[k]
    OBVIOUS
  <2>2. PICK n \in Nat : DOMAIN win = 1 .. n
    BY <1>1, <2>1, WindowList
  <2>3. LeastCommands(win) = row_cmds(win)
    BY <2>2, CountIsLeast
  <2> QED
    BY <2>1, <2>3
<1>3. [k \in DOMAIN ws |-> LeastCommands(ws[k])] = [k \in DOMAIN ws |-> row_cmds(ws[k])]
  BY <1>2
<1>4. row_window(s, w).cmds = SumFunctionOnSet([k \in DOMAIN ws |-> row_cmds(ws[k])], DOMAIN ws)
  BY <1>1 DEF row_window
<1> QED
  BY <1>1, <1>3, <1>4, Zenon

-----------------------------------------------------------------------------
(* The digits of an index *)

\* The fields of a map: their widths, and the digits of an index.
FieldList(f, n) == DOMAIN f = 1 .. n /\ \A k \in 1 .. n : f[k][2] \in Nat

\* The digit field k takes from the index lin.
Chunk(f, lin, k) == (lin \div 2^shift(f, k)) % 2^f[k][2]

\* The bits below a field.
LEMMA WidthFacts ==
  ASSUME NEW n \in Nat, NEW f, FieldList(f, n)
  PROVE  /\ Width(f, {}) = 0
         /\ \A S \in SUBSET (1 .. n) : Width(f, S) \in Nat
         /\ \A k \in 1 .. n : Width(f, {k}) = f[k][2]
         /\ \A k \in 1 .. n : shift(f, k) \in Nat /\ Width(f, 1 .. k) = shift(f, k) + f[k][2]
<1>1. IsFiniteSet(1 .. n)
  BY UpTo
<1>2. ASSUME NEW S \in SUBSET (1 .. n) PROVE Width(f, S) \in Nat
  <2>1. IsFiniteSet(S)
    BY <1>1, FS_Subset
  <2>2. PICK g : g = [k \in S |-> f[k][2]]
    OBVIOUS
  <2>3. \A k \in S : g[k] \in Nat
    BY <2>2 DEF FieldList
  <2>4. SumFunctionOnSet(g, S) \in Nat
    BY <2>1, <2>3, SumNat
  <2> QED
    BY <2>2, <2>4 DEF Width
<1>3. Width(f, {}) = 0
  BY SumEmpty DEF Width
<1>4. ASSUME NEW k \in 1 .. n PROVE Width(f, {k}) = f[k][2]
  <2>1. PICK g : g = [j \in {k} |-> f[j][2]]
    OBVIOUS
  <2>2. g[k] = f[k][2] /\ g[k] \in Int
    BY <2>1 DEF FieldList
  <2>3. SumFunctionOnSet(g, {k}) = g[k]
    BY <2>2, SumOne
  <2> QED
    BY <2>1, <2>2, <2>3 DEF Width
<1>5. ASSUME NEW k \in 1 .. n
      PROVE  shift(f, k) \in Nat /\ Width(f, 1 .. k) = shift(f, k) + f[k][2]
  <2>1. PICK S, T : S = 1 .. k - 1 /\ T = 1 .. k
    OBVIOUS
  <2>2. S \in SUBSET (1 .. n) /\ T \in SUBSET (1 .. n) /\ k \notin S /\ S \cup {k} = T
    BY <2>1
  <2>3. PICK g, h : g = [j \in S |-> f[j][2]] /\ h = [j \in T |-> f[j][2]]
    OBVIOUS
  <2>4. IsFiniteSet(S)
    BY <1>1, <2>2, FS_Subset
  <2>5. /\ \A y \in S \cup {k} : h[y] \in Int
        /\ \A y \in S : h[y] \in Int /\ g[y] = h[y]
        /\ h[k] = f[k][2] /\ h[k] \in Int
    BY <2>2, <2>3 DEF FieldList
  <2>6. SumFunctionOnSet(h, S \cup {k}) = h[k] + SumFunctionOnSet(h, S)
    BY <2>2, <2>4, <2>5, SumAdd
  <2>7. SumFunctionOnSet(g, S) = SumFunctionOnSet(h, S)
    BY <2>4, <2>5, SumEqual
  <2>8. Width(f, S) = SumFunctionOnSet(g, S) /\ Width(f, T) = SumFunctionOnSet(h, T)
    BY <2>3 DEF Width
  <2>9. PICK a \in Nat : a = Width(f, S)
    BY <1>2, <2>2
  <2>10. shift(f, k) = a
    BY <2>1, <2>9 DEF shift
  <2>11. Width(f, T) = h[k] + a
    BY <2>2, <2>6, <2>7, <2>8, <2>9
  <2> QED
    BY <2>1, <2>5, <2>10, <2>11
<1> QED
  BY <1>2, <1>3, <1>4, <1>5

\* The digits of an index add up to it, up to the width of the fields.
LEMMA MixedRadix ==
  ASSUME NEW n \in Nat, NEW f, FieldList(f, n), NEW lin \in Nat,
         NEW g, \A k \in 1 .. n : g[k] = Chunk(f, lin, k) * 2^shift(f, k)
  PROVE  SumFunctionOnSet(g, 1 .. n) = lin % 2^Width(f, 1 .. n)
<1> DEFINE P == {j \in 0 .. n : SumFunctionOnSet(g, 1 .. j) = lin % 2^Width(f, 1 .. j)}
<1>1. 0 \in P
  <2>1. 1 .. 0 = {}
    OBVIOUS
  <2>2. Width(f, {}) = 0
    BY WidthFacts
  <2>3. lin % 1 = 0
    OBVIOUS
  <2>4. SumFunctionOnSet(g, {}) = 0
    BY SumEmpty
  <2>5. SumFunctionOnSet(g, 1 .. 0) = 0 /\ Width(f, 1 .. 0) = 0
    BY <2>1, <2>2, <2>4
  <2>6. SumFunctionOnSet(g, 1 .. 0) = lin % 2^Width(f, 1 .. 0)
    BY <2>3, <2>5, PowZero
  <2> QED
    BY <2>6
<1>2. \A k \in 1 .. n : /\ shift(f, k) \in Nat /\ f[k][2] \in Nat
                        /\ Width(f, 1 .. k) = shift(f, k) + f[k][2]
  BY WidthFacts DEF FieldList
<1>3. \A k \in 1 .. n : g[k] \in Nat
  <2> SUFFICES ASSUME NEW k \in 1 .. n PROVE g[k] \in Nat
    OBVIOUS
  <2>1. PICK p \in Nat \ {0} : p = 2^shift(f, k)
    BY <1>2, PowPos
  <2>2. PICK q \in Nat \ {0} : q = 2^f[k][2]
    BY <1>2, PowPos
  <2>3. PICK a \in Nat, r \in 0 .. p - 1 : lin = a * p + r /\ a = lin \div p /\ r = lin % p
    BY DivMod
  <2>4. PICK b \in Nat, s \in 0 .. q - 1 : a = b * q + s /\ b = a \div q /\ s = a % q
    BY DivMod
  <2>5. g[k] = s * p
    BY <2>1, <2>2, <2>3, <2>4 DEF Chunk
  <2> QED
    BY <2>5
<1>4. ASSUME NEW j \in 0 .. n, j < n, j \in P PROVE j + 1 \in P
  <2>1. PICK k \in 1 .. n : k = j + 1
    BY <1>4
  <2>2. 1 .. k = (1 .. j) \cup {k} /\ k \notin 1 .. j /\ 1 .. k - 1 = 1 .. j
    BY <2>1
  <2>3. IsFiniteSet(1 .. j)
    BY UpTo
  <2>4. \A y \in (1 .. j) \cup {k} : g[y] \in Int
    BY <1>3, <2>1
  <2>5. PICK S : S = 1 .. j
    OBVIOUS
  <2>6. SumFunctionOnSet(g, S \cup {k}) = g[k] + SumFunctionOnSet(g, S)
    BY <2>2, <2>3, <2>4, <2>5, SumAdd
  <2>7. PICK p \in Nat \ {0} : p = 2^shift(f, k)
    BY <1>2, PowPos
  <2>8. PICK q \in Nat \ {0} : q = 2^f[k][2]
    BY <1>2, PowPos
  <2>9. 2^(shift(f, k) + f[k][2]) = p * q
    BY <1>2, <2>7, <2>8, PowAdd
  <2>10. Width(f, S) = shift(f, k)
    BY <2>2, <2>5 DEF shift
  <2>11. SumFunctionOnSet(g, S) = lin % p
    BY <1>4, <2>5, <2>7, <2>10
  <2>12. g[k] = ((lin \div p) % q) * p
    BY <2>7, <2>8 DEF Chunk
  <2>13. lin % (p * q) = (lin % p) + ((lin \div p) % q) * p
    <3>1. PICK u \in Nat \ {0} : u = p * q
      BY Product
    <3>2. InDigits(lin, p, q, u)
      BY <3>1, ModProduct
    <3>3. lin % u = (lin % p) + ((lin \div p) % q) * p
      BY <3>2 DEF InDigits
    <3> QED
      BY <3>1, <3>3
  <2>14. 2^Width(f, 1 .. k) = p * q
    BY <1>2, <2>9
  <2>15. (lin % p) \in Int /\ g[k] \in Int
    BY <1>3
  <2>16. g[k] + (lin % p) = (lin % p) + g[k]
    BY <2>15
  <2>17. SumFunctionOnSet(g, 1 .. k) = lin % 2^Width(f, 1 .. k)
    BY <2>2, <2>5, <2>6, <2>11, <2>12, <2>13, <2>14, <2>16
  <2> QED
    BY <1>4, <2>1, <2>17
<1>5. n \in P
  <2> HIDE DEF P
  <2> QED
    BY <1>1, <1>4, UpToInduct
<1> QED
  BY <1>5

\* The coordinates fields are pieces of.
Coords == {"ch", "bg", "ba", "ro", "co"}

\* The fields that are pieces of a coordinate, and its value.
Pieces(f, c) == {k \in DOMAIN f : f[k][1] = c}
Coord(f, lin, c) ==
    SumFunctionOnSet([k \in Pieces(f, c) |-> Chunk(f, lin, k) * 2^in_field_shift(f, k)], Pieces(f, c))

\* What inverse takes back out of the coordinate for field k.
Back(f, lin, k) == (Coord(f, lin, f[k][1]) \div 2^in_field_shift(f, k)) % 2^f[k][2]

\* A digit is below the power of two of its width.
LEMMA ChunkNat ==
  ASSUME NEW n \in Nat, NEW f, FieldList(f, n), NEW lin \in Nat, NEW k \in 1 .. n
  PROVE  /\ 2^f[k][2] \in Nat \ {0}
         /\ Chunk(f, lin, k) \in 0 .. 2^f[k][2] - 1
<1>1. shift(f, k) \in Nat /\ f[k][2] \in Nat
  BY WidthFacts DEF FieldList
<1>2. PICK p \in Nat \ {0} : p = 2^shift(f, k)
  BY <1>1, PowPos
<1>3. PICK q \in Nat \ {0} : q = 2^f[k][2]
  BY <1>1, PowPos
<1>4. PICK a \in Nat, r \in 0 .. p - 1 : lin = a * p + r /\ a = lin \div p /\ r = lin % p
  BY DivMod
<1>5. PICK b \in Nat, s \in 0 .. q - 1 : a = b * q + s /\ b = a \div q /\ s = a % q
  BY DivMod
<1>6. Chunk(f, lin, k) = s
  BY <1>2, <1>3, <1>4, <1>5 DEF Chunk
<1> QED
  BY <1>3, <1>6

\* A coordinate in one piece is the digit of its field.
LEMMA OnePiece ==
  ASSUME NEW n \in Nat, NEW f, FieldList(f, n), NEW lin \in Nat, NEW k \in 1 .. n,
         Pieces(f, f[k][1]) = {k}
  PROVE  Coord(f, lin, f[k][1]) = Chunk(f, lin, k) /\ Back(f, lin, k) = Chunk(f, lin, k)
<1>1. in_field_shift(f, k) = 0
  <2>1. {j \in 1 .. k - 1 : f[j][1] = f[k][1]} = {}
    <3>1. \A j \in 1 .. k - 1 : j \in DOMAIN f /\ j # k
      BY DEF FieldList
    <3> QED
      BY <3>1 DEF Pieces
  <2>2. Width(f, {}) = 0
    BY WidthFacts
  <2> QED
    BY <2>1, <2>2 DEF in_field_shift
<1>2. PICK q, s : q = 2^f[k][2] /\ s = Chunk(f, lin, k)
  OBVIOUS
<1>3. q \in Nat \ {0} /\ s \in 0 .. q - 1
  BY <1>2, ChunkNat
<1>4. PICK g : g = [j \in {k} |-> Chunk(f, lin, j) * 2^in_field_shift(f, j)]
  OBVIOUS
<1>5. g[k] = s * 1
  BY <1>1, <1>2, <1>4, PowZero
<1>6. g[k] = s /\ g[k] \in Int
  BY <1>3, <1>5
<1>7. SumFunctionOnSet(g, {k}) = g[k]
  BY <1>6, SumOne
<1>8. Coord(f, lin, f[k][1]) = s
  BY <1>4, <1>6, <1>7 DEF Coord
<1>9. Back(f, lin, k) = (s \div 1) % q
  BY <1>1, <1>2, <1>8, PowZero DEF Back
<1>10. (s \div 1) % q = s
  <2>1. s \div 1 = s
    BY <1>3
  <2>2. s = 0 * q + s /\ s \in Nat
    BY <1>3
  <2>3. s % q = s
    BY <1>3, <2>2, DivUnique
  <2> QED
    BY <2>1, <2>3
<1> QED
  BY <1>2, <1>8, <1>9, <1>10

\* A coordinate in two pieces has the digits of both.
LEMMA TwoPieces ==
  ASSUME NEW n \in Nat, NEW f, FieldList(f, n), NEW lin \in Nat, NEW j \in 1 .. n, NEW k \in 1 .. n,
         j < k, f[j][1] = f[k][1], Pieces(f, f[k][1]) = {j, k}
  PROVE  Back(f, lin, j) = Chunk(f, lin, j) /\ Back(f, lin, k) = Chunk(f, lin, k)
<1>1. in_field_shift(f, j) = 0
  <2>1. {i \in 1 .. j - 1 : f[i][1] = f[j][1]} = {}
    <3>1. \A i \in 1 .. j - 1 : i \in DOMAIN f /\ i # j /\ i # k
      BY DEF FieldList
    <3> QED
      BY <3>1 DEF Pieces
  <2>2. Width(f, {}) = 0
    BY WidthFacts
  <2> QED
    BY <2>1, <2>2 DEF in_field_shift
<1>2. in_field_shift(f, k) = f[j][2]
  <2>1. {i \in 1 .. k - 1 : f[i][1] = f[k][1]} = {j}
    <3>1. \A i \in 1 .. k - 1 : i \in DOMAIN f /\ i # k
      BY DEF FieldList
    <3>2. j \in 1 .. k - 1
      OBVIOUS
    <3> QED
      BY <3>1, <3>2 DEF Pieces
  <2>2. Width(f, {j}) = f[j][2]
    BY WidthFacts
  <2> QED
    BY <2>1, <2>2 DEF in_field_shift
<1>3. PICK p, r : p = 2^f[j][2] /\ r = Chunk(f, lin, j)
  OBVIOUS
<1>4. PICK q, s : q = 2^f[k][2] /\ s = Chunk(f, lin, k)
  OBVIOUS
<1>5. p \in Nat \ {0} /\ r \in 0 .. p - 1 /\ q \in Nat \ {0} /\ s \in 0 .. q - 1
  BY <1>3, <1>4, ChunkNat
<1>6. PICK g : g = [i \in {j, k} |-> Chunk(f, lin, i) * 2^in_field_shift(f, i)]
  OBVIOUS
<1>7. g[j] = r * 1 /\ g[k] = s * p
  BY <1>1, <1>2, <1>3, <1>4, <1>6, PowZero
<1>8. g[j] = r /\ g[j] \in Int /\ g[k] \in Int
  BY <1>5, <1>7
<1>9. SumFunctionOnSet(g, {j, k}) = s * p + r
  <2>1. SumFunctionOnSet(g, {j}) = r
    BY <1>8, SumOne
  <2>2. PICK S : S = {j}
    OBVIOUS
  <2>3. IsFiniteSet(S)
    BY <2>2, FS_Singleton
  <2>4. k \notin S /\ \A y \in S \cup {k} : g[y] \in Int
    BY <1>8, <2>2
  <2>5. SumFunctionOnSet(g, S \cup {k}) = g[k] + SumFunctionOnSet(g, S)
    BY <2>3, <2>4, SumAdd
  <2>6. S \cup {k} = {j, k}
    BY <2>2
  <2> QED
    BY <1>7, <2>1, <2>2, <2>5, <2>6
<1>10. PICK v \in Nat : v = s * p + r
  BY <1>5
<1>11. Coord(f, lin, f[k][1]) = v
  BY <1>6, <1>9, <1>10 DEF Coord
<1>12. v \div p = s /\ v % p = r
  BY <1>5, <1>10, DivUnique
<1>13. Back(f, lin, j) = r
  <2>1. Back(f, lin, j) = (v \div 1) % p
    BY <1>1, <1>3, <1>11, PowZero DEF Back
  <2>2. v \div 1 = v
    OBVIOUS
  <2> QED
    BY <1>12, <2>1, <2>2
<1>14. Back(f, lin, k) = s
  <2>1. Back(f, lin, k) = (v \div p) % q
    BY <1>2, <1>3, <1>4, <1>11 DEF Back
  <2>2. s = 0 * q + s /\ s \in Nat
    BY <1>5
  <2>3. s % q = s
    BY <1>5, <2>2, DivUnique
  <2> QED
    BY <1>12, <2>1, <2>3
<1> QED
  BY <1>3, <1>4, <1>13, <1>14

\* Every coordinate is one field, or two.
Shaped(f, n) ==
    /\ FieldList(f, n)
    /\ \A k \in 1 .. n :
          /\ f[k][1] \in Coords
          /\ \/ Pieces(f, f[k][1]) = {k}
             \/ \E j \in 1 .. n : j < k /\ f[j][1] = f[k][1] /\ Pieces(f, f[k][1]) = {j, k}
             \/ \E j \in 1 .. n : k < j /\ f[j][1] = f[k][1] /\ Pieces(f, f[k][1]) = {k, j}

\* The coordinates of an index lead back to it.
LEMMA RoundTrip ==
  ASSUME NEW n \in Nat, NEW a, Shaped(a.fields, n), NEW lin \in Nat
  PROVE  inverse(a, map(a, lin)) = lin % 2^Width(a.fields, 1 .. n)
<1>1. PICK f : f = a.fields
  OBVIOUS
<1>2. FieldList(f, n) /\ \A k \in 1 .. n : f[k][1] \in Coords
  BY <1>1 DEF Shaped
<1>3. \A k \in 1 .. n : Back(f, lin, k) = Chunk(f, lin, k)
  <2> SUFFICES ASSUME NEW k \in 1 .. n PROVE Back(f, lin, k) = Chunk(f, lin, k)
    OBVIOUS
  <2>1. CASE Pieces(f, f[k][1]) = {k}
    BY <1>2, <2>1, OnePiece
  <2>2. ASSUME NEW j \in 1 .. n, j < k, f[j][1] = f[k][1], Pieces(f, f[k][1]) = {j, k}
        PROVE  Back(f, lin, k) = Chunk(f, lin, k)
    BY <1>2, <2>2, TwoPieces
  <2>3. ASSUME NEW j \in 1 .. n, k < j, f[j][1] = f[k][1], Pieces(f, f[k][1]) = {k, j}
        PROVE  Back(f, lin, k) = Chunk(f, lin, k)
    BY <1>2, <2>3, TwoPieces
  <2> QED
    BY <1>1, <2>1, <2>2, <2>3 DEF Shaped
<1>4. PICK x : x = map(a, lin)
  OBVIOUS
<1>5. /\ x.ch = Coord(f, lin, "ch") /\ x.bg = Coord(f, lin, "bg") /\ x.ba = Coord(f, lin, "ba")
      /\ x.row = Coord(f, lin, "ro") /\ x.col = Coord(f, lin, "co")
  BY <1>1, <1>4 DEF map, Coord, Chunk, Pieces
<1> DEFINE val(c) == CASE c = "ch" -> x.ch [] c = "bg" -> x.bg [] c = "ba" -> x.ba
                       [] c = "ro" -> x.row [] c = "co" -> x.col
           piece(k) == (val(f[k][1]) \div 2^in_field_shift(f, k)) % 2^f[k][2]
<1>6. \A k \in 1 .. n : val(f[k][1]) = Coord(f, lin, f[k][1])
  <2> SUFFICES ASSUME NEW c \in Coords PROVE val(c) = Coord(f, lin, c)
    BY <1>2
  <2>1. CASE c = "ch"
    BY <1>5, <2>1
  <2>2. CASE c = "bg"
    BY <1>5, <2>2
  <2>3. CASE c = "ba"
    BY <1>5, <2>3
  <2>4. CASE c = "ro"
    BY <1>5, <2>4
  <2>5. CASE c = "co"
    BY <1>5, <2>5
  <2> QED
    BY <2>1, <2>2, <2>3, <2>4, <2>5 DEF Coords
<1>7. \A k \in 1 .. n : piece(k) = Chunk(f, lin, k)
  BY <1>3, <1>6 DEF Back
<1>8. DOMAIN f = 1 .. n
  BY <1>2 DEF FieldList
<1>9. inverse(a, x) = SumFunctionOnSet([k \in 1 .. n |-> piece(k) * 2^shift(f, k)], 1 .. n)
  <2>1. inverse(a, x) = SumFunctionOnSet([k \in DOMAIN f |-> piece(k) * 2^shift(f, k)], DOMAIN f)
    BY <1>1, SMT DEF inverse
  <2> QED
    BY <1>8, <2>1, Zenon
<1>10. PICK g : g = [k \in 1 .. n |-> piece(k) * 2^shift(f, k)]
  OBVIOUS
<1>11. \A k \in 1 .. n : g[k] = Chunk(f, lin, k) * 2^shift(f, k)
  BY <1>7, <1>10
<1>12. SumFunctionOnSet(g, 1 .. n) = lin % 2^Width(f, 1 .. n)
  BY <1>2, <1>11, MixedRadix
<1> QED
  BY <1>1, <1>4, <1>9, <1>10, <1>12

-----------------------------------------------------------------------------
(* The fields of the maps *)

\* A power of two that divides another leaves one.
LEMMA QuotientPower ==
  ASSUME NEW x, is_pow2(x), NEW y, is_pow2(y), x % y = 0
  PROVE  is_pow2(x \div y) /\ x = (x \div y) * y
<1>1. PICK a \in 0 .. MaxExponent : x = 2^a
  BY DEF is_pow2
<1>2. PICK b \in 0 .. MaxExponent : y = 2^b
  BY DEF is_pow2
<1>3. a \in Nat /\ b \in Nat
  BY DEF MaxExponent
<1>4. x \in Nat \ {0} /\ y \in Nat \ {0}
  BY <1>1, <1>2, <1>3, PowPos
<1>5. PICK q \in Nat, r \in 0 .. y - 1 : x = q * y + r /\ q = x \div y /\ r = x % y
  BY <1>4, DivMod
<1>6. x = q * y /\ q # 0
  BY <1>4, <1>5
<1>7. CASE a < b
  <2>1. PICK d \in Nat : b = a + d /\ d # 0
    <3>1. b - a \in Nat /\ b = a + (b - a) /\ b - a # 0
      BY <1>3, <1>7
    <3> QED
      BY <3>1
  <2>2. PICK e \in Nat : d = e + 1
    <3>1. d - 1 \in Nat /\ d = (d - 1) + 1
      BY <2>1
    <3> QED
      BY <3>1
  <2>3. PICK z \in Nat \ {0} : z = 2^e
    BY PowPos
  <2>4. 2^d = 2 * z
    BY <2>2, <2>3, PowNext
  <2>5. y = x * (2 * z)
    <3>1. 2^(a + d) = 2^a * 2^d
      BY <1>3, <2>1, PowAdd
    <3> QED
      BY <1>1, <1>2, <2>1, <2>4, <3>1
  <2>6. PICK u \in Nat : z = u + 1
    <3>1. z - 1 \in Nat /\ z = (z - 1) + 1
      BY <2>3
    <3> QED
      BY <3>1
  <2>7. x * (2 * z) = 2 * x + 2 * (x * u) /\ x * u \in Nat
    BY <1>4, <2>6
  <2>8. y > x
    BY <1>4, <2>5, <2>7
  <2>9. PICK v \in Nat : q = v + 1
    <3>1. q - 1 \in Nat /\ q = (q - 1) + 1
      BY <1>6
    <3> QED
      BY <3>1
  <2>10. q * y = y + v * y /\ v * y \in Nat
    BY <1>4, <2>9
  <2> QED
    BY <1>4, <1>6, <2>8, <2>10
<1>8. CASE a >= b
  <2>1. PICK d \in 0 .. MaxExponent : a = b + d
    <3>1. a - b \in 0 .. MaxExponent /\ a = b + (a - b)
      BY <1>8 DEF MaxExponent
    <3> QED
      BY <3>1
  <2>2. d \in Nat
    BY DEF MaxExponent
  <2>3. PICK z \in Nat \ {0} : z = 2^d
    BY <2>2, PowPos
  <2>4. x = y * z
    BY <1>1, <1>2, <1>3, <2>1, <2>2, <2>3, PowAdd
  <2>5. x = z * y + 0 /\ 0 \in 0 .. y - 1 /\ x \in Nat
    BY <1>4, <2>4
  <2>6. PICK o \in 0 .. y - 1 : o = 0
    BY <2>5
  <2>7. x \div y = z
    BY <1>4, <2>5, <2>6, DivUnique
  <2> QED
    BY <1>5, <1>6, <2>3, <2>7 DEF is_pow2
<1> QED
  BY <1>3, <1>7, <1>8

\* Converting a size to bits loses nothing.
LEMMA Bits ==
  ASSUME NEW x, is_pow2(x)
  PROVE  bits(x) \in Nat /\ 2^bits(x) = x
<1>1. \E k \in 0 .. MaxExponent : 2^k = x
  BY DEF is_pow2
<1>2. bits(x) \in 0 .. MaxExponent /\ 2^bits(x) = x
  BY <1>1, Zenon DEF bits
<1> QED
  BY <1>2 DEF MaxExponent

\* The fields of the three maps.
Laid(f, scheme, g, ch, ba, bg, ro, co, lo) ==
    /\ 2^ro = g.rows_per_bank /\ 2^ba = g.banks_per_group /\ 2^bg = g.bank_groups
    /\ lo <= co
    /\ scheme = "host-centric" =>
         f = <<<<"co", co>>, <<"ch", ch>>, <<"ba", ba>>, <<"bg", bg>>, <<"ro", ro>>>>
    /\ scheme = "host-cacheline" =>
         f = <<<<"co", lo>>, <<"ch", ch>>, <<"ba", ba>>, <<"bg", bg>>,
               <<"co", co - lo>>, <<"ro", ro>>>>
    /\ scheme = "pim-friendly" =>
         f = <<<<"ba", ba>>, <<"bg", bg>>, <<"co", co>>, <<"ro", ro>>, <<"ch", ch>>>>

\* scheme_fields lays them out with numbers of bits that lose nothing.
LEMMA SchemeFields ==
  ASSUME NEW g, ValidGeometry(g), NEW scheme \in SCHEMES
  PROVE  \E ch, ba, bg, ro, co, lo \in Nat :
            Laid(scheme_fields(g, scheme), scheme, g, ch, ba, bg, ro, co, lo)
<1>1. /\ is_pow2(g.channels) /\ is_pow2(g.bank_groups) /\ is_pow2(g.banks_per_group)
      /\ is_pow2(g.row_bytes) /\ is_pow2(g.burst_bytes) /\ is_pow2(g.rows_per_bank)
      /\ is_pow2(g.cacheline_bytes)
      /\ g.row_bytes % g.burst_bytes = 0 /\ g.cacheline_bytes % g.burst_bytes = 0
  BY Zenon DEF ValidGeometry
<1>2. is_pow2(cols_per_row(g)) /\ is_pow2(g.cacheline_bytes \div g.burst_bytes)
  BY <1>1, QuotientPower DEF cols_per_row
<1>3. PICK ch \in Nat : ch = bits(g.channels)
  BY <1>1, Bits
<1>4. PICK bg \in Nat : bg = bits(g.bank_groups)
  BY <1>1, Bits
<1>5. PICK ba \in Nat : ba = bits(g.banks_per_group)
  BY <1>1, Bits
<1>6. PICK ro \in Nat : ro = bits(g.rows_per_bank)
  BY <1>1, Bits
<1>7. PICK co \in Nat : co = bits(cols_per_row(g))
  BY <1>2, Bits
<1>8. PICK cl \in Nat : cl = bits(g.cacheline_bytes \div g.burst_bytes)
  BY <1>2, Bits
<1>9. PICK lo : lo = Min({cl, co})
  OBVIOUS
<1>10. lo \in Nat /\ lo <= co
  <2>1. {cl, co} \subseteq Nat /\ {cl, co} # {}
    OBVIOUS
  <2>2. Min({cl, co}) \in {cl, co} /\ \A n \in {cl, co} : Min({cl, co}) <= n
    BY <2>1, NatMin
  <2> QED
    BY <1>9, <2>2
<1>11. 2^ro = g.rows_per_bank /\ 2^ba = g.banks_per_group /\ 2^bg = g.bank_groups
  BY <1>1, <1>4, <1>5, <1>6, Bits
<1>12. CASE scheme = "host-centric"
  <2>1. scheme_fields(g, scheme)
           = <<<<"co", co>>, <<"ch", ch>>, <<"ba", ba>>, <<"bg", bg>>, <<"ro", ro>>>>
    BY <1>3, <1>4, <1>5, <1>6, <1>7, <1>8, <1>9, <1>12 DEF scheme_fields
  <2>2. scheme # "host-cacheline" /\ scheme # "pim-friendly"
    BY <1>12
  <2> QED
    BY <1>10, <1>11, <2>1, <2>2 DEF Laid
<1>13. CASE scheme = "host-cacheline"
  <2>1. scheme_fields(g, scheme)
           = <<<<"co", lo>>, <<"ch", ch>>, <<"ba", ba>>, <<"bg", bg>>,
               <<"co", co - lo>>, <<"ro", ro>>>>
    BY <1>3, <1>4, <1>5, <1>6, <1>7, <1>8, <1>9, <1>13 DEF scheme_fields
  <2>2. scheme # "host-centric" /\ scheme # "pim-friendly"
    BY <1>13
  <2> QED
    BY <1>10, <1>11, <2>1, <2>2 DEF Laid
<1>14. CASE scheme = "pim-friendly"
  <2>1. scheme_fields(g, scheme)
           = <<<<"ba", ba>>, <<"bg", bg>>, <<"co", co>>, <<"ro", ro>>, <<"ch", ch>>>>
    BY <1>3, <1>4, <1>5, <1>6, <1>7, <1>8, <1>9, <1>14 DEF scheme_fields
  <2>2. scheme # "host-centric" /\ scheme # "host-cacheline"
    BY <1>14
  <2> QED
    BY <1>10, <1>11, <2>1, <2>2 DEF Laid
<1> QED
  BY <1>12, <1>13, <1>14 DEF SCHEMES

\* Five fields of five coordinates: each coordinate is in one piece.
LEMMA FiveFields ==
  ASSUME NEW f, NEW c1, NEW c2, NEW c3, NEW c4, NEW c5,
         {c1, c2, c3, c4, c5} \subseteq Coords,
         c1 # c2, c1 # c3, c1 # c4, c1 # c5, c2 # c3, c2 # c4, c2 # c5, c3 # c4, c3 # c5, c4 # c5,
         NEW w1 \in Nat, NEW w2 \in Nat, NEW w3 \in Nat, NEW w4 \in Nat, NEW w5 \in Nat,
         f = <<<<c1, w1>>, <<c2, w2>>, <<c3, w3>>, <<c4, w4>>, <<c5, w5>>>>
  PROVE  Shaped(f, 5) /\ \A k \in 1 .. 5 : Pieces(f, f[k][1]) = {k}
<1>1. DOMAIN f = 1 .. 5
  OBVIOUS
<1>2. /\ f[1][1] = c1 /\ f[2][1] = c2 /\ f[3][1] = c3 /\ f[4][1] = c4 /\ f[5][1] = c5
      /\ f[1][2] = w1 /\ f[2][2] = w2 /\ f[3][2] = w3 /\ f[4][2] = w4 /\ f[5][2] = w5
  OBVIOUS
<1>3. \A k \in 1 .. 5 : k = 1 \/ k = 2 \/ k = 3 \/ k = 4 \/ k = 5
  OBVIOUS
<1>4. FieldList(f, 5) /\ \A k \in 1 .. 5 : f[k][1] \in Coords
  BY <1>1, <1>2, <1>3 DEF FieldList
<1>5. \A j, k \in 1 .. 5 : f[j][1] = f[k][1] => j = k
  BY <1>2, <1>3
<1>6. \A k \in 1 .. 5 : Pieces(f, f[k][1]) = {k}
  BY <1>1, <1>5 DEF Pieces
<1> QED
  BY <1>4, <1>6 DEF Shaped

\* The column is cut in two.
LEMMA SixFields ==
  ASSUME NEW f, NEW w1 \in Nat, NEW w2 \in Nat, NEW w3 \in Nat, NEW w4 \in Nat, NEW w5 \in Nat,
         NEW w6 \in Nat,
         f = <<<<"co", w1>>, <<"ch", w2>>, <<"ba", w3>>, <<"bg", w4>>, <<"co", w5>>, <<"ro", w6>>>>
  PROVE  /\ Shaped(f, 6) /\ Pieces(f, "ro") = {6} /\ Pieces(f, "ba") = {3} /\ Pieces(f, "bg") = {4}
<1>1. DOMAIN f = 1 .. 6
  OBVIOUS
<1>2. /\ f[1][1] = "co" /\ f[2][1] = "ch" /\ f[3][1] = "ba" /\ f[4][1] = "bg" /\ f[5][1] = "co"
      /\ f[6][1] = "ro"
      /\ f[1][2] = w1 /\ f[2][2] = w2 /\ f[3][2] = w3 /\ f[4][2] = w4 /\ f[5][2] = w5 /\ f[6][2] = w6
  OBVIOUS
<1>3. \A k \in 1 .. 6 : k = 1 \/ k = 2 \/ k = 3 \/ k = 4 \/ k = 5 \/ k = 6
  OBVIOUS
<1>4. FieldList(f, 6) /\ \A k \in 1 .. 6 : f[k][1] \in Coords
  BY <1>1, <1>2, <1>3 DEF FieldList, Coords
<1>5. /\ Pieces(f, "ch") = {2} /\ Pieces(f, "ba") = {3} /\ Pieces(f, "bg") = {4}
      /\ Pieces(f, "ro") = {6}
  BY <1>1, <1>2, <1>3 DEF Pieces
<1>6. Pieces(f, "co") = {1, 5}
  BY <1>1, <1>2, <1>3 DEF Pieces
<1>7. PICK i \in 1 .. 6, j \in 1 .. 6 : i = 1 /\ j = 5
  OBVIOUS
<1>8. \A k \in 1 .. 6 :
         \/ Pieces(f, f[k][1]) = {k}
         \/ \E l \in 1 .. 6 : l < k /\ f[l][1] = f[k][1] /\ Pieces(f, f[k][1]) = {l, k}
         \/ \E l \in 1 .. 6 : k < l /\ f[l][1] = f[k][1] /\ Pieces(f, f[k][1]) = {k, l}
  <2>1. /\ i < j /\ f[i][1] = f[j][1] /\ Pieces(f, f[i][1]) = {i, j} /\ Pieces(f, f[j][1]) = {i, j}
    BY <1>2, <1>6, <1>7
  <2>2. \A k \in 1 .. 6 : k # i /\ k # j => Pieces(f, f[k][1]) = {k}
    BY <1>2, <1>3, <1>5, <1>7
  <2> HIDE DEF Pieces
  <2> QED
    BY <2>1, <2>2
<1> QED
  BY <1>4, <1>5, <1>8 DEF Shaped

\* The fields of the setup's map cover the region, and under the host maps the
\* row is the topmost.
LEMMA MapShape ==
  ASSUME setup \in Setups
  PROVE  \E n \in Nat \ {0} :
            /\ Shaped(am.fields, n)
            /\ 2^Width(am.fields, 1 .. n) = total_bursts(setup.geom)
            /\ setup.scheme # "pim-friendly" =>
                  /\ am.fields[n][1] = "ro" /\ Pieces(am.fields, "ro") = {n}
                  /\ 2^am.fields[n][2] = setup.geom.rows_per_bank
<1>1. PICK g, sc : g = setup.geom /\ sc = setup.scheme
  OBVIOUS
<1>2. ValidGeometry(g) /\ sc \in SCHEMES /\ FieldsCover(g, sc)
  BY <1>1, SetupsAssumption
<1>3. PICK f : f = scheme_fields(g, sc)
  OBVIOUS
<1>4. am.fields = f
  BY <1>1, <1>3 DEF am, address_map
<1>5. 2^Width(f, DOMAIN f) = total_bursts(g)
  BY <1>2, <1>3 DEF FieldsCover
<1>6. PICK ch, ba, bg, ro, co, lo \in Nat : Laid(f, sc, g, ch, ba, bg, ro, co, lo)
  BY <1>2, <1>3, SchemeFields
<1>7. {"co", "ch", "ba", "bg", "ro"} \subseteq Coords /\ {"ba", "bg", "co", "ro", "ch"} \subseteq Coords
  BY DEF Coords
<1>8. ASSUME NEW n \in Nat \ {0}, Shaped(f, n),
             sc # "pim-friendly" =>
                /\ f[n][1] = "ro" /\ Pieces(f, "ro") = {n} /\ 2^f[n][2] = g.rows_per_bank
      PROVE  \E k \in Nat \ {0} :
                /\ Shaped(am.fields, k)
                /\ 2^Width(am.fields, 1 .. k) = total_bursts(setup.geom)
                /\ setup.scheme # "pim-friendly" =>
                      /\ am.fields[k][1] = "ro" /\ Pieces(am.fields, "ro") = {k}
                      /\ 2^am.fields[k][2] = setup.geom.rows_per_bank
  <2>1. 2^Width(f, 1 .. n) = total_bursts(g)
    BY <1>5, <1>8 DEF Shaped, FieldList
  <2> QED
    BY <1>1, <1>4, <1>8, <2>1
<1>9. CASE sc = "host-centric"
  <2>1. f = <<<<"co", co>>, <<"ch", ch>>, <<"ba", ba>>, <<"bg", bg>>, <<"ro", ro>>>>
    BY <1>6, <1>9 DEF Laid
  <2>2. Shaped(f, 5) /\ \A k \in 1 .. 5 : Pieces(f, f[k][1]) = {k}
    BY <1>7, <2>1, FiveFields
  <2>3. f[5][1] = "ro" /\ f[5][2] = ro /\ 5 \in 1 .. 5
    BY <2>1
  <2>4. Pieces(f, "ro") = {5}
    BY <2>2, <2>3
  <2>5. 2^ro = g.rows_per_bank
    BY <1>6 DEF Laid
  <2>6. 2^f[5][2] = g.rows_per_bank
    BY <2>3, <2>5
  <2> QED
    BY <1>8, <2>2, <2>3, <2>4, <2>6
<1>10. CASE sc = "host-cacheline"
  <2>1. PICK hi \in Nat : hi = co - lo
    BY <1>6 DEF Laid
  <2>2. f = <<<<"co", lo>>, <<"ch", ch>>, <<"ba", ba>>, <<"bg", bg>>, <<"co", hi>>, <<"ro", ro>>>>
    BY <1>6, <1>10, <2>1 DEF Laid
  <2>3. Shaped(f, 6) /\ Pieces(f, "ro") = {6}
    BY <2>2, SixFields
  <2>4. f[6][1] = "ro" /\ f[6][2] = ro
    BY <2>2
  <2> QED
    BY <1>6, <1>8, <2>3, <2>4 DEF Laid
<1>11. CASE sc = "pim-friendly"
  <2>1. f = <<<<"ba", ba>>, <<"bg", bg>>, <<"co", co>>, <<"ro", ro>>, <<"ch", ch>>>>
    BY <1>6, <1>11 DEF Laid
  <2>2. Shaped(f, 5)
    BY <1>7, <2>1, FiveFields
  <2> QED
    BY <1>8, <1>11, <2>2
<1> QED
  BY <1>2, <1>9, <1>10, <1>11 DEF SCHEMES

\* The bank is one field, the bank group another, and neither is too wide.
LEMMA BankFields ==
  ASSUME setup \in Setups
  PROVE  \E n \in Nat, j, k \in Nat :
            /\ j \in 1 .. n /\ k \in 1 .. n /\ FieldList(am.fields, n)
            /\ am.fields[j][1] = "ba" /\ Pieces(am.fields, "ba") = {j}
            /\ 2^am.fields[j][2] = setup.geom.banks_per_group
            /\ am.fields[k][1] = "bg" /\ Pieces(am.fields, "bg") = {k}
            /\ 2^am.fields[k][2] = setup.geom.bank_groups
<1>1. PICK g, sc, f : g = setup.geom /\ sc = setup.scheme /\ f = scheme_fields(g, sc)
  OBVIOUS
<1>2. ValidGeometry(g) /\ sc \in SCHEMES
  BY <1>1, SetupsAssumption
<1>3. am.fields = f
  BY <1>1 DEF am, address_map
<1>4. PICK ch, ba, bg, ro, co, lo \in Nat : Laid(f, sc, g, ch, ba, bg, ro, co, lo)
  BY <1>1, <1>2, SchemeFields
<1>5. 2^ba = g.banks_per_group /\ 2^bg = g.bank_groups
  BY <1>4 DEF Laid
<1>6. {"co", "ch", "ba", "bg", "ro"} \subseteq Coords /\ {"ba", "bg", "co", "ro", "ch"} \subseteq Coords
  BY DEF Coords
<1>7. \E n \in Nat, j, k \in Nat :
         /\ j \in 1 .. n /\ k \in 1 .. n /\ Shaped(f, n)
         /\ f[j][1] = "ba" /\ Pieces(f, "ba") = {j} /\ f[j][2] = ba
         /\ f[k][1] = "bg" /\ Pieces(f, "bg") = {k} /\ f[k][2] = bg
  <2>1. CASE sc = "host-centric"
    <3>1. f = <<<<"co", co>>, <<"ch", ch>>, <<"ba", ba>>, <<"bg", bg>>, <<"ro", ro>>>>
      BY <1>4, <2>1 DEF Laid
    <3>2. Shaped(f, 5) /\ \A k \in 1 .. 5 : Pieces(f, f[k][1]) = {k}
      BY <1>6, <3>1, FiveFields
    <3>3. f[3] = <<"ba", ba>> /\ f[4] = <<"bg", bg>>
      BY <3>1
    <3>4. Pieces(f, "ba") = {3} /\ Pieces(f, "bg") = {4} /\ 3 \in 1 .. 5 /\ 4 \in 1 .. 5
      BY <3>2, <3>3
    <3>5. PICK n, j, k \in Nat : n = 5 /\ j = 3 /\ k = 4
      OBVIOUS
    <3> QED
      BY <3>2, <3>3, <3>4, <3>5
  <2>2. CASE sc = "host-cacheline"
    <3>1. PICK hi \in Nat : hi = co - lo
      BY <1>4 DEF Laid
    <3>2. f = <<<<"co", lo>>, <<"ch", ch>>, <<"ba", ba>>, <<"bg", bg>>, <<"co", hi>>, <<"ro", ro>>>>
      BY <1>4, <2>2, <3>1 DEF Laid
    <3>3. Shaped(f, 6) /\ Pieces(f, "ba") = {3} /\ Pieces(f, "bg") = {4}
      BY <3>2, SixFields
    <3>4. f[3] = <<"ba", ba>> /\ f[4] = <<"bg", bg>> /\ 3 \in 1 .. 6 /\ 4 \in 1 .. 6
      BY <3>2
    <3>5. PICK n, j, k \in Nat : n = 6 /\ j = 3 /\ k = 4
      OBVIOUS
    <3> QED
      BY <3>3, <3>4, <3>5
  <2>3. CASE sc = "pim-friendly"
    <3>1. f = <<<<"ba", ba>>, <<"bg", bg>>, <<"co", co>>, <<"ro", ro>>, <<"ch", ch>>>>
      BY <1>4, <2>3 DEF Laid
    <3>2. Shaped(f, 5) /\ \A k \in 1 .. 5 : Pieces(f, f[k][1]) = {k}
      BY <1>6, <3>1, FiveFields
    <3>3. f[1] = <<"ba", ba>> /\ f[2] = <<"bg", bg>>
      BY <3>1
    <3>4. Pieces(f, "ba") = {1} /\ Pieces(f, "bg") = {2} /\ 1 \in 1 .. 5 /\ 2 \in 1 .. 5
      BY <3>2, <3>3
    <3>5. PICK n, j, k \in Nat : n = 5 /\ j = 1 /\ k = 2
      OBVIOUS
    <3> QED
      BY <3>2, <3>3, <3>4, <3>5
  <2> QED
    BY <1>2, <2>1, <2>2, <2>3 DEF SCHEMES
<1> QED
  BY <1>1, <1>3, <1>5, <1>7 DEF Shaped

-----------------------------------------------------------------------------
(* The cells of a sequence *)

\* The pool fits the region.
LEMMA RegionFits ==
  ASSUME setup \in Setups
  PROVE  total_bursts(setup.geom) \in Nat \ {0} /\ setup.pool * bpb <= total_bursts(setup.geom)
<1>1. PICK n \in Nat \ {0} :
         Shaped(am.fields, n) /\ 2^Width(am.fields, 1 .. n) = total_bursts(setup.geom)
  BY MapShape
<1>2. PICK to : to = total_bursts(setup.geom)
  OBVIOUS
<1>3. to \in Nat \ {0}
  <2>1. FieldList(am.fields, n)
    BY <1>1 DEF Shaped
  <2>2. PICK f : f = am.fields
    OBVIOUS
  <2>3. 1 .. n \in SUBSET (1 .. n)
    OBVIOUS
  <2>4. Width(f, 1 .. n) \in Nat
    BY <2>1, <2>2, <2>3, WidthFacts
  <2> QED
    BY <1>1, <1>2, <2>2, <2>4, PowPos
<1>4. PICK po, bt, bb, q, kv : /\ po = setup.pool /\ bt = setup.block_tokens
                               /\ bb = setup.geom.burst_bytes /\ q = bpt
                               /\ kv = kv_bytes_per_token(setup.shape)
  OBVIOUS
<1>5. /\ po \in Nat \ {0} /\ bt \in Nat \ {0} /\ bb \in Nat \ {0} /\ q \in Nat \ {0}
      /\ bpb = bt * q /\ kv = q * bb
  BY <1>4, SetupFacts
<1>6. po * (bt * kv) <= to * bb
  BY <1>2, <1>4, SetupsAssumption DEF block_bytes
<1>7. PICK z \in Nat \ {0} : z = bt * q
  BY <1>5, Product
<1>8. bt * kv = z * bb
  BY <1>5, <1>7
<1>9. po * (z * bb) = (po * z) * bb /\ po * z \in Nat
  BY <1>5
<1>10. po * z <= to
  BY <1>3, <1>5, <1>6, <1>8, <1>9, Cancel
<1> QED
  BY <1>2, <1>3, <1>4, <1>5, <1>7, <1>10

\* Where the i-th burst lies: the entry of its block, its place in the block and
\* its linear index.
Entry(i) == ((i - 1) \div bpb) + 1
Place(i) == (i - 1) % bpb
Lin(i) == table[Entry(i)] * bpb + Place(i)

\* Every burst is looked up in the table and lies in the region.
LEMMA InTable ==
  ASSUME TableCovers
  PROVE  /\ setup \in Setups /\ length \in Nat \ {0} /\ bpb \in Nat \ {0}
         /\ length * bpt \in Nat \ {0}
         /\ DOMAIN bursts = 1 .. length * bpt
         /\ \A i \in 1 .. length * bpt :
               /\ Entry(i) \in DOMAIN table /\ table[Entry(i)] \in Pool /\ table[Entry(i)] \in Nat
               /\ Place(i) \in 0 .. bpb - 1
               /\ i - 1 = (Entry(i) - 1) * bpb + Place(i)
               /\ Lin(i) \in 0 .. total_bursts(setup.geom) - 1
               /\ bursts[i] = map(am, Lin(i))
<1>1. setup \in Setups
  BY DEF TableCovers
<1>2. PICK bt, q, b, po, to : /\ bt = setup.block_tokens /\ q = bpt /\ b = bpb /\ po = setup.pool
                              /\ to = total_bursts(setup.geom)
  OBVIOUS
<1>3. /\ bt \in Nat \ {0} /\ q \in Nat \ {0} /\ b \in Nat \ {0} /\ b = bt * q /\ po \in Nat \ {0}
      /\ setup.tokens \in Nat
  BY <1>1, <1>2, SetupFacts
<1>4. to \in Nat \ {0} /\ po * b <= to
  BY <1>1, <1>2, RegionFits
<1>5. length \in Nat \ {0}
  BY <1>3 DEF TableCovers
<1>6. PICK z \in Nat : z = Len(table) /\ DOMAIN table = 1 .. z /\ length <= z * bt
  <2>1. table \in Seq(Pool) /\ length <= Len(table) * bt
    BY <1>2 DEF TableCovers
  <2> QED
    BY <2>1
<1>7. PICK e \in Nat \ {0} : e = length * q
  BY <1>3, <1>5, Product
<1>8. e <= z * b
  <2>1. z * bt \in Nat
    BY <1>3
  <2>2. length * q <= (z * bt) * q
    BY <1>3, <1>5, <1>6, <2>1, Cancel
  <2>3. (z * bt) * q = z * b
    BY <1>3
  <2> QED
    BY <1>7, <2>2, <2>3
<1>9. /\ bursts = [i \in 1 .. e |-> map(am, table[((i - 1) \div bpb) + 1] * bpb + ((i - 1) % bpb))]
  BY <1>1, <1>2, <1>5, <1>7, BurstList
<1>10. DOMAIN bursts = 1 .. e /\ \A i \in 1 .. e : bursts[i] = map(am, Lin(i))
  <2>1. bursts = [i \in 1 .. e |-> map(am, Lin(i))]
    BY <1>9, Zenon DEF Lin, Entry, Place
  <2> HIDE DEF Lin
  <2> QED
    BY <2>1
<1>11. ASSUME NEW i \in 1 .. e
       PROVE  /\ Entry(i) \in DOMAIN table /\ table[Entry(i)] \in Pool /\ table[Entry(i)] \in Nat
              /\ Place(i) \in 0 .. b - 1
              /\ i - 1 = (Entry(i) - 1) * b + Place(i)
              /\ Lin(i) \in 0 .. to - 1
  <2>1. PICK x \in Nat : x = i - 1 /\ x < e
    BY <1>7
  <2>2. PICK d \in Nat, r \in 0 .. b - 1 : x = d * b + r /\ d = x \div b /\ r = x % b
    BY <1>3, DivMod
  <2>3. Entry(i) = d + 1 /\ Place(i) = r
    BY <1>2, <2>1, <2>2 DEF Entry, Place
  <2>4. d < z
    <3> SUFFICES ASSUME z <= d PROVE FALSE
      OBVIOUS
    <3>1. z * b <= d * b /\ z * b \in Nat /\ d * b \in Nat
      BY <1>3, Cancel
    <3> QED
      BY <1>7, <1>8, <2>1, <2>2, <3>1
  <2>5. Entry(i) \in 1 .. z
    BY <2>3, <2>4
  <2>6. PICK t : t = table[Entry(i)]
    OBVIOUS
  <2>7. t \in Pool
    BY <1>6, <2>5, <2>6 DEF TableCovers
  <2>8. t \in 0 .. po - 1
    BY <1>2, <2>7 DEF Pool
  <2>9. Lin(i) = t * b + r
    BY <1>2, <2>3, <2>6 DEF Lin
  <2>10. t * b + r \in 0 .. b * po - 1
    BY <1>3, <2>8, TwoDigits
  <2>11. b * po = po * b
    BY <1>3
  <2>12. t * b + r \in 0 .. to - 1
    BY <1>3, <1>4, <2>10, <2>11
  <2>13. Entry(i) - 1 = d
    BY <2>3
  <2>14. i - 1 = (Entry(i) - 1) * b + Place(i)
    BY <2>1, <2>2, <2>3, <2>13
  <2>15. Entry(i) \in DOMAIN table /\ table[Entry(i)] \in Pool /\ table[Entry(i)] \in Nat
    BY <1>6, <2>5, <2>6, <2>7, <2>8
  <2>16. Place(i) \in 0 .. b - 1
    BY <2>2, <2>3
  <2>17. Lin(i) \in 0 .. to - 1
    BY <2>9, <2>12
  <2> QED
    BY <2>14, <2>15, <2>16, <2>17
<1> QED
  BY <1>1, <1>2, <1>3, <1>5, <1>7, <1>10, <1>11

\* The coordinates of an index are numbers.
LEMMA CoordNat ==
  ASSUME NEW n \in Nat, NEW f, FieldList(f, n), NEW lin \in Nat, NEW c
  PROVE  Coord(f, lin, c) \in Nat
<1>1. PICK S : S = Pieces(f, c)
  OBVIOUS
<1>2. S \in SUBSET (1 .. n)
  BY <1>1 DEF Pieces, FieldList
<1>3. IsFiniteSet(S)
  <2>1. PICK o \in Int : o = 1
    OBVIOUS
  <2>2. IsFiniteSet(o .. n)
    BY FS_Interval
  <2> QED
    BY <1>2, <2>1, <2>2, FS_Subset
<1>4. PICK g : g = [k \in S |-> Chunk(f, lin, k) * 2^in_field_shift(f, k)]
  OBVIOUS
<1>5. \A k \in S : g[k] \in Nat
  <2> SUFFICES ASSUME NEW k \in S PROVE g[k] \in Nat
    OBVIOUS
  <2>1. k \in 1 .. n
    BY <1>2
  <2>2. PICK x \in Nat : x = Chunk(f, lin, k)
    <3>1. 2^f[k][2] \in Nat \ {0} /\ Chunk(f, lin, k) \in 0 .. 2^f[k][2] - 1
      BY <2>1, ChunkNat
    <3> QED
      BY <3>1
  <2>3. in_field_shift(f, k) \in Nat
    <3>1. PICK T : T = {j \in 1 .. k - 1 : f[j][1] = f[k][1]}
      OBVIOUS
    <3>2. T \in SUBSET (1 .. n)
      BY <2>1, <3>1
    <3>3. Width(f, T) \in Nat
      BY <3>2, WidthFacts
    <3> QED
      BY <3>1, <3>3 DEF in_field_shift
  <2>4. PICK y \in Nat : y = 2^in_field_shift(f, k)
    BY <2>3, PowPos
  <2>5. g[k] = x * y
    BY <1>4, <2>2, <2>4
  <2> QED
    BY <2>5
<1>6. SumFunctionOnSet(g, S) \in Nat
  BY <1>3, <1>5, SumNat
<1> QED
  BY <1>1, <1>4, <1>6 DEF Coord

\* Burst i is at the index it was read from, and its coordinates are numbers.
LEMMA BackToIndex ==
  ASSUME TableCovers, NEW i \in DOMAIN bursts
  PROVE  /\ inverse(am, bursts[i]) = Lin(i)
         /\ bursts[i].ch \in Nat /\ bursts[i].col \in Nat /\ bursts[i].row \in Nat
<1>1. /\ setup \in Setups /\ bursts[i] = map(am, Lin(i))
      /\ Lin(i) \in 0 .. total_bursts(setup.geom) - 1
  BY InTable
<1>2. PICK to, lin, a : to = total_bursts(setup.geom) /\ lin = Lin(i) /\ a = am
  OBVIOUS
<1>3. to \in Nat \ {0} /\ lin \in 0 .. to - 1 /\ lin \in Nat
  BY <1>1, <1>2, RegionFits
<1>4. PICK n \in Nat \ {0} : Shaped(a.fields, n) /\ 2^Width(a.fields, 1 .. n) = to
  BY <1>1, <1>2, MapShape
<1>5. inverse(a, map(a, lin)) = lin % to
  BY <1>3, <1>4, RoundTrip
<1>6. lin % to = lin
  <2>1. lin = 0 * to + lin
    BY <1>3
  <2> QED
    BY <1>3, <2>1, DivUnique
<1>7. PICK f : f = a.fields
  OBVIOUS
<1>8. FieldList(f, n)
  BY <1>4, <1>7 DEF Shaped
<1>9. PICK x : x = map(a, lin)
  OBVIOUS
<1>10. /\ x.ch = Coord(f, lin, "ch") /\ x.col = Coord(f, lin, "co") /\ x.row = Coord(f, lin, "ro")
  BY <1>7, <1>9 DEF map, Coord, Chunk, Pieces
<1>11. Coord(f, lin, "ch") \in Nat /\ Coord(f, lin, "co") \in Nat /\ Coord(f, lin, "ro") \in Nat
  BY <1>3, <1>8, CoordNat
<1> QED
  BY <1>1, <1>2, <1>5, <1>6, <1>9, <1>10, <1>11

\* A trace line names a cell.
LEMMA SameLine ==
  ASSUME NEW a, NEW x, NEW y, x.ch \in Nat, y.ch \in Nat, x.col \in Nat, y.col \in Nat,
         x.ch \div 2 = y.ch \div 2, x.ch % 2 = y.ch % 2, x.bg = y.bg, x.ba = y.ba, x.row = y.row,
         x.col * 8 = y.col * 8
  PROVE  inverse(a, x) = inverse(a, y)
<1>1. x.ch = y.ch /\ x.col = y.col
  OBVIOUS
<1> QED
  BY <1>1 DEF inverse

\* The cells of a covered sequence are distinct.
LEMMA CellsDistinctNow ==
  ASSUME TableCovers PROVE CellsDistinct
<1>1. PICK bs, lines : bs = bursts /\ lines = ramulator_trace(bursts)
  OBVIOUS
<1>2. \A i \in DOMAIN bs : inverse(am, bs[i]) = BlockOf(i) * bpb + ((i - 1) % bpb)
  <2> SUFFICES ASSUME NEW i \in DOMAIN bursts PROVE inverse(am, bursts[i]) = Lin(i)
    BY <1>1, Zenon DEF Lin, Entry, Place, BlockOf
  <2> QED
    BY BackToIndex
<1>3. ASSUME NEW i \in DOMAIN bs, NEW j \in DOMAIN bs, lines[i] = lines[j] PROVE i = j
  <2>1. PICK x, y : x = bs[i] /\ y = bs[j]
    OBVIOUS
  <2>2. /\ inverse(am, x) = Lin(i) /\ inverse(am, y) = Lin(j)
        /\ x.ch \in Nat /\ y.ch \in Nat /\ x.col \in Nat /\ y.col \in Nat
    BY <1>1, <2>1, BackToIndex
  <2>3. /\ lines[i] = <<x.ch \div 2, x.ch % 2, 0, x.bg, x.ba, x.row, x.col * 8>>
        /\ lines[j] = <<y.ch \div 2, y.ch % 2, 0, y.bg, y.ba, y.row, y.col * 8>>
    BY <1>1, <2>1 DEF ramulator_trace, HBM3_PSEUDOCHANNELS, HBM3_COLS_PER_BURST
  <2>4. /\ x.ch \div 2 = y.ch \div 2 /\ x.ch % 2 = y.ch % 2 /\ x.bg = y.bg /\ x.ba = y.ba
        /\ x.row = y.row /\ x.col * 8 = y.col * 8
    <3>1. /\ lines[i][1] = x.ch \div 2 /\ lines[i][2] = x.ch % 2 /\ lines[i][4] = x.bg
          /\ lines[i][5] = x.ba /\ lines[i][6] = x.row /\ lines[i][7] = x.col * 8
      BY <2>3
    <3>2. /\ lines[j][1] = y.ch \div 2 /\ lines[j][2] = y.ch % 2 /\ lines[j][4] = y.bg
          /\ lines[j][5] = y.ba /\ lines[j][6] = y.row /\ lines[j][7] = y.col * 8
      BY <2>3
    <3> QED
      BY <1>3, <3>1, <3>2
  <2>5. Lin(i) = Lin(j)
    <3>1. inverse(am, x) = inverse(am, y)
      BY <2>2, <2>4, SameLine
    <3> QED
      BY <2>2, <3>1
  <2>6. PICK b, t, u, r, s : /\ b = bpb /\ t = table[Entry(i)] /\ u = table[Entry(j)]
                             /\ r = Place(i) /\ s = Place(j)
    OBVIOUS
  <2>7. /\ b \in Nat \ {0} /\ t \in Nat /\ u \in Nat /\ r \in 0 .. b - 1 /\ s \in 0 .. b - 1
        /\ i - 1 = (Entry(i) - 1) * b + r /\ j - 1 = (Entry(j) - 1) * b + s
        /\ Entry(i) \in DOMAIN table /\ Entry(j) \in DOMAIN table
    BY <1>1, <2>6, InTable
  <2>8. PICK v \in Nat : v = t * b + r /\ v = u * b + s
    <3>1. t * b + r \in Nat
      BY <2>7
    <3> QED
      BY <2>5, <2>6, <3>1 DEF Lin
  <2>9. v \div b = t /\ v % b = r
    <3>1. v = t * b + r /\ t \in Nat /\ r \in 0 .. b - 1 /\ b \in Nat \ {0}
      BY <2>7, <2>8
    <3> QED
      BY <3>1, DivUnique
  <2>10. v \div b = u /\ v % b = s
    <3>1. v = u * b + s /\ u \in Nat /\ s \in 0 .. b - 1 /\ b \in Nat \ {0}
      BY <2>7, <2>8
    <3> QED
      BY <3>1, DivUnique
  <2>11. t = u /\ r = s
    BY <2>9, <2>10
  <2>12. Entry(i) = Entry(j)
    BY <2>6, <2>7, <2>11 DEF TableCovers
  <2>13. i - 1 = j - 1
    BY <2>7, <2>11, <2>12
  <2>14. i \in Int /\ j \in Int
    BY <1>1, InTable
  <2> QED
    BY <2>13, <2>14
<1> QED
  BY <1>1, <1>2, <1>3, Zenon DEF CellsDistinct

\* No two bursts of a sequence are in one cell, and the trace tells which is where.
THEOREM MeasureCellsDistinct == Spec => []CellsDistinct
<1>1. TableCovers => CellsDistinct
  BY CellsDistinctNow
<1> QED
  BY <1>1, MeasuredTableCovers, PTL

-----------------------------------------------------------------------------
(* Frames are rows *)

\* The blocks of a frame hold as many bursts as one row of all banks and channels.
LEMMA FrameBursts ==
  ASSUME setup \in Setups,
         block_bytes(setup.shape, setup.block_tokens) <= frame_bytes(setup.geom)
  PROVE  /\ frame_blocks \in Nat \ {0}
         /\ setup.geom.rows_per_bank \in Nat \ {0}
         /\ total_bursts(setup.geom) = (frame_blocks * bpb) * setup.geom.rows_per_bank
<1>1. PICK g : g = setup.geom
  OBVIOUS
<1>2. /\ is_pow2(g.channels) /\ is_pow2(g.bank_groups) /\ is_pow2(g.banks_per_group)
      /\ is_pow2(g.row_bytes) /\ is_pow2(g.burst_bytes) /\ is_pow2(g.rows_per_bank)
      /\ g.row_bytes % g.burst_bytes = 0
  BY <1>1, SetupsAssumption, Zenon DEF ValidGeometry
<1>3. PICK ch, bg, ba, rb, bb, ro, co :
         /\ ch = g.channels /\ bg = g.bank_groups /\ ba = g.banks_per_group /\ rb = g.row_bytes
         /\ bb = g.burst_bytes /\ ro = g.rows_per_bank /\ co = cols_per_row(g)
  OBVIOUS
<1>4. is_pow2(co) /\ rb = co * bb
  BY <1>2, <1>3, QuotientPower DEF cols_per_row
<1>5. /\ ch \in Nat \ {0} /\ bg \in Nat \ {0} /\ ba \in Nat \ {0} /\ bb \in Nat \ {0}
      /\ ro \in Nat \ {0} /\ co \in Nat \ {0}
  BY <1>2, <1>3, <1>4, PowerOfTwo
<1>6. PICK k \in Nat \ {0} : k = bg * ba
  BY <1>5, Product
<1>7. PICK p \in Nat \ {0} : p = k * ch
  BY <1>5, Product
<1>8. PICK u \in Nat \ {0} : u = co * p
  BY <1>5, Product
<1>9. total_bursts(g) = ch * k * ro * co
  BY <1>3, <1>6 DEF total_bursts, banks_per_channel
<1>10. ch * k * ro * co = u * ro
  <2>1. ch * k = p
    BY <1>5, <1>7
  <2>2. p * ro * co = (co * p) * ro
    BY <1>5
  <2> QED
    BY <1>8, <2>1, <2>2
<1>11. frame_bytes(g) = ((co * bb) * k) * ch
  BY <1>3, <1>4, <1>6 DEF frame_bytes, rowgroup_bytes, banks_per_channel
<1>12. ((co * bb) * k) * ch = u * bb
  <2>1. ((co * bb) * k) * ch = (co * bb) * (k * ch)
    BY <1>5, <1>6
  <2>2. (co * bb) * p = (co * p) * bb
    BY <1>5, <1>7
  <2> QED
    BY <1>7, <1>8, <2>1, <2>2
<1>13. PICK bt, q, kv, b : /\ bt = setup.block_tokens /\ q = bpt /\ b = bpb
                           /\ kv = kv_bytes_per_token(setup.shape)
  OBVIOUS
<1>14. bt \in Nat \ {0} /\ q \in Nat \ {0} /\ b \in Nat \ {0} /\ b = bt * q /\ kv = q * bb
  BY <1>1, <1>3, <1>13, SetupFacts
<1>15. PICK by : by = block_bytes(setup.shape, setup.block_tokens)
  OBVIOUS
<1>16. by = b * bb
  <2>1. by = bt * kv
    BY <1>13, <1>15 DEF block_bytes
  <2>2. bt * (q * bb) = (bt * q) * bb
    BY <1>5, <1>14
  <2> QED
    BY <1>14, <2>1, <2>2
<1>17. PICK fy : fy = frame_bytes(g)
  OBVIOUS
<1>18. fy = u * bb /\ fy \in Nat \ {0} /\ by \in Nat \ {0} /\ by <= fy
  BY <1>1, <1>5, <1>8, <1>11, <1>12, <1>14, <1>15, <1>16, <1>17, Product
<1>19. PICK fb : fb = frame_blocks
  OBVIOUS
<1>20. fb \in Nat \ {0} /\ u = fb * b
  <2>1. CASE by >= fy
    <3>1. fb = 1
      BY <1>1, <1>15, <1>17, <1>19, <2>1 DEF frame_blocks, frame_blocks_for
    <3>2. u * bb = b * bb
      BY <1>16, <1>18, <2>1
    <3>3. u = b
      BY <1>5, <1>14, <3>2, Cancel
    <3> QED
      BY <1>14, <3>1, <3>3
  <2>2. CASE by < fy
    <3>1. ~(by >= fy)
      BY <1>18, <2>2
    <3>2. fb = fy \div by
      BY <1>1, <1>15, <1>17, <1>19, <3>1 DEF frame_blocks, frame_blocks_for
    <3>3. fy % by = 0
      BY <1>1, <1>15, <1>17, <3>1, SetupsAssumption DEF Framed
    <3>4. PICK d \in Nat, r \in 0 .. by - 1 : fy = d * by + r /\ d = fy \div by /\ r = fy % by
      BY <1>18, DivMod
    <3>5. fb = d /\ fy = d * by /\ d # 0
      BY <1>18, <3>2, <3>3, <3>4
    <3>6. d * (b * bb) = (d * b) * bb /\ d * b \in Nat
      BY <1>5, <1>14
    <3>7. u * bb = (d * b) * bb
      BY <1>16, <1>18, <3>5, <3>6
    <3>8. u = d * b
      BY <1>5, <3>6, <3>7, Cancel
    <3> QED
      BY <3>5, <3>8
  <2> QED
    BY <1>18, <2>1, <2>2
<1> QED
  BY <1>1, <1>3, <1>5, <1>9, <1>10, <1>13, <1>19, <1>20

\* Under the host maps the row of a burst is the frame of its block.
LEMMA RowIsFrame ==
  ASSUME TableCovers, setup.scheme # "pim-friendly",
         block_bytes(setup.shape, setup.block_tokens) <= frame_bytes(setup.geom),
         NEW i \in DOMAIN bursts
  PROVE  bursts[i].row = BlockOf(i) \div frame_blocks
<1>1. /\ setup \in Setups /\ bursts[i] = map(am, Lin(i)) /\ bpb \in Nat \ {0}
      /\ Lin(i) \in 0 .. total_bursts(setup.geom) - 1
      /\ table[Entry(i)] \in Nat /\ Place(i) \in 0 .. bpb - 1
  BY InTable
<1>2. PICK to, lin, a, fb, b, ro, t, o :
         /\ to = total_bursts(setup.geom) /\ lin = Lin(i) /\ a = am /\ fb = frame_blocks /\ b = bpb
         /\ ro = setup.geom.rows_per_bank /\ t = table[Entry(i)] /\ o = Place(i)
  OBVIOUS
<1>3. /\ to \in Nat \ {0} /\ lin \in 0 .. to - 1 /\ lin \in Nat /\ b \in Nat \ {0}
      /\ t \in Nat /\ o \in 0 .. b - 1 /\ lin = t * b + o
  BY <1>1, <1>2, RegionFits DEF Lin
<1>4. fb \in Nat \ {0} /\ ro \in Nat \ {0} /\ to = (fb * b) * ro
  BY <1>1, <1>2, FrameBursts
<1>5. PICK n \in Nat \ {0} :
         /\ Shaped(a.fields, n) /\ 2^Width(a.fields, 1 .. n) = to
         /\ a.fields[n][1] = "ro" /\ Pieces(a.fields, "ro") = {n} /\ 2^a.fields[n][2] = ro
  BY <1>1, <1>2, MapShape
<1>6. PICK f : f = a.fields
  OBVIOUS
<1>7. FieldList(f, n) /\ n \in 1 .. n /\ f[n][2] \in Nat
  BY <1>5, <1>6 DEF Shaped, FieldList
<1>8. PICK u \in Nat \ {0} : u = fb * b
  BY <1>3, <1>4, Product
<1>9. 2^shift(f, n) = u
  <2>1. shift(f, n) \in Nat /\ Width(f, 1 .. n) = shift(f, n) + f[n][2]
    BY <1>7, WidthFacts
  <2>2. PICK v \in Nat \ {0} : v = 2^shift(f, n)
    BY <2>1, PowPos
  <2>3. 2^(shift(f, n) + f[n][2]) = v * ro
    BY <1>5, <1>6, <1>7, <2>1, <2>2, PowAdd
  <2>4. v * ro = u * ro
    BY <1>4, <1>5, <1>6, <1>8, <2>1, <2>3
  <2>5. v = u
    BY <1>4, <2>4, Cancel
  <2> QED
    BY <2>2, <2>5
<1>10. Coord(f, lin, "ro") = Chunk(f, lin, n)
  BY <1>3, <1>5, <1>6, <1>7, OnePiece
<1>11. map(a, lin).row = Coord(f, lin, "ro")
  BY <1>6 DEF map, Coord, Chunk, Pieces
<1>12. Chunk(f, lin, n) = (lin \div u) % ro
  BY <1>5, <1>6, <1>9 DEF Chunk
<1>13. lin \div u = t \div fb
  <2>1. lin \div b = t
    BY <1>3, DivUnique
  <2>2. b * fb = u
    BY <1>3, <1>4, <1>8
  <2>3. lin \div u = (lin \div b) \div fb
    <3>1. lin \in Nat /\ b \in Nat \ {0} /\ fb \in Nat \ {0} /\ u = b * fb
      BY <1>3, <1>4, <2>2
    <3>2. InDigits(lin, b, fb, u)
      BY <3>1, ModProduct
    <3> QED
      BY <3>2 DEF InDigits
  <2> QED
    BY <2>1, <2>3
<1>14. (lin \div u) % ro = lin \div u
  <2>1. PICK d \in Nat, r \in 0 .. u - 1 : lin = d * u + r /\ d = lin \div u /\ r = lin % u
    BY <1>3, DivMod
  <2>2. d < ro
    <3> SUFFICES ASSUME ro <= d PROVE FALSE
      BY <1>4
    <3>1. ro * u <= d * u /\ ro * u \in Nat /\ d * u \in Nat
      BY <1>4, Cancel
    <3>2. to = ro * u
      BY <1>4, <1>8
    <3> QED
      BY <1>3, <2>1, <3>1, <3>2
  <2>3. d \in 0 .. ro - 1 /\ d = 0 * ro + d
    BY <1>4, <2>2
  <2>4. d % ro = d
    BY <1>4, <2>3, DivUnique
  <2> QED
    BY <2>1, <2>4
<1>15. BlockOf(i) = t
  BY <1>2 DEF BlockOf, Entry
<1> QED
  BY <1>1, <1>2, <1>10, <1>11, <1>12, <1>13, <1>14, <1>15

-----------------------------------------------------------------------------
(* Windows and misses *)

\* The number of windows of a list.
LEMMA CeilFacts ==
  ASSUME NEW z \in Nat, NEW w \in Nat \ {0}
  PROVE  /\ ceil_div(z, w) \in Nat
         /\ \A k \in 1 .. ceil_div(z, w) : (k - 1) * w \in Nat /\ (k - 1) * w < z
         /\ \A n \in Nat : z <= n * w => ceil_div(z, w) <= n
<1>1. PICK y \in Nat : y = z + w - 1
  OBVIOUS
<1>2. PICK d \in Nat, r \in 0 .. w - 1 : y = d * w + r /\ d = y \div w /\ r = y % w
  BY DivMod
<1>3. ceil_div(z, w) = d
  BY <1>1, <1>2 DEF ceil_div
<1>4. ASSUME NEW k \in 1 .. d PROVE (k - 1) * w \in Nat /\ (k - 1) * w < z
  <2>1. PICK j \in Nat, e \in Nat : j = k - 1 /\ d = j + 1 + e
    <3>1. k - 1 \in Nat /\ d - k \in Nat /\ d = (k - 1) + 1 + (d - k)
      BY <1>4
    <3> QED
      BY <3>1
  <2>2. d * w = j * w + w + e * w /\ j * w \in Nat /\ e * w \in Nat
    BY <2>1
  <2> QED
    BY <1>1, <1>2, <2>1, <2>2
<1>5. ASSUME NEW n \in Nat, z <= n * w PROVE d <= n
  <2> SUFFICES ASSUME n < d PROVE FALSE
    OBVIOUS
  <2>1. PICK e \in Nat : d = n + 1 + e
    <3>1. d - n - 1 \in Nat /\ d = n + 1 + (d - n - 1)
      OBVIOUS
    <3> QED
      BY <3>1
  <2>2. d * w = n * w + w + e * w /\ n * w \in Nat /\ e * w \in Nat
    BY <2>1
  <2> QED
    BY <1>1, <1>2, <1>5, <2>2
<1> QED
  BY <1>3, <1>4, <1>5

\* A window is a stretch of the list, and is not empty.
Stretch(R, s, w, k) ==
    \E n \in Nat \ {0} :
        /\ n = Min({k * w, Len(s)}) - (k - 1) * w
        /\ Windows(s, w)[k] \in Seq(R) /\ Len(Windows(s, w)[k]) = n
        /\ \A j \in 1 .. n : /\ (k - 1) * w + j \in 1 .. Len(s)
                             /\ Windows(s, w)[k][j] = s[(k - 1) * w + j]

\* Windows cuts the list into such stretches.
LEMMA WindowStretch ==
  ASSUME NEW R, NEW s \in Seq(R), NEW w \in Nat \ {0}, NEW k \in 1 .. ceil_div(Len(s), w)
  PROVE  Stretch(R, s, w, k)
<1>1. PICK z \in Nat : z = Len(s)
  OBVIOUS
<1>2. ceil_div(z, w) \in Nat /\ (k - 1) * w \in Nat /\ (k - 1) * w < z
  BY <1>1, CeilFacts
<1>3. PICK j \in Nat : j = k - 1
  BY <1>1, <1>2
<1>4. PICK a \in Nat, c \in Nat : a = j * w /\ c = k * w
  BY <1>3
<1>5. c = a + w
  BY <1>3, <1>4
<1>6. PICK e : e = Min({k * w, z})
  OBVIOUS
<1>7. e \in {c, z} /\ e <= c /\ e <= z
  <2>1. {c, z} \subseteq Nat /\ {c, z} # {}
    OBVIOUS
  <2>2. Min({c, z}) \in {c, z} /\ \A n \in {c, z} : Min({c, z}) <= n
    BY <2>1, NatMin
  <2> QED
    BY <1>4, <1>6, <2>2
<1>8. a < z /\ a = (k - 1) * w
  BY <1>2, <1>3, <1>4
<1>9. PICK b \in Nat \ {0} : b = a + 1
  OBVIOUS
<1>10. Windows(s, w)[k] = SubSeq(s, b, e)
  BY <1>1, <1>6, <1>8, <1>9, Zenon DEF Windows
<1>11. PICK n \in Nat \ {0} : n = e - a
  BY <1>5, <1>7, <1>8
<1>12. PICK v : v = SubSeq(s, b, e)
  OBVIOUS
<1>13. v \in Seq(R) /\ Len(v) = n /\ \A i \in 1 .. n : a + i \in 1 .. z /\ v[i] = s[a + i]
  <2>1. v = [i \in 1 .. (1 + e - b) |-> s[i + b - 1]]
    BY <1>7, <1>12
  <2>2. 1 + e - b = n
    BY <1>7, <1>9, <1>11
  <2>3. \A i \in 1 .. n : a + i \in 1 .. z /\ i + b - 1 = a + i
    BY <1>7, <1>9, <1>11
  <2>4. \A i \in 1 .. n : v[i] = s[a + i] /\ s[a + i] \in R
    <3> SUFFICES ASSUME NEW i \in 1 .. n PROVE v[i] = s[a + i] /\ s[a + i] \in R
      OBVIOUS
    <3>1. v[i] = s[i + b - 1]
      BY <2>1, <2>2
    <3>2. PICK x \in 1 .. z : x = a + i
      BY <2>3
    <3>3. s[x] \in R
      BY <1>1
    <3> QED
      BY <2>3, <3>1, <3>2, <3>3
  <2>5. v \in [1 .. n -> R]
    BY <2>1, <2>2, <2>4
  <2>6. v \in Seq(R) /\ Len(v) = n
    BY <2>5
  <2> QED
    BY <2>3, <2>4, <2>6, Zenon
<1> QED
  BY <1>1, <1>6, <1>8, <1>10, <1>11, <1>12, <1>13 DEF Stretch

\* Every burst of the list is in a window.
InSome(s, w, i) ==
    \E k \in 1 .. ceil_div(Len(s), w) :
        \E j \in 1 .. Len(Windows(s, w)[k]) : Windows(s, w)[k][j] = s[i]

\* The window of burst i is the one its index divides into.
LEMMA WindowOf ==
  ASSUME NEW R, NEW s \in Seq(R), NEW w \in Nat \ {0}, NEW i \in 1 .. Len(s)
  PROVE  InSome(s, w, i)
<1>1. PICK z \in Nat : z = Len(s)
  OBVIOUS
<1>2. PICK x \in Nat : x = i - 1 /\ x < z
  BY <1>1
<1>3. PICK d \in Nat, r \in 0 .. w - 1 : x = d * w + r /\ d = x \div w /\ r = x % w
  BY DivMod
<1>4. PICK y \in Nat : y = z + w - 1
  BY <1>1
<1>5. PICK c \in Nat, t \in 0 .. w - 1 : y = c * w + t /\ c = y \div w /\ t = y % w
  BY DivMod
<1>6. ceil_div(z, w) = c
  BY <1>4, <1>5 DEF ceil_div
<1>7. d < c
  <2> SUFFICES ASSUME c <= d PROVE FALSE
    OBVIOUS
  <2>1. PICK cw \in Nat, dw \in Nat : cw = c * w /\ dw = d * w
    OBVIOUS
  <2>2. cw <= dw
    BY <2>1, Cancel
  <2>3. y = cw + t /\ x = dw + r
    BY <1>3, <1>5, <2>1
  <2> QED
    BY <1>2, <1>4, <2>2, <2>3
<1>8. PICK k \in 1 .. c : k = d + 1
  BY <1>7
<1>9. PICK ws : ws = Windows(s, w)
  OBVIOUS
<1>10. PICK n \in Nat \ {0} :
         /\ n = Min({k * w, z}) - (k - 1) * w /\ Len(ws[k]) = n
         /\ \A j \in 1 .. n : ws[k][j] = s[(k - 1) * w + j]
  <2>1. k \in 1 .. ceil_div(Len(s), w)
    BY <1>1, <1>6
  <2>2. Stretch(R, s, w, k)
    BY <2>1, WindowStretch
  <2> QED
    BY <1>1, <1>9, <2>2, Zenon DEF Stretch
<1>11. PICK a \in Nat : a = d * w
  OBVIOUS
<1>12. (k - 1) * w = a /\ k * w = a + w /\ x = a + r
  <2>1. k - 1 = d /\ k = d + 1 /\ (d + 1) * w = d * w + w
    BY <1>8
  <2> QED
    BY <1>3, <1>11, <2>1
<1>13. r + 1 \in 1 .. n
  <2>1. {k * w, z} \subseteq Nat /\ {k * w, z} # {}
    BY <1>8
  <2>2. PICK e : e = Min({k * w, z})
    OBVIOUS
  <2>3. e \in {k * w, z}
    BY <2>1, <2>2, NatMin
  <2>4. e = a + w \/ e = z
    BY <1>12, <2>3
  <2>5. n = e - a
    BY <1>10, <1>12, <2>2
  <2> QED
    <3>1. x < z /\ x = a + r
      BY <1>2, <1>12
    <3> QED
      BY <2>4, <2>5, <3>1
<1>14. (k - 1) * w + (r + 1) = i
  <2>1. a + (r + 1) = i
    <3>1. x = i - 1 /\ x = a + r
      BY <1>2, <1>12
    <3> QED
      BY <3>1
  <2> QED
    BY <1>12, <2>1
<1>15. ws[k][r + 1] = s[i]
  BY <1>10, <1>13, <1>14
<1> QED
  BY <1>1, <1>6, <1>9, <1>10, <1>13, <1>15 DEF InSome

\* The rows of a list are finite in number; a window needs a number of commands.
LEMMA RowsFinite ==
  ASSUME NEW n \in Nat, NEW win, DOMAIN win = 1 .. n
  PROVE  IsFiniteSet(RowsRead(win)) /\ row_cmds(win) \in Nat
<1>1. IsFiniteSet(1 .. n)
  BY UpTo
<1>2. PICK T, R : T = 1 .. n /\ R = RowsRead(win)
  OBVIOUS
<1>3. PICK g : g = [i \in T |-> win[i].row]
  OBVIOUS
<1>4. g \in Surjection(T, R)
  BY <1>2, <1>3 DEF Surjection, RowsRead
<1>5. IsFiniteSet(R)
  BY <1>1, <1>2, <1>4, FS_Surjection
<1>6. PICK h : h = [r \in R |-> busiest(win, r)]
  OBVIOUS
<1>7. \A r \in R : h[r] \in Nat
  <2> SUFFICES ASSUME NEW r \in R PROVE h[r] \in Nat
    OBVIOUS
  <2>1. PICK b \in 1 .. n : busiest(win, r) = Cardinality(Mates(win, b))
    BY <1>2, Busiest
  <2>2. Cardinality(Mates(win, b)) \in 0 .. n
    BY MatesFinite
  <2>3. h[r] = busiest(win, r)
    BY <1>6
  <2> QED
    BY <2>1, <2>2, <2>3
<1>8. SumFunctionOnSet(h, R) \in Nat
  BY <1>5, <1>7, SumNat
<1> QED
  BY <1>2, <1>5, <1>6, <1>8 DEF row_cmds

\* The misses of a window: its rows but the one already open.
Opened(ws) == [k \in DOMAIN ws |-> Cardinality(RowsRead(ws[k]) \ {carry(ws, k)})]

\* The misses of a channel are those of its windows.
LEMMA MissesSum ==
  ASSUME NEW R, NEW s \in Seq(R), setup.window \in Nat \ {0}
  PROVE  LET ws == Windows(s, setup.window)
         IN  RowOpens(s) = SumFunctionOnSet(Opened(ws), DOMAIN ws)
<1>1. PICK w : w = setup.window
  OBVIOUS
<1>2. PICK ws : ws = Windows(s, w)
  OBVIOUS
<1>3. PICK n \in Nat : n = ceil_div(Len(s), w)
  <2>1. Len(s) \in Nat /\ w \in Nat \ {0}
    BY <1>1
  <2>2. ceil_div(Len(s), w) \in Nat
    BY <2>1, CeilFacts
  <2> QED
    BY <2>2
<1>4. DOMAIN ws = 1 .. n
  BY <1>2, <1>3 DEF Windows
<1>5. IsFiniteSet(1 .. n)
  BY UpTo
<1>6. \A k \in 1 .. n : IsFiniteSet(RowsRead(ws[k])) /\ row_cmds(ws[k]) \in Nat
  <2> SUFFICES ASSUME NEW k \in 1 .. n
               PROVE  IsFiniteSet(RowsRead(ws[k])) /\ row_cmds(ws[k]) \in Nat
    OBVIOUS
  <2>1. PICK l \in Nat : DOMAIN ws[k] = 1 .. l
    BY <1>1, <1>2, <1>4, WindowList
  <2>2. PICK win : win = ws[k]
    OBVIOUS
  <2>3. IsFiniteSet(RowsRead(win)) /\ row_cmds(win) \in Nat
    BY <2>1, <2>2, RowsFinite
  <2> QED
    BY <2>2, <2>3
<1>7. PICK c, o : c = [k \in DOMAIN ws |-> row_cmds(ws[k])] /\ o = Opened(ws)
  OBVIOUS
<1>8. \A k \in 1 .. n : c[k] \in Nat /\ o[k] \in Nat
  <2> SUFFICES ASSUME NEW k \in 1 .. n PROVE c[k] \in Nat /\ o[k] \in Nat
    OBVIOUS
  <2>1. c[k] \in Nat
    BY <1>4, <1>6, <1>7
  <2>2. PICK S, r : S = RowsRead(ws[k]) /\ r = carry(ws, k)
    OBVIOUS
  <2>3. IsFiniteSet(S)
    BY <1>6, <2>2
  <2>4. IsFiniteSet(S \ {r})
    BY <2>3, FS_RemoveElement
  <2>5. Cardinality(S \ {r}) \in Nat
    BY <2>4, FS_CardinalityType
  <2>6. o[k] = Cardinality(S \ {r})
    BY <1>4, <1>7, <2>2 DEF Opened
  <2> QED
    BY <2>1, <2>5, <2>6
<1>9. PICK D : D = DOMAIN ws
  OBVIOUS
<1>10. SumFunctionOnSet(c, D) \in Nat /\ SumFunctionOnSet(o, D) \in Nat
  BY <1>4, <1>5, <1>8, <1>9, SumNat
<1>11. /\ row_window(s, w).cmds = SumFunctionOnSet(c, D)
       /\ row_window(s, w).hits = SumFunctionOnSet(c, D) - SumFunctionOnSet(o, D)
  BY <1>2, <1>7, <1>9 DEF row_window, Opened
<1>12. RowOpens(s) = SumFunctionOnSet(c, D) - (SumFunctionOnSet(c, D) - SumFunctionOnSet(o, D))
  BY <1>1, <1>11 DEF RowOpens
<1>13. RowOpens(s) = SumFunctionOnSet(o, D)
  BY <1>10, <1>12
<1> QED
  BY <1>1, <1>2, <1>7, <1>9, <1>13

\* Row r is in window k and in none before it.
FirstIn(ws, r, k) ==
    /\ k \in DOMAIN ws /\ r \in RowsRead(ws[k])
    /\ \A j \in DOMAIN ws : r \in RowsRead(ws[j]) => k <= j

\* Facts about the windows of a channel's list.
WindowRows(s, ws, n) ==
    /\ DOMAIN ws = 1 .. n
    /\ \A k \in 1 .. n : /\ IsFiniteSet(RowsRead(ws[k]))
                         /\ Last(ws[k]).row \in RowsRead(ws[k])
                         /\ RowsRead(ws[k]) \subseteq RowsRead(s)
    /\ \A r \in RowsRead(s) : \E k \in 1 .. n : r \in RowsRead(ws[k])

\* ... which hold of every list.
LEMMA WindowRowsHold ==
  ASSUME NEW R, NEW s \in Seq(R), NEW w \in Nat \ {0}
  PROVE  \E n \in Nat : WindowRows(s, Windows(s, w), n)
<1>1. PICK z \in Nat : z = Len(s) /\ DOMAIN s = 1 .. z
  OBVIOUS
<1>2. PICK n \in Nat : n = ceil_div(z, w)
  BY CeilFacts
<1>3. PICK ws : ws = Windows(s, w)
  OBVIOUS
<1>4. DOMAIN ws = 1 .. n
  BY <1>1, <1>2, <1>3 DEF Windows
<1>5. ASSUME NEW k \in 1 .. n
      PROVE  /\ IsFiniteSet(RowsRead(ws[k]))
             /\ Last(ws[k]).row \in RowsRead(ws[k])
             /\ RowsRead(ws[k]) \subseteq RowsRead(s)
             /\ DOMAIN ws[k] = 1 .. Len(ws[k])
  <2>1. Stretch(R, s, w, k)
    BY <1>1, <1>2, WindowStretch
  <2>2. PICK v : v = ws[k]
    OBVIOUS
  <2>3. PICK l \in Nat \ {0} :
           /\ v \in Seq(R) /\ Len(v) = l
           /\ \A j \in 1 .. l : (k - 1) * w + j \in 1 .. z /\ v[j] = s[(k - 1) * w + j]
    BY <1>1, <1>3, <2>1, <2>2, Zenon DEF Stretch
  <2>4. DOMAIN v = 1 .. l
    BY <2>3
  <2>5. IsFiniteSet(RowsRead(v))
    BY <2>4, RowsFinite
  <2>6. Last(v).row \in RowsRead(v)
    BY <2>3, <2>4 DEF Last, RowsRead
  <2>7. RowsRead(v) \subseteq RowsRead(s)
    <3> SUFFICES ASSUME NEW j \in 1 .. l PROVE v[j].row \in RowsRead(s)
      BY <2>4 DEF RowsRead
    <3>1. PICK i \in 1 .. z : v[j] = s[i]
      BY <2>3
    <3> QED
      BY <1>1, <3>1 DEF RowsRead
  <2> QED
    BY <2>2, <2>3, <2>4, <2>5, <2>6, <2>7
<1>6. ASSUME NEW r \in RowsRead(s) PROVE \E k \in 1 .. n : r \in RowsRead(ws[k])
  <2>1. PICK i \in 1 .. z : s[i].row = r
    BY <1>1 DEF RowsRead
  <2>2. PICK k \in 1 .. n : \E j \in 1 .. Len(ws[k]) : ws[k][j] = s[i]
    <3>1. InSome(s, w, i)
      BY <1>1, WindowOf
    <3> QED
      BY <1>1, <1>2, <1>3, <3>1, Zenon DEF InSome
  <2>3. PICK j \in DOMAIN ws[k] : ws[k][j] = s[i]
    BY <1>5, <2>2
  <2>4. r \in RowsRead(ws[k])
    BY <2>1, <2>3 DEF RowsRead
  <2> QED
    BY <2>4
<1> QED
  BY <1>3, <1>4, <1>5, <1>6 DEF WindowRows

\* The row that is open when a window starts is not one that it is the first to have.
LEMMA FirstIsMiss ==
  ASSUME NEW s, NEW ws, NEW n \in Nat, WindowRows(s, ws, n), NEW r \in Nat, NEW k, FirstIn(ws, r, k)
  PROVE  carry(ws, k) # r
<1>1. k \in 1 .. n
  BY DEF WindowRows, FirstIn
<1>2. CASE k = 1
  BY <1>2 DEF carry, NoRow
<1>3. CASE k # 1
  <2>1. PICK j \in 1 .. n : j = k - 1
    BY <1>1, <1>3
  <2>2. carry(ws, k) = Last(ws[j]).row
    BY <1>3, <2>1 DEF carry
  <2>3. Last(ws[j]).row \in RowsRead(ws[j])
    BY DEF WindowRows
  <2>4. r \notin RowsRead(ws[j])
    <3>1. DOMAIN ws = 1 .. n
      BY DEF WindowRows
    <3>2. r \in RowsRead(ws[j]) => k <= j
      BY <3>1 DEF FirstIn
    <3> QED
      BY <1>1, <2>1, <3>2
  <2> QED
    BY <2>2, <2>3, <2>4
<1> QED
  BY <1>2, <1>3

\* Every row of a channel costs a miss: in the first window that has it.
LEMMA MissPerRow ==
  ASSUME NEW R, NEW s \in Seq(R), setup.window \in Nat \ {0}, \A i \in DOMAIN s : s[i].row \in Nat
  PROVE  RowOpens(s) >= Cardinality(RowsRead(s))
<1>1. PICK ws : ws = Windows(s, setup.window)
  OBVIOUS
<1>2. PICK n \in Nat : WindowRows(s, ws, n)
  BY <1>1, WindowRowsHold
<1>3. PICK M : M = RowsRead(s)
  OBVIOUS
<1>4. M \subseteq Nat /\ IsFiniteSet(M)
  <2>1. M \subseteq Nat
    BY <1>3 DEF RowsRead
  <2>2. PICK z \in Nat : DOMAIN s = 1 .. z
    <3>1. Len(s) \in Nat /\ DOMAIN s = 1 .. Len(s)
      OBVIOUS
    <3> QED
      BY <3>1
  <2>3. IsFiniteSet(RowsRead(s))
    BY <2>2, RowsFinite
  <2> QED
    BY <1>3, <2>1, <2>3
<1>5. PICK K : K = 1 .. n
  OBVIOUS
<1>6. IsFiniteSet(K) /\ DOMAIN ws = K
  <2>1. PICK o \in Int : o = 1
    OBVIOUS
  <2>2. IsFiniteSet(o .. n)
    BY FS_Interval
  <2> QED
    BY <1>2, <1>5, <2>1, <2>2 DEF WindowRows
<1>7. \A r \in M : \E k : FirstIn(ws, r, k)
  <2> SUFFICES ASSUME NEW r \in M PROVE \E k : FirstIn(ws, r, k)
    OBVIOUS
  <2>1. PICK S : S = {k \in 1 .. n : r \in RowsRead(ws[k])}
    OBVIOUS
  <2>2. S \subseteq Nat /\ S # {}
    BY <1>2, <1>3, <2>1 DEF WindowRows
  <2>3. Min(S) \in S /\ \A k \in S : Min(S) <= k
    BY <2>2, NatMin
  <2>4. PICK k : k = Min(S)
    OBVIOUS
  <2>5. FirstIn(ws, r, k)
    BY <1>5, <1>6, <2>1, <2>3, <2>4 DEF FirstIn
  <2> QED
    BY <2>5
<1>8. PICK g : g = [r \in M |-> CHOOSE k : FirstIn(ws, r, k)]
  OBVIOUS
<1>9. \A r \in M : FirstIn(ws, r, g[r])
  <2> SUFFICES ASSUME NEW r \in M PROVE FirstIn(ws, r, g[r])
    OBVIOUS
  <2>1. g[r] = CHOOSE k : FirstIn(ws, r, k)
    BY <1>8
  <2> QED
    BY <1>7, <2>1, Zenon
<1>10. \A r \in M : g[r] \in K
  BY <1>6, <1>9 DEF FirstIn
<1>11. PICK a, o : a = ClassSizes(M, g, K) /\ o = Opened(ws)
  OBVIOUS
<1>12. SumFunctionOnSet(a, K) = Cardinality(M)
  BY <1>4, <1>6, <1>10, <1>11, SumClasses
<1>13. \A k \in K : a[k] \in Int /\ o[k] \in Int /\ a[k] <= o[k]
  <2> SUFFICES ASSUME NEW k \in K PROVE a[k] \in Int /\ o[k] \in Int /\ a[k] <= o[k]
    OBVIOUS
  <2>1. PICK A, B : A = {r \in M : g[r] = k} /\ B = RowsRead(ws[k]) \ {carry(ws, k)}
    OBVIOUS
  <2>2. a[k] = Cardinality(A) /\ o[k] = Cardinality(B)
    BY <1>6, <1>11, <2>1 DEF ClassSizes, Opened
  <2>3. IsFiniteSet(B)
    <3>1. PICK S, c : S = RowsRead(ws[k]) /\ c = carry(ws, k)
      OBVIOUS
    <3>2. IsFiniteSet(S)
      BY <1>2, <1>5, <3>1 DEF WindowRows
    <3>3. IsFiniteSet(S \ {c})
      BY <3>2, FS_RemoveElement
    <3> QED
      BY <2>1, <3>1, <3>3
  <2>4. A \in SUBSET B
    <3> SUFFICES ASSUME NEW r \in M, g[r] = k PROVE r \in B
      BY <2>1
    <3>1. FirstIn(ws, r, k) /\ r \in Nat
      BY <1>4, <1>9
    <3>2. carry(ws, k) # r
      BY <1>2, <3>1, FirstIsMiss
    <3>3. r \in RowsRead(ws[k])
      BY <3>1 DEF FirstIn
    <3> QED
      BY <2>1, <3>2, <3>3
  <2>5. IsFiniteSet(A) /\ Cardinality(A) <= Cardinality(B)
    BY <2>3, <2>4, FS_Subset
  <2>6. Cardinality(A) \in Nat /\ Cardinality(B) \in Nat
    BY <2>3, <2>5, FS_CardinalityType
  <2> QED
    BY <2>2, <2>5, <2>6
<1>14. SumFunctionOnSet(a, K) <= SumFunctionOnSet(o, K)
  BY <1>6, <1>13, SumMono
<1>15. RowOpens(s) = SumFunctionOnSet(o, K)
  BY <1>1, <1>6, <1>11, MissesSum
<1>16. SumFunctionOnSet(o, K) \in Int /\ Cardinality(M) \in Nat
  <2>1. SumFunctionOnSet(o, K) \in Int
    BY <1>6, <1>13, SumRemove
  <2> QED
    BY <1>4, <2>1, FS_CardinalityType
<1> QED
  BY <1>3, <1>12, <1>14, <1>15, <1>16

\* A channel that reads one row only pays for it once.
LEMMA OneRowOneMiss ==
  ASSUME NEW R, NEW s \in Seq(R), setup.window \in Nat \ {0}, NEW r \in Nat, RowsRead(s) = {r}
  PROVE  RowOpens(s) = 1
<1>1. PICK ws : ws = Windows(s, setup.window)
  OBVIOUS
<1>2. PICK n \in Nat : WindowRows(s, ws, n)
  BY <1>1, WindowRowsHold
<1>3. PICK K : K = 1 .. n
  OBVIOUS
<1>4. IsFiniteSet(K) /\ DOMAIN ws = K
  <2>1. PICK o \in Int : o = 1
    OBVIOUS
  <2>2. IsFiniteSet(o .. n)
    BY FS_Interval
  <2> QED
    BY <1>2, <1>3, <2>1, <2>2 DEF WindowRows
<1>5. \A k \in 1 .. n : RowsRead(ws[k]) = {r} /\ Last(ws[k]).row = r
  <2> SUFFICES ASSUME NEW k \in 1 .. n PROVE RowsRead(ws[k]) = {r} /\ Last(ws[k]).row = r
    OBVIOUS
  <2>1. Last(ws[k]).row \in RowsRead(ws[k]) /\ RowsRead(ws[k]) \subseteq {r}
    BY <1>2 DEF WindowRows
  <2> QED
    BY <2>1
<1>6. PICK o : o = Opened(ws)
  OBVIOUS
<1>7. 1 \in K
  <2>1. PICK k \in 1 .. n : r \in RowsRead(ws[k])
    BY <1>2 DEF WindowRows
  <2> QED
    BY <1>3
<1>8. o[1] = 1
  <2>1. carry(ws, 1) # r
    BY DEF carry, NoRow
  <2>2. RowsRead(ws[1]) \ {carry(ws, 1)} = {r}
    BY <1>3, <1>5, <1>7, <2>1
  <2>3. Cardinality({r}) = 1
    BY FS_Singleton
  <2> QED
    BY <1>4, <1>6, <1>7, <2>2, <2>3 DEF Opened
<1>9. \A k \in K : k # 1 => o[k] = 0
  <2> SUFFICES ASSUME NEW k \in K, k # 1 PROVE o[k] = 0
    OBVIOUS
  <2>1. PICK j \in 1 .. n : j = k - 1
    BY <1>3
  <2>2. carry(ws, k) = r
    BY <1>5, <2>1 DEF carry
  <2>3. RowsRead(ws[k]) \ {carry(ws, k)} = {}
    BY <1>3, <1>5, <2>2
  <2>4. Cardinality({}) = 0
    BY FS_EmptySet
  <2> QED
    BY <1>4, <1>6, <2>3, <2>4 DEF Opened
<1>10. PICK T : T = {1}
  OBVIOUS
<1>11. T \subseteq K /\ \A k \in K : o[k] \in Int /\ (k \notin T => o[k] = 0)
  BY <1>7, <1>8, <1>9, <1>10
<1>12. SumFunctionOnSet(o, K) = SumFunctionOnSet(o, T)
  BY <1>4, <1>11, SumSupport
<1>13. SumFunctionOnSet(o, T) = 1
  <2>1. PICK e : e = 1
    OBVIOUS
  <2>2. o[e] = 1 /\ o[e] \in Int
    BY <1>8, <2>1
  <2>3. SumFunctionOnSet(o, {e}) = o[e]
    BY <2>2, SumOne
  <2> QED
    BY <1>10, <2>1, <2>2, <2>3
<1>14. RowOpens(s) = SumFunctionOnSet(o, K)
  BY <1>1, <1>4, <1>6, MissesSum
<1> QED
  BY <1>12, <1>13, <1>14

-----------------------------------------------------------------------------
(* The frames of a table *)

\* The frames of a table, as placement_diagnostics counts them.
FramesOf(t, fb) == {b \div fb : b \in ToSet(t)}

\* No frame has more than its blocks, so a table is in at least as many frames as
\* a packed one.
LEMMA FramesAtLeast ==
  ASSUME NEW z \in Nat, NEW t \in Seq(Nat), Len(t) = z, NEW fb \in Nat \ {0},
         \A i, j \in 1 .. z : t[i] = t[j] => i = j
  PROVE  /\ IsFiniteSet(FramesOf(t, fb))
         /\ Cardinality(FramesOf(t, fb)) >= ceil_div(z, fb)
<1>1. DOMAIN t = 1 .. z /\ \A i \in 1 .. z : t[i] \in Nat
  OBVIOUS
<1>2. PICK M, F : M = 1 .. z /\ F = FramesOf(t, fb)
  OBVIOUS
<1>3. IsFiniteSet(M) /\ Cardinality(M) = z
  <2>1. PICK o \in Int : o = 1
    OBVIOUS
  <2>2. IsFiniteSet(o .. z) /\ Cardinality(o .. z) = IF o > z THEN 0 ELSE z - o + 1
    BY FS_Interval
  <2> QED
    BY <1>2, <2>1, <2>2
<1>4. PICK g : g = [i \in M |-> t[i] \div fb]
  OBVIOUS
<1>5. F = {t[i] \div fb : i \in M}
  <2>1. \A x : x \in FramesOf(t, fb) <=> \E b \in ToSet(t) : x = b \div fb
    BY DEF FramesOf
  <2>2. \A b : b \in ToSet(t) <=> \E i \in 1 .. z : b = t[i]
    BY <1>1 DEF ToSet
  <2>3. \A x : x \in F <=> \E i \in M : x = t[i] \div fb
    BY <1>2, <2>1, <2>2
  <2> QED
    BY <2>3
<1>6. g \in Surjection(M, F)
  BY <1>4, <1>5 DEF Surjection
<1>7. IsFiniteSet(F)
  BY <1>3, <1>6, FS_Surjection
<1>8. \A i \in M : g[i] \in F
  BY <1>4, <1>5
<1>9. PICK a : a = ClassSizes(M, g, F)
  OBVIOUS
<1>10. SumFunctionOnSet(a, F) = z
  BY <1>3, <1>7, <1>8, <1>9, SumClasses
<1>11. \A f \in F : a[f] \in Nat /\ a[f] <= fb
  <2> SUFFICES ASSUME NEW f \in F PROVE a[f] \in Nat /\ a[f] <= fb
    OBVIOUS
  <2>1. PICK C, D : C = {i \in M : g[i] = f} /\ D = 0 .. fb - 1
    OBVIOUS
  <2>2. a[f] = Cardinality(C)
    BY <1>9, <2>1 DEF ClassSizes
  <2>3. IsFiniteSet(D) /\ Cardinality(D) = fb
    <3>1. PICK o \in Int, e \in Int : o = 0 /\ e = fb - 1
      OBVIOUS
    <3>2. IsFiniteSet(o .. e) /\ Cardinality(o .. e) = IF o > e THEN 0 ELSE e - o + 1
      BY FS_Interval
    <3> QED
      BY <2>1, <3>1, <3>2
  <2>4. f \in Nat
    <3>1. PICK i \in M : f = t[i] \div fb
      BY <1>5
    <3>2. t[i] \in Nat
      BY <1>1, <1>2
    <3> QED
      BY <3>1, <3>2
  <2>5. \A i \in C : i \in 1 .. z /\ t[i] \in Nat /\ t[i] - f * fb \in D
    <3> SUFFICES ASSUME NEW i \in C
                 PROVE  i \in 1 .. z /\ t[i] \in Nat /\ t[i] - f * fb \in D
      OBVIOUS
    <3>1. i \in M /\ t[i] \div fb = f /\ t[i] \in Nat
      BY <1>1, <1>2, <1>4, <2>1
    <3>2. PICK x \in Nat : x = t[i]
      BY <3>1
    <3>3. PICK d \in Nat, r \in 0 .. fb - 1 : x = d * fb + r /\ d = x \div fb /\ r = x % fb
      BY DivMod
    <3>4. x = f * fb + r
      BY <3>1, <3>2, <3>3
    <3>5. f * fb \in Nat
      BY <2>4
    <3>6. x - f * fb = r
      BY <3>4, <3>5
    <3> QED
      BY <1>2, <2>1, <3>1, <3>2, <3>6
  <2>6. PICK h : h = [i \in C |-> t[i] - f * fb]
    OBVIOUS
  <2>7. PICK v \in Nat : v = f * fb
    BY <2>4
  <2>8. \A i, j \in C : h[i] = h[j] => i = j
    <3> SUFFICES ASSUME NEW i \in C, NEW j \in C, h[i] = h[j] PROVE i = j
      OBVIOUS
    <3>1. t[i] - v = t[j] - v /\ t[i] \in Nat /\ t[j] \in Nat
      BY <2>5, <2>6, <2>7
    <3>2. t[i] = t[j]
      BY <3>1
    <3> QED
      BY <2>5, <3>2
  <2>9. h \in Injection(C, D)
    BY <2>5, <2>6, <2>8 DEF Injection, IsInjective
  <2>10. IsFiniteSet(C) /\ Cardinality(C) <= fb
    BY <2>3, <2>9, FS_Injection
  <2> QED
    BY <2>2, <2>10, FS_CardinalityType
<1>12. PICK k : k = [f \in F |-> fb]
  OBVIOUS
<1>13. SumFunctionOnSet(a, F) <= SumFunctionOnSet(k, F)
  <2>1. \A f \in F : a[f] \in Int /\ k[f] \in Int /\ a[f] <= k[f]
    BY <1>11, <1>12
  <2> QED
    BY <1>7, <2>1, SumMono
<1>14. SumFunctionOnSet(k, F) = fb * Cardinality(F)
  <2>1. \A f \in F : k[f] = fb
    BY <1>12
  <2> QED
    BY <1>7, <2>1, SumConst
<1>15. PICK c \in Nat : c = Cardinality(F)
  BY <1>7, FS_CardinalityType
<1>16. z <= c * fb
  <2>1. fb * c = c * fb
    OBVIOUS
  <2> QED
    BY <1>10, <1>13, <1>14, <1>15, <2>1
<1>17. ceil_div(z, fb) \in Nat /\ ceil_div(z, fb) <= c
  BY <1>16, CeilFacts
<1> QED
  BY <1>2, <1>7, <1>15, <1>17

\* The rows of what a channel is given are rows of bursts, and there are some.
LEMMA ChannelRows ==
  ASSUME TableCovers, NEW c \in DOMAIN perch
  PROVE  /\ \E R : perch[c] \in Seq(R)
         /\ \A k \in DOMAIN perch[c] : \E i \in DOMAIN bursts : perch[c][k] = bursts[i]
         /\ DOMAIN perch[c] # {}
<1>1. setup \in Setups /\ length \in Nat
  BY InTable
<1>2. PICK l, s : l = bursts /\ s = perch[c]
  OBVIOUS
<1>3. PICK R : l \in Seq(R)
  BY <1>1, <1>2, BurstList
<1>4. s = OfChannel(l, c)
  BY <1>1, <1>2, ChannelList
<1>5. /\ s \in Seq(R)
      /\ {s[k] : k \in DOMAIN s} = {l[i] : i \in {j \in DOMAIN l : l[j].ch = c}}
  <2>1. OfChannel(l, c) \in Seq(R) /\ OwnBursts(l, c)
    BY <1>3, ChannelBursts
  <2> QED
    BY <1>4, <2>1, Zenon DEF OwnBursts
<1>6. \A k \in DOMAIN s : \E i \in DOMAIN l : s[k] = l[i]
  BY <1>5
<1>7. PICK j \in DOMAIN l : l[j].ch = c
  <2>1. DOMAIN perch = {l[i].ch : i \in DOMAIN l}
    BY <1>2 DEF perch, PerChannel
  <2> QED
    BY <2>1
<1>8. l[j] \in {s[k] : k \in DOMAIN s}
  BY <1>5, <1>7
<1> QED
  BY <1>2, <1>5, <1>6, <1>8

-----------------------------------------------------------------------------
(* The grouped arithmetic *)

\* Every burst has a row, and one of B banks.
Banked(win, B) == \A i \in DOMAIN win : win[i].row \in Nat /\ win[i].bank \in 0 .. B - 1

\* A key is its row and its bank.
LEMMA KeyFacts ==
  ASSUME NEW B \in Nat \ {0}, NEW win, Banked(win, B), NEW i \in DOMAIN win
  PROVE  /\ key(win[i], B) \in Nat
         /\ key(win[i], B) \div B = win[i].row /\ key(win[i], B) % B = win[i].bank
<1>1. PICK r \in Nat, b \in 0 .. B - 1 : r = win[i].row /\ b = win[i].bank
  BY DEF Banked
<1>2. PICK x \in Nat : x = r * B + b
  <2>1. r * B \in Nat
    OBVIOUS
  <2> QED
    BY <2>1
<1>3. x \div B = r /\ x % B = b
  BY <1>2, DivUnique
<1> QED
  BY <1>1, <1>2, <1>3 DEF key

\* Bursts of one key are bursts of one row and bank.
LEMMA SameKey ==
  ASSUME NEW B \in Nat \ {0}, NEW win, Banked(win, B), NEW i \in DOMAIN win, NEW j \in DOMAIN win
  PROVE  key(win[j], B) = key(win[i], B)
            <=> win[j].row = win[i].row /\ win[j].bank = win[i].bank
<1>1. ASSUME key(win[j], B) = key(win[i], B)
      PROVE  win[j].row = win[i].row /\ win[j].bank = win[i].bank
  <2>1. /\ key(win[i], B) \div B = win[i].row /\ key(win[i], B) % B = win[i].bank
        /\ key(win[j], B) \div B = win[j].row /\ key(win[j], B) % B = win[j].bank
    BY KeyFacts
  <2> QED
    BY <1>1, <2>1, Zenon
<1>2. ASSUME win[j].row = win[i].row, win[j].bank = win[i].bank
      PROVE  key(win[j], B) = key(win[i], B)
  BY <1>2, Zenon DEF key
<1> QED
  BY <1>1, <1>2

\* The quotient does not fall.
LEMMA DivMono ==
  ASSUME NEW B \in Nat \ {0}, NEW p \in Nat, NEW q \in Nat, p <= q
  PROVE  p \div B \in Nat /\ q \div B \in Nat /\ p \div B <= q \div B
<1>1. PICK a \in Nat, r \in 0 .. B - 1 : p = a * B + r /\ a = p \div B
  BY DivMod
<1>2. PICK c \in Nat, t \in 0 .. B - 1 : q = c * B + t /\ c = q \div B
  BY DivMod
<1>3. ASSUME c < a PROVE FALSE
  <2>1. PICK d \in Nat : a = c + 1 + d
    <3>1. a - c - 1 \in Nat /\ a = c + 1 + (a - c - 1)
      BY <1>3
    <3> QED
      BY <3>1
  <2>2. a * B = c * B + B + d * B /\ c * B \in Nat /\ d * B \in Nat
    BY <2>1
  <2> QED
    BY <1>1, <1>2, <2>2
<1> QED
  BY <1>1, <1>2, <1>3

\* The keys of a window are numbers, and lead to its rows.
LEMMA KeysFinite ==
  ASSUME NEW B \in Nat \ {0}, NEW n \in Nat, NEW win, DOMAIN win = 1 .. n, Banked(win, B)
  PROVE  /\ ukey(win, B) \subseteq Nat /\ IsFiniteSet(ukey(win, B))
         /\ \A q \in ukey(win, B) : q \div B \in RowsRead(win)
         /\ \A r \in RowsRead(win) : \E q \in ukey(win, B) : q \div B = r
<1>1. \A i \in DOMAIN win : key(win[i], B) \in Nat /\ key(win[i], B) \div B = win[i].row
  BY KeyFacts
<1>2. PICK T, K : T = 1 .. n /\ K = ukey(win, B)
  OBVIOUS
<1>3. PICK g : g = [i \in T |-> key(win[i], B)]
  OBVIOUS
<1>4. g \in Surjection(T, K)
  BY <1>2, <1>3 DEF Surjection, ukey
<1>5. IsFiniteSet(T)
  BY <1>2, UpTo
<1>6. IsFiniteSet(K)
  BY <1>4, <1>5, FS_Surjection
<1>7. K \subseteq Nat /\ \A q \in K : q \div B \in RowsRead(win)
  BY <1>1, <1>2 DEF ukey, RowsRead
<1>8. \A r \in RowsRead(win) : \E q \in K : q \div B = r
  BY <1>1, <1>2 DEF ukey, RowsRead
<1> QED
  BY <1>2, <1>6, <1>7, <1>8

\* A segment starts at the least key of a row.
LEMMA SegIs ==
  ASSUME NEW B \in Nat \ {0}, NEW win, NEW q, q \in ukey(win, B), ukey(win, B) \subseteq Nat
  PROVE  q \in seg(win, B) <=> \A p \in ukey(win, B) : p < q => p \div B # q \div B
<1>1. PICK K : K = ukey(win, B) /\ K \subseteq Nat /\ q \in K /\ q \in Nat
  OBVIOUS
<1>2. PICK L : L = {p \in K : p < q}
  OBVIOUS
<1>3. q \in seg(win, B) <=> L = {} \/ Max(L) \div B # q \div B
  BY <1>1, <1>2 DEF seg
<1>4. CASE L = {}
  BY <1>1, <1>2, <1>3, <1>4
<1>5. CASE L # {}
  <2>1. L \subseteq 0 .. q
    BY <1>1, <1>2
  <2>2. Max(L) \in L /\ \A x \in L : x <= Max(L)
    BY <1>1, <1>5, <2>1, NatMax
  <2>3. PICK y \in Nat : y = Max(L) /\ y \in K /\ y < q
    BY <1>1, <1>2, <2>2
  <2>4. ASSUME y \div B # q \div B, NEW p \in K, p < q PROVE p \div B # q \div B
    <3>1. p \in Nat /\ p <= y /\ y <= q
      BY <1>1, <1>2, <2>2, <2>3, <2>4
    <3>2. p \div B \in Nat /\ y \div B \in Nat /\ q \div B \in Nat
          /\ p \div B <= y \div B /\ y \div B <= q \div B
      BY <1>1, <2>3, <3>1, DivMono
    <3>3. PICK a, c, d \in Nat : a = p \div B /\ c = y \div B /\ d = q \div B
      BY <3>2
    <3>4. a <= c /\ c <= d /\ c # d
      BY <2>4, <3>2, <3>3
    <3>5. a # d
      BY <3>4
    <3> QED
      BY <3>3, <3>5
  <2> QED
    BY <1>1, <1>3, <1>5, <2>3, <2>4
<1> QED
  BY <1>4, <1>5

\* Every row has a segment ...
LEMMA SegStarts ==
  ASSUME NEW B \in Nat \ {0}, NEW win, ukey(win, B) \subseteq Nat, NEW p \in ukey(win, B)
  PROVE  \E z \in seg(win, B) : z <= p /\ z \div B = p \div B
<1>1. PICK K : K = ukey(win, B) /\ K \subseteq Nat /\ p \in K
  OBVIOUS
<1>2. PICK S : S = {x \in K : x \div B = p \div B}
  OBVIOUS
<1>3. S \subseteq Nat /\ p \in S
  BY <1>1, <1>2
<1>4. Min(S) \in S /\ \A x \in S : Min(S) <= x
  BY <1>3, NatMin
<1>5. PICK z : z = Min(S) /\ z \in K /\ z \in Nat /\ z \div B = p \div B /\ z <= p
  BY <1>1, <1>2, <1>3, <1>4
<1>6. ASSUME NEW x \in K, x < z PROVE x \div B # z \div B
  <2>1. x \in S => z <= x
    BY <1>4, <1>5
  <2>2. x \notin S
    BY <1>1, <1>5, <1>6, <2>1
  <2> QED
    BY <1>2, <1>5, <2>2
<1>7. z \in seg(win, B)
  BY <1>1, <1>5, <1>6, SegIs
<1> QED
  BY <1>5, <1>7

\* ... and only one.
LEMMA SegOnce ==
  ASSUME NEW B \in Nat \ {0}, NEW win, ukey(win, B) \subseteq Nat,
         NEW y \in seg(win, B), NEW z \in seg(win, B), y \div B = z \div B
  PROVE  y = z
<1>1. y \in ukey(win, B) /\ z \in ukey(win, B)
  BY DEF seg
<1>2. y \in Nat /\ z \in Nat /\ ~ (y < z) /\ ~ (z < y)
  BY <1>1, SegIs
<1> QED
  BY <1>2

\* The keys a segment reaches over are those of its row.
LEMMA SegReach ==
  ASSUME NEW B \in Nat \ {0}, NEW win, ukey(win, B) \subseteq Nat, NEW q \in seg(win, B)
  PROVE  {p \in ukey(win, B) : q <= p /\ \A z \in {y \in seg(win, B) : y > q} : p < z}
           = {p \in ukey(win, B) : p \div B = q \div B}
<1>1. PICK K, G : K = ukey(win, B) /\ G = seg(win, B)
  OBVIOUS
<1>2. K \subseteq Nat /\ G \subseteq K /\ q \in G /\ q \in Nat
  BY <1>1 DEF seg
<1>3. ASSUME NEW p \in K, p \div B = q \div B, NEW z \in G, z > q PROVE p < z
  <2>1. p \in Nat /\ z \in Nat
    BY <1>2
  <2>2. ASSUME z <= p PROVE FALSE
    <3>1. q \div B \in Nat /\ z \div B \in Nat /\ p \div B \in Nat
          /\ q \div B <= z \div B /\ z \div B <= p \div B
      BY <1>2, <1>3, <2>1, <2>2, DivMono
    <3>2. z \div B = q \div B
      BY <1>3, <3>1
    <3>3. z = q
      BY <1>1, <1>2, <3>2, SegOnce
    <3> QED
      BY <1>2, <1>3, <3>3
  <2> QED
    BY <2>1, <2>2
<1>4. ASSUME NEW p \in K, p \div B = q \div B PROVE q <= p
  <2>1. ~ (p < q)
    BY <1>1, <1>2, <1>4, SegIs
  <2> QED
    BY <1>2, <2>1
<1>5. ASSUME NEW p \in K, q <= p, \A z \in G : z > q => p < z PROVE p \div B = q \div B
  <2>1. PICK z \in G : z <= p /\ z \div B = p \div B
    BY <1>1, <1>2, SegStarts
  <2>2. p \in Nat /\ z \in Nat /\ z <= q
    BY <1>2, <1>5, <2>1
  <2>3. z \div B \in Nat /\ q \div B \in Nat /\ p \div B \in Nat
        /\ z \div B <= q \div B /\ q \div B <= p \div B
    BY <1>2, <1>5, <2>2, DivMono
  <2> QED
    BY <2>1, <2>3
<1>6. {p \in K : q <= p /\ \A z \in {y \in G : y > q} : p < z} = {p \in K : p \div B = q \div B}
  BY <1>3, <1>4, <1>5
<1> QED
  BY <1>1, <1>6

\* So a group counts the bursts of the busiest bank of its row.
LEMMA GroupCount ==
  ASSUME NEW B \in Nat \ {0}, NEW n \in Nat, NEW win, DOMAIN win = 1 .. n, Banked(win, B),
         NEW q \in seg(win, B)
  PROVE  m(win, B, q) = busiest(win, q \div B)
<1>1. ukey(win, B) \subseteq Nat
  BY KeysFinite
<1>2. PICK r, reach, here : /\ r = q \div B
                            /\ reach = {p \in ukey(win, B) : p \div B = q \div B}
                            /\ here = {i \in DOMAIN win : win[i].row = r}
  OBVIOUS
<1>3. m(win, B, q) = Max({cnt(win, B, p) : p \in reach})
  <2>1. {p \in ukey(win, B) : q <= p /\ \A z \in {y \in seg(win, B) : y > q} : p < z} = reach
    BY <1>1, <1>2, SegReach
  <2> QED
    BY <2>1, Zenon DEF m
<1>4. busiest(win, r) = Max({Cardinality({j \in here : win[j].bank = win[i].bank}) : i \in here})
  BY <1>2, Zenon DEF busiest
<1>5. \A i \in DOMAIN win : key(win[i], B) \div B = win[i].row
  BY KeyFacts
<1>6. reach = {key(win[i], B) : i \in here}
  <2>1. ASSUME NEW p \in reach PROVE \E i \in here : p = key(win[i], B)
    <3>1. PICK i \in DOMAIN win : p = key(win[i], B)
      BY <1>2 DEF ukey
    <3>2. win[i].row = r
      BY <1>2, <1>5, <3>1
    <3> QED
      BY <1>2, <3>1, <3>2
  <2>2. ASSUME NEW i \in here PROVE key(win[i], B) \in reach
    <3>1. i \in DOMAIN win /\ win[i].row = r
      BY <1>2
    <3>2. key(win[i], B) \in ukey(win, B) /\ key(win[i], B) \div B = r
      BY <1>5, <3>1 DEF ukey
    <3> QED
      BY <1>2, <3>2
  <2> QED
    BY <2>1, <2>2
<1>7. ASSUME NEW i \in here
      PROVE  cnt(win, B, key(win[i], B)) = Cardinality({j \in here : win[j].bank = win[i].bank})
  <2>1. i \in DOMAIN win /\ win[i].row = r
    BY <1>2
  <2>2. \A j \in DOMAIN win : key(win[j], B) = key(win[i], B)
                                <=> win[j].row = r /\ win[j].bank = win[i].bank
    BY <2>1, SameKey
  <2>3. {j \in DOMAIN win : key(win[j], B) = key(win[i], B)}
          = {j \in here : win[j].bank = win[i].bank}
    BY <1>2, <2>2
  <2> QED
    BY <2>3, Zenon DEF cnt
<1>8. {cnt(win, B, p) : p \in reach}
        = {Cardinality({j \in here : win[j].bank = win[i].bank}) : i \in here}
  <2>1. {cnt(win, B, p) : p \in reach} = {cnt(win, B, key(win[i], B)) : i \in here}
    BY <1>6
  <2> QED
    BY <1>7, <2>1
<1> QED
  BY <1>2, <1>3, <1>4, <1>8, Zenon

\* Row by row, for a window.
LEMMA WindowGrouped ==
  ASSUME NEW B \in Nat \ {0}, NEW n \in Nat, NEW win, DOMAIN win = 1 .. n, Banked(win, B)
  PROVE  /\ window_cmds(win, B) = row_cmds(win)
         /\ \A c : window_misses(win, B, c) = Cardinality(RowsRead(win) \ {c})
<1>1. PICK G, R : G = seg(win, B) /\ R = RowsRead(win)
  OBVIOUS
<1>2. /\ ukey(win, B) \subseteq Nat /\ IsFiniteSet(ukey(win, B)) /\ G \subseteq ukey(win, B)
      /\ \A q \in ukey(win, B) : q \div B \in R
      /\ \A r \in R : \E q \in ukey(win, B) : q \div B = r
  BY <1>1, KeysFinite DEF seg
<1>3. PICK h : h = [q \in G |-> q \div B]
  OBVIOUS
<1>4. h \in Bijection(G, R)
  <2>1. h \in [G -> R]
    BY <1>2, <1>3
  <2>2. ASSUME NEW y \in G, NEW z \in G, h[y] = h[z] PROVE y = z
    BY <1>1, <1>2, <1>3, <2>2, SegOnce
  <2>3. ASSUME NEW r \in R PROVE \E z \in G : h[z] = r
    <3>1. PICK p \in ukey(win, B) : p \div B = r
      BY <1>2
    <3>2. PICK z \in G : z \div B = r
      BY <1>1, <1>2, <3>1, SegStarts
    <3> QED
      BY <1>3, <3>2
  <2>4. h \in Surjection(G, R)
    BY <2>1, <2>3 DEF Surjection
  <2>5. h \in Injection(G, R)
    BY <2>1, <2>2 DEF Injection, IsInjective
  <2> QED
    BY <2>4, <2>5 DEF Bijection
<1>5. IsFiniteSet(G) /\ IsFiniteSet(R) /\ Cardinality(R) = Cardinality(G)
  <2>1. IsFiniteSet(G)
    BY <1>2, FS_Subset
  <2>2. ExistsBijection(G, R)
    BY <1>4 DEF ExistsBijection
  <2> QED
    BY <2>1, <2>2, FS_Bijection
<1>6. PICK f, g : f = [q \in G |-> m(win, B, q)] /\ g = [r \in R |-> busiest(win, r)]
  OBVIOUS
<1>7. \A r \in R : g[r] \in Int
  <2> SUFFICES ASSUME NEW r \in R PROVE g[r] \in Int
    OBVIOUS
  <2>1. PICK b \in 1 .. n : busiest(win, r) = Cardinality(Mates(win, b))
    BY <1>1, Busiest
  <2>2. Cardinality(Mates(win, b)) \in 0 .. n
    BY MatesFinite
  <2> QED
    BY <1>6, <2>1, <2>2
<1>8. \A q \in G : f[q] = g[h[q]]
  <2> SUFFICES ASSUME NEW q \in G PROVE f[q] = g[h[q]]
    OBVIOUS
  <2>1. m(win, B, q) = busiest(win, q \div B)
    BY <1>1, GroupCount
  <2> QED
    BY <1>2, <1>3, <1>6, <2>1
<1>9. SumFunctionOnSet(f, G) = SumFunctionOnSet(g, R)
  BY <1>4, <1>5, <1>7, <1>8, SumReindex
<1>10. window_cmds(win, B) = row_cmds(win)
  <2>1. window_cmds(win, B) = SumFunctionOnSet(f, G)
    BY <1>1, <1>6, Zenon DEF window_cmds
  <2>2. row_cmds(win) = SumFunctionOnSet(g, R)
    BY <1>1, <1>6, Zenon DEF row_cmds
  <2> QED
    BY <1>9, <2>1, <2>2
<1>11. ASSUME NEW c PROVE window_misses(win, B, c) = Cardinality(R \ {c})
  <2>1. {q \div B : q \in G} = R
    <3>1. \A r \in R : \E z \in G : h[z] = r
      BY <1>4 DEF Bijection, Surjection
    <3> QED
      BY <1>2, <1>3, <3>1
  <2>2. Cardinality(R \ {c}) = IF c \in R THEN Cardinality(R) - 1 ELSE Cardinality(R)
    BY <1>5, FS_RemoveElement
  <2>3. Cardinality(R) \in Nat
    BY <1>5, FS_CardinalityType
  <2>4. window_misses(win, B, c) = Cardinality(G) - (IF c \in R THEN 1 ELSE 0)
    BY <1>1, <2>1 DEF window_misses
  <2> QED
    BY <1>5, <2>2, <2>3, <2>4
<1> QED
  BY <1>1, <1>10, <1>11

\* Window by window, for a channel.
LEMMA ListGrouped ==
  ASSUME NEW R, NEW s \in Seq(R), NEW w \in Nat \ {0}, NEW B \in Nat \ {0}, Banked(s, B)
  PROVE  coalesce_window(s, w, B) = row_window(s, w)
<1>1. PICK ws, z : ws = Windows(s, w) /\ z = Len(s) /\ z \in Nat /\ DOMAIN s = 1 .. z
  OBVIOUS
<1>2. DOMAIN ws = 1 .. ceil_div(z, w)
  BY <1>1 DEF Windows
<1>3. ASSUME NEW k \in DOMAIN ws
      PROVE  /\ window_cmds(ws[k], B) = row_cmds(ws[k])
             /\ window_misses(ws[k], B, carry(ws, k)) = Cardinality(RowsRead(ws[k]) \ {carry(ws, k)})
  <2>1. PICK v, c : v = ws[k] /\ c = carry(ws, k)
    OBVIOUS
  <2>2. PICK n \in Nat \ {0} :
           /\ v \in Seq(R) /\ Len(v) = n
           /\ \A j \in 1 .. n : (k - 1) * w + j \in 1 .. z /\ v[j] = s[(k - 1) * w + j]
    <3>1. Stretch(R, s, w, k)
      BY <1>1, <1>2, WindowStretch
    <3> QED
      BY <1>1, <2>1, <3>1 DEF Stretch
  <2>3. DOMAIN v = 1 .. n
    BY <2>2
  <2>4. Banked(v, B)
    <3>1. ASSUME NEW j \in 1 .. n PROVE \E i \in DOMAIN s : v[j] = s[i]
      BY <1>1, <2>2
    <3> QED
      BY <2>3, <3>1 DEF Banked
  <2>5. window_cmds(v, B) = row_cmds(v) /\ window_misses(v, B, c) = Cardinality(RowsRead(v) \ {c})
    BY <2>3, <2>4, WindowGrouped
  <2> QED
    BY <2>1, <2>5
<1>4. /\ [k \in DOMAIN ws |-> window_cmds(ws[k], B)] = [k \in DOMAIN ws |-> row_cmds(ws[k])]
      /\ [k \in DOMAIN ws |-> window_misses(ws[k], B, carry(ws, k))]
           = [k \in DOMAIN ws |-> Cardinality(RowsRead(ws[k]) \ {carry(ws, k)})]
  BY <1>3
<1> QED
  BY <1>1, <1>4, Zenon DEF coalesce_window, row_window

\* The bank of a burst is one of its channel's.
LEMMA BurstBank ==
  ASSUME TableCovers, NEW i \in DOMAIN bursts
  PROVE  banks \in Nat \ {0} /\ bursts[i].bank \in 0 .. banks - 1
<1>1. /\ setup \in Setups /\ bursts[i] = map(am, Lin(i))
      /\ Lin(i) \in 0 .. total_bursts(setup.geom) - 1
  BY InTable
<1>2. PICK lin, f, g : lin = Lin(i) /\ f = am.fields /\ g = setup.geom
  OBVIOUS
<1>3. lin \in Nat
  <2>1. total_bursts(setup.geom) \in Nat \ {0}
    BY <1>1, RegionFits
  <2> QED
    BY <1>1, <1>2, <2>1
<1>4. PICK n, j, k \in Nat :
         /\ j \in 1 .. n /\ k \in 1 .. n /\ FieldList(f, n)
         /\ f[j][1] = "ba" /\ Pieces(f, "ba") = {j} /\ 2^f[j][2] = g.banks_per_group
         /\ f[k][1] = "bg" /\ Pieces(f, "bg") = {k} /\ 2^f[k][2] = g.bank_groups
  BY <1>1, <1>2, BankFields
<1>5. PICK a, e : a = g.banks_per_group /\ e = g.bank_groups
  OBVIOUS
<1>6. a \in Nat \ {0} /\ Chunk(f, lin, j) \in 0 .. a - 1
  BY <1>3, <1>4, <1>5, ChunkNat
<1>7. e \in Nat \ {0} /\ Chunk(f, lin, k) \in 0 .. e - 1
  BY <1>3, <1>4, <1>5, ChunkNat
<1>8. Coord(f, lin, "ba") = Chunk(f, lin, j) /\ Coord(f, lin, "bg") = Chunk(f, lin, k)
  <2>1. FieldList(f, n) /\ Pieces(f, f[j][1]) = {j} /\ Pieces(f, f[k][1]) = {k}
    BY <1>4
  <2>2. Coord(f, lin, f[j][1]) = Chunk(f, lin, j)
    BY <1>3, <1>4, <2>1, OnePiece
  <2>3. Coord(f, lin, f[k][1]) = Chunk(f, lin, k)
    BY <1>3, <1>4, <2>1, OnePiece
  <2> QED
    BY <1>4, <2>2, <2>3
<1>9. am.geom = g
  BY <1>2 DEF am, address_map
<1>10. map(am, lin).bank = Coord(f, lin, "bg") * a + Coord(f, lin, "ba")
  BY <1>2, <1>5, <1>9 DEF map, Coord, Chunk, Pieces
<1>11. PICK s \in 0 .. e - 1, r \in 0 .. a - 1 : s = Chunk(f, lin, k) /\ r = Chunk(f, lin, j)
  BY <1>6, <1>7
<1>12. s * a + r \in 0 .. a * e - 1 /\ a * e \in Nat \ {0}
  BY <1>6, <1>7, TwoDigits
<1>13. banks = a * e
  <2>1. banks = e * a
    BY <1>2, <1>5 DEF banks, banks_per_channel
  <2> QED
    BY <1>6, <1>7, <2>1
<1> QED
  BY <1>1, <1>2, <1>8, <1>10, <1>11, <1>12, <1>13

\* What a channel is counted as, in every state whose table covers its sequence.
LEMMA ChannelGrouped ==
  ASSUME TableCovers, NEW c \in DOMAIN perch
  PROVE  coalesce_window(perch[c], setup.window, banks) = row_window(perch[c], setup.window)
<1>1. setup.window \in Nat \ {0}
  BY InTable, SetupFacts
<1>2. PICK s : s = perch[c]
  OBVIOUS
<1>3. PICK R : s \in Seq(R)
  BY <1>2, ChannelRows
<1>4. \A k \in DOMAIN s : \E i \in DOMAIN bursts : s[k] = bursts[i]
  BY <1>2, ChannelRows
<1>5. \A i \in DOMAIN bursts : bursts[i].row \in Nat /\ bursts[i].bank \in 0 .. banks - 1
  BY BackToIndex, BurstBank
<1>6. Banked(s, banks)
  BY <1>4, <1>5 DEF Banked
<1>7. banks \in Nat \ {0}
  <2>1. PICK k : k \in DOMAIN s
    BY <1>2, ChannelRows
  <2>2. PICK i \in DOMAIN bursts : s[k] = bursts[i]
    BY <1>4, <2>1
  <2> QED
    BY <2>2, BurstBank
<1>8. PICK B : B = banks
  OBVIOUS
<1>9. coalesce_window(s, setup.window, B) = row_window(s, setup.window)
  BY <1>1, <1>3, <1>6, <1>7, <1>8, ListGrouped
<1> QED
  BY <1>2, <1>8, <1>9

\* So they are for every channel of a measured sequence.
LEMMA CommandsMinimalNow ==
  ASSUME TableCovers PROVE CommandsMinimal
<1>1. setup \in Setups /\ length \in Nat /\ setup.window \in Nat \ {0}
  <2>1. setup \in Setups /\ setup.tokens \in Nat /\ setup.window \in Nat \ {0}
    BY SetupFacts DEF TableCovers
  <2> QED
    BY <2>1 DEF TableCovers
<1>2. PICK pc, w : pc = perch /\ w = setup.window
  OBVIOUS
<1>3. \A c \in DOMAIN pc :
         coalesce_window(pc[c], w, banks).cmds =
             LET ws == Windows(pc[c], w)
             IN  SumFunctionOnSet([k \in DOMAIN ws |-> LeastCommands(ws[k])], DOMAIN ws)
  <2> SUFFICES ASSUME NEW c \in DOMAIN pc
               PROVE  coalesce_window(pc[c], w, banks).cmds =
                         LET ws == Windows(pc[c], w)
                         IN  SumFunctionOnSet([k \in DOMAIN ws |-> LeastCommands(ws[k])], DOMAIN ws)
    OBVIOUS
  <2>1. PICK R : perch[c] \in Seq(R)
    BY <1>1, <1>2, ChannelList
  <2>2. PICK s : s = pc[c]
    OBVIOUS
  <2>3. s \in Seq(R)
    BY <1>2, <2>1, <2>2
  <2>4. row_window(s, w).cmds =
             LET ws == Windows(s, w)
             IN  SumFunctionOnSet([k \in DOMAIN ws |-> LeastCommands(ws[k])], DOMAIN ws)
    BY <1>1, <1>2, <2>3, WindowsMinimal
  <2>5. coalesce_window(s, w, banks) = row_window(s, w)
    BY <1>2, <2>2, ChannelGrouped
  <2> QED
    BY <2>2, <2>4, <2>5, Zenon
<1> QED
  BY <1>2, <1>3, Zenon DEF CommandsMinimal

\* The command count is the least one, for every geometry, map, shape, window
\* size and table.
THEOREM MeasureCountsLeast == Spec => []CommandsMinimal
<1>1. TableCovers => CommandsMinimal
  BY CommandsMinimalNow
<1> QED
  BY <1>1, MeasuredTableCovers, PTL

-----------------------------------------------------------------------------
(* Rows and frames *)

\* Rows are frames, in every state whose table covers its sequence.
LEMMA FrameIsRowNow ==
  ASSUME TableCovers PROVE FrameIsRow
<1>1. PICK pc, bs, fb, d :
         /\ pc = perch /\ bs = bursts /\ fb = frame_blocks
         /\ d = placement_diagnostics(table, frame_blocks)
  OBVIOUS
<1> SUFFICES ASSUME setup.scheme # "pim-friendly",
                    block_bytes(setup.shape, setup.block_tokens) <= frame_bytes(setup.geom)
             PROVE  /\ \A i \in DOMAIN bs : bs[i].row = BlockOf(i) \div fb
                    /\ \A c \in DOMAIN pc : Misses(pc[c]) >= Cardinality(RowsRead(pc[c]))
                    /\ d.frames = 1 => \A c \in DOMAIN pc : Misses(pc[c]) = 1
                    /\ d.frames >= d.least
  BY <1>1, Zenon DEF FrameIsRow
<1>2. setup \in Setups /\ setup.window \in Nat \ {0} /\ fb \in Nat \ {0} /\ setup.pool \in Nat
  BY <1>1, InTable, SetupFacts, FrameBursts
<1>3. \A i \in DOMAIN bs : bs[i].row = BlockOf(i) \div fb
  BY <1>1, RowIsFrame
<1>4. \A i \in DOMAIN bs : bs[i].row \in Nat
  BY <1>1, BackToIndex
<1>5. \A c \in DOMAIN pc : /\ \E R : pc[c] \in Seq(R)
                           /\ \A k \in DOMAIN pc[c] : \E i \in DOMAIN bs : pc[c][k] = bs[i]
                           /\ DOMAIN pc[c] # {}
  BY <1>1, ChannelRows
<1>6. ASSUME NEW c \in DOMAIN pc PROVE Misses(pc[c]) >= Cardinality(RowsRead(pc[c]))
  <2>1. PICK s : s = pc[c]
    OBVIOUS
  <2>2. PICK R : s \in Seq(R)
    BY <1>5, <2>1
  <2>3. \A k \in DOMAIN s : s[k].row \in Nat
    BY <1>4, <1>5, <2>1
  <2>4. RowOpens(s) >= Cardinality(RowsRead(s))
    BY <1>2, <2>2, <2>3, MissPerRow
  <2>5. Misses(s) = RowOpens(s)
    BY <1>1, <2>1, ChannelGrouped DEF Misses, RowOpens
  <2> QED
    BY <2>1, <2>4, <2>5
<1>7. PICK z \in Nat : z = Len(table) /\ DOMAIN table = 1 .. z
  <2>1. table \in Seq(Pool)
    BY DEF TableCovers
  <2> QED
    BY <2>1
<1>8. table \in Seq(Nat)
  <2>1. table \in Seq(Pool)
    BY DEF TableCovers
  <2>2. Pool \subseteq Nat
    BY <1>2 DEF Pool
  <2>3. \A i \in 1 .. z : table[i] \in Nat
    <3>1. \A i \in 1 .. z : table[i] \in Pool
      BY <1>7, <2>1
    <3> QED
      BY <2>2, <3>1
  <2>4. table \in [1 .. z -> Nat]
    BY <1>7, <2>1, <2>3
  <2> QED
    BY <2>4
<1>9. PICK F : F = FramesOf(table, fb)
  OBVIOUS
<1>10. IsFiniteSet(F) /\ Cardinality(F) >= ceil_div(z, fb)
  <2>1. \A i, j \in 1 .. z : table[i] = table[j] => i = j
    BY <1>7 DEF TableCovers
  <2>2. PICK t : t = table
    OBVIOUS
  <2>3. IsFiniteSet(FramesOf(t, fb)) /\ Cardinality(FramesOf(t, fb)) >= ceil_div(z, fb)
    BY <1>2, <1>7, <1>8, <2>1, <2>2, FramesAtLeast
  <2> QED
    BY <1>9, <2>2, <2>3
<1>11. d.frames = Cardinality(F) /\ d.least = ceil_div(z, fb)
  BY <1>1, <1>7, <1>9 DEF placement_diagnostics, FramesOf
<1>12. ASSUME d.frames = 1, NEW c \in DOMAIN pc PROVE Misses(pc[c]) = 1
  <2>1. PICK f : F = {f}
    BY <1>10, <1>11, <1>12, FS_Singleton
  <2>2. \A i \in DOMAIN bs : bs[i].row = f
    <3> SUFFICES ASSUME NEW i \in DOMAIN bs PROVE bs[i].row = f
      OBVIOUS
    <3>1. Entry(i) \in DOMAIN table
      BY <1>1, InTable
    <3>2. BlockOf(i) = table[Entry(i)]
      BY DEF BlockOf, Entry
    <3>3. BlockOf(i) \div fb \in F
      BY <1>9, <3>1, <3>2 DEF FramesOf, ToSet
    <3> QED
      BY <1>3, <2>1, <3>3
  <2>3. PICK s : s = pc[c]
    OBVIOUS
  <2>4. PICK R : s \in Seq(R)
    BY <1>5, <2>3
  <2>5. \A k \in DOMAIN s : s[k].row = f /\ s[k].row \in Nat
    BY <1>4, <1>5, <2>2, <2>3
  <2>6. RowsRead(s) = {f} /\ f \in Nat
    BY <1>5, <2>3, <2>5 DEF RowsRead
  <2>7. RowOpens(s) = 1
    BY <1>2, <2>4, <2>6, OneRowOneMiss
  <2>8. Misses(s) = RowOpens(s)
    BY <1>1, <2>3, ChannelGrouped DEF Misses, RowOpens
  <2> QED
    BY <2>3, <2>7, <2>8
<1> QED
  BY <1>3, <1>6, <1>10, <1>11, <1>12

\* The frames the allocator packs are the rows the all-bank commands open, for
\* every geometry, shape and block size that blocks and frames nest in.
THEOREM MeasureFrameIsRow == Spec => []FrameIsRow
<1>1. TableCovers => FrameIsRow
  BY FrameIsRowNow
<1> QED
  BY <1>1, MeasuredTableCovers, PTL

-----------------------------------------------------------------------------
(* The in-order coalescer *)

\* The function coalesce_inorder builds up, for the first n bursts.
Looped(s, g, n) == g = [i \in 0 .. n |-> IF i = 0 THEN no_cmd ELSE take(g[i - 1], s[i])]

\* The recursion of coalesce_inorder has a solution.
LEMMA LoopExists ==
  ASSUME NEW s, NEW n \in Nat
  PROVE  \E g : Looped(s, g, n)
<1> DEFINE P == {k \in Nat : \E g : Looped(s, g, k)}
<1>1. 0 \in P
  <2>1. Looped(s, [i \in 0 .. 0 |-> no_cmd], 0)
    BY DEF Looped
  <2> QED
    BY <2>1
<1>2. ASSUME NEW k \in Nat, k \in P PROVE k + 1 \in P
  <2>1. PICK g : Looped(s, g, k)
    BY <1>2
  <2> DEFINE h == [i \in 0 .. k + 1 |-> IF i <= k THEN g[i] ELSE take(g[i - 1], s[i])]
  <2>2. \A i \in 0 .. k : g[i] = IF i = 0 THEN no_cmd ELSE take(g[i - 1], s[i])
    BY <2>1 DEF Looped
  <2>3. \A i \in 0 .. k : h[i] = g[i]
    OBVIOUS
  <2>4. \A i \in 0 .. k + 1 : h[i] = IF i = 0 THEN no_cmd ELSE take(h[i - 1], s[i])
    <3> SUFFICES ASSUME NEW i \in 0 .. k + 1
                 PROVE  h[i] = IF i = 0 THEN no_cmd ELSE take(h[i - 1], s[i])
      OBVIOUS
    <3>1. CASE i = 0
      BY <2>2, <3>1
    <3>2. CASE i # 0
      <4>1. h[i - 1] = g[i - 1]
        BY <2>3, <3>2
      <4>2. h[i] = take(g[i - 1], s[i])
        BY <2>2, <2>3, <3>2
      <4> QED
        BY <3>2, <4>1, <4>2, Zenon
    <3> QED
      BY <3>1, <3>2
  <2>5. h = [i \in 0 .. k + 1 |-> h[i]]
    OBVIOUS
  <2> HIDE DEF h
  <2>6. Looped(s, h, k + 1)
    BY <2>4, <2>5 DEF Looped
  <2> QED
    BY <2>6
<1> HIDE DEF P
<1>3. \A k \in Nat : k \in P
  BY <1>1, <1>2, NatInduct
<1> QED
  BY <1>3 DEF P

\* The locals of the loop.
Locals(B) == [cmds : Nat, hits : Int, open : Int, row : Int, banks : SUBSET B]

\* The commands and the misses so far, the current command included.
Commands(c) == c.cmds + (IF c.row = NoRow THEN 0 ELSE 1)
RowMisses(c) == c.cmds - c.hits + (IF c.row = c.open THEN 0 ELSE 1)

\* What a burst does to the locals.
LEMMA TakeStep ==
  ASSUME NEW B, NEW c \in Locals(B), c.row = NoRow => c.open = NoRow,
         NEW b, b.row \in Nat, b.bank \in B
  PROVE  /\ take(c, b) \in Locals(B)
         /\ take(c, b).row = b.row /\ b.bank \in take(c, b).banks
         /\ RowMisses(take(c, b)) = RowMisses(c) + (IF b.row = c.row THEN 0 ELSE 1)
         /\ closes(c, b) => Commands(take(c, b)) = Commands(c) + 1
         /\ ~closes(c, b) => /\ Commands(take(c, b)) = Commands(c)
                             /\ take(c, b).banks = c.banks \cup {b.bank}
<1>1. NoRow \in Int /\ b.row # NoRow /\ b.row \in Int
  BY DEF NoRow
<1>2. /\ c.cmds \in Nat /\ c.hits \in Int /\ c.open \in Int /\ c.row \in Int /\ c.banks \in SUBSET B
      /\ c = [cmds |-> c.cmds, hits |-> c.hits, open |-> c.open, row |-> c.row, banks |-> c.banks]
  BY DEF Locals
<1>3. PICK e : e = take(c, b)
  OBVIOUS
<1>4. CASE ~closes(c, b)
  <2>1. e = [cmds |-> c.cmds, hits |-> c.hits, open |-> c.open, row |-> c.row,
             banks |-> c.banks \cup {b.bank}]
    BY <1>2, <1>3, <1>4 DEF take
  <2>2. b.row = c.row
    BY <1>4 DEF closes
  <2>3. e \in Locals(B)
    BY <1>2, <2>1 DEF Locals
  <2>4. RowMisses(e) = RowMisses(c) /\ Commands(e) = Commands(c) /\ RowMisses(c) \in Int
    BY <1>2, <2>1 DEF RowMisses, Commands
  <2>5. e.row = c.row /\ e.banks = c.banks \cup {b.bank}
    BY <2>1
  <2> QED
    BY <1>3, <1>4, <2>2, <2>3, <2>4, <2>5
<1>5. CASE closes(c, b)
  <2>1. PICK d : d = issue_cmd(c)
    OBVIOUS
  <2>2. PICK nc \in Nat, nh \in Int, no \in Int :
           /\ d = [cmds |-> nc, hits |-> nh, open |-> no, row |-> c.row, banks |-> c.banks]
           /\ nc = Commands(c) /\ nc - nh = RowMisses(c) /\ no = c.row
    <3>1. CASE c.row = NoRow
      <4>1. d = [cmds |-> c.cmds, hits |-> c.hits, open |-> c.open, row |-> c.row, banks |-> c.banks]
        BY <1>2, <2>1, <3>1 DEF issue_cmd
      <4>2. c.cmds = Commands(c) /\ c.cmds - c.hits = RowMisses(c) /\ c.open = c.row
        BY <1>2, <3>1 DEF Commands, RowMisses
      <4> QED
        BY <1>2, <4>1, <4>2
    <3>2. CASE c.row # NoRow
      <4>1. PICK one \in 0 .. 1 : one = IF c.row = c.open THEN 1 ELSE 0
        OBVIOUS
      <4>2. d = [cmds |-> c.cmds + 1, hits |-> c.hits + one, open |-> c.row, row |-> c.row,
                 banks |-> c.banks]
        BY <1>2, <2>1, <3>2, <4>1 DEF issue_cmd
      <4>3. c.cmds + 1 = Commands(c) /\ (c.cmds + 1) - (c.hits + one) = RowMisses(c)
        BY <1>2, <3>2, <4>1 DEF Commands, RowMisses
      <4>4. c.cmds + 1 \in Nat /\ c.hits + one \in Int
        BY <1>2
      <4> QED
        BY <1>2, <4>2, <4>3, <4>4
    <3> QED
      BY <3>1, <3>2
  <2>3. e = [cmds |-> nc, hits |-> nh, open |-> no, row |-> b.row, banks |-> {b.bank}]
    <3>1. e = [d EXCEPT !.row = b.row, !.banks = {b.bank}]
      BY <1>3, <1>5, <2>1, Zenon DEF take
    <3> QED
      BY <2>2, <3>1
  <2>4. e \in Locals(B)
    BY <1>1, <2>3 DEF Locals
  <2>5. Commands(e) = nc + 1 /\ RowMisses(e) = (nc - nh) + (IF b.row = c.row THEN 0 ELSE 1)
    BY <1>1, <1>2, <2>2, <2>3 DEF Commands, RowMisses
  <2>6. e.row = b.row /\ b.bank \in e.banks
    BY <2>3
  <2> QED
    BY <1>3, <1>5, <2>2, <2>4, <2>5, <2>6
<1> QED
  BY <1>4, <1>5

\* The commands and misses of the in-order coalescer, burst by burst: Cs[i] is the
\* command burst i is in, Ms[i] the misses up to it, Ls[i] the row it leaves open.
Run(s, n, Cs, Ms, Ls) ==
    /\ Cs[0] = 0 /\ Ms[0] = 0 /\ Ls[0] = NoRow
    /\ \A i \in 0 .. n : Cs[i] \in Nat /\ Ms[i] \in Int
    /\ \A i \in 1 .. n : /\ Ls[i] = s[i].row
                         /\ Cs[i] \in {Cs[i - 1], Cs[i - 1] + 1} /\ Cs[i] # 0
                         /\ Ms[i] = Ms[i - 1] + (IF s[i].row = Ls[i - 1] THEN 0 ELSE 1)
    /\ \A i, j \in 1 .. n : i < j /\ Cs[i] = Cs[j] => s[i].row = s[j].row /\ s[i].bank # s[j].bank

\* What the coalescer returns are the totals of such a run.
InorderTotals(s, Cs, Ms) ==
    LET o == coalesce_inorder(s)
    IN  o.hits \in Int /\ o.cmds = Cs[Len(s)] /\ o.cmds - o.hits = Ms[Len(s)]

\* Where the loop is after i bursts; the bursts of the current command are in
\* its row and its banks.
LoopState(s, B, g, i) ==
    /\ g[i] \in Locals(B)
    /\ g[i].row = NoRow => g[i].open = NoRow
    /\ i = 0 => g[i] = no_cmd
    /\ i # 0 => g[i].row = s[i].row /\ g[i].row # NoRow
    /\ \A j \in 1 .. i : /\ Commands(g[j]) \in Nat /\ Commands(g[j]) <= Commands(g[i])
                         /\ Commands(g[j]) = Commands(g[i]) =>
                               s[j].row = g[i].row /\ s[j].bank \in g[i].banks

\* The loop as a run.
LEMMA InorderRun ==
  ASSUME NEW R, NEW s \in Seq(R), \A i \in 1 .. Len(s) : s[i].row \in Nat
  PROVE  \E Cs, Ms, Ls : Run(s, Len(s), Cs, Ms, Ls) /\ InorderTotals(s, Cs, Ms)
<1>1. PICK n \in Nat : n = Len(s)
  OBVIOUS
<1>2. PICK g : g = CHOOSE h : Looped(s, h, n)
  OBVIOUS
<1>3. Looped(s, g, n)
  <2>1. \E h : Looped(s, h, n)
    BY LoopExists
  <2> QED
    BY <1>2, <2>1, Zenon
<1>4. \A i \in 0 .. n : g[i] = IF i = 0 THEN no_cmd ELSE take(g[i - 1], s[i])
  BY <1>3 DEF Looped
<1>5. PICK B : B = {s[i].bank : i \in 1 .. n}
  OBVIOUS
<1>6. \A i \in 1 .. n : s[i].row \in Nat /\ s[i].row # NoRow /\ s[i].bank \in B
  BY <1>1, <1>5 DEF NoRow
<1> DEFINE P == {k \in 0 .. n : \A i \in 0 .. k : LoopState(s, B, g, i)}
<1>7. g[0] = no_cmd /\ Commands(no_cmd) = 0 /\ RowMisses(no_cmd) = 0 /\ no_cmd.row = NoRow
  <2>1. 0 \in 0 .. n
    OBVIOUS
  <2>2. g[0] = no_cmd
    BY <1>4, <2>1
  <2>3. no_cmd.cmds = 0 /\ no_cmd.hits = 0 /\ no_cmd.row = NoRow /\ no_cmd.open = NoRow
    BY DEF no_cmd
  <2> QED
    BY <2>2, <2>3 DEF Commands, RowMisses
<1>8. 0 \in P
  <2>1. no_cmd \in Locals(B) /\ no_cmd.open = NoRow /\ no_cmd.row = NoRow
    BY DEF no_cmd, Locals, NoRow
  <2>2. LoopState(s, B, g, 0)
    BY <1>7, <2>1 DEF LoopState
  <2>3. 0 .. 0 = {0} /\ 0 \in 0 .. n
    OBVIOUS
  <2> QED
    BY <2>2, <2>3
<1>9. ASSUME NEW k \in 0 .. n, k < n, LoopState(s, B, g, k)
      PROVE  /\ LoopState(s, B, g, k + 1)
             /\ Commands(g[k + 1]) \in {Commands(g[k]), Commands(g[k]) + 1}
             /\ RowMisses(g[k + 1]) = RowMisses(g[k]) + (IF s[k + 1].row = g[k].row THEN 0 ELSE 1)
             /\ \A j \in 1 .. k : Commands(g[j]) = Commands(g[k + 1]) =>
                   s[j].row = s[k + 1].row /\ s[j].bank # s[k + 1].bank
  <2>1. k + 1 \in 1 .. n /\ k + 1 # 0 /\ (k + 1) - 1 = k /\ k \in Nat
    BY <1>9
  <2>2. PICK c, b, e : c = g[k] /\ b = s[k + 1] /\ e = g[k + 1]
    OBVIOUS
  <2>3. e = take(c, b)
    BY <1>4, <2>1, <2>2
  <2>4. /\ c \in Locals(B) /\ (c.row = NoRow => c.open = NoRow)
        /\ \A j \in 1 .. k : /\ Commands(g[j]) \in Nat /\ Commands(g[j]) <= Commands(c)
                             /\ Commands(g[j]) = Commands(c) =>
                                   s[j].row = c.row /\ s[j].bank \in c.banks
    BY <1>9, <2>2 DEF LoopState
  <2>5. b.row \in Nat /\ b.row # NoRow /\ b.bank \in B
    BY <1>6, <2>1, <2>2
  <2>6. /\ e \in Locals(B) /\ e.row = b.row /\ b.bank \in e.banks
        /\ RowMisses(e) = RowMisses(c) + (IF b.row = c.row THEN 0 ELSE 1)
        /\ closes(c, b) => Commands(e) = Commands(c) + 1
        /\ ~closes(c, b) => Commands(e) = Commands(c) /\ e.banks = c.banks \cup {b.bank}
    BY <2>3, <2>4, <2>5, TakeStep
  <2>7. Commands(c) \in Nat
    <3>1. c.cmds \in Nat
      BY <2>4 DEF Locals
    <3> QED
      BY <3>1 DEF Commands
  <2>8. \A j \in 1 .. k : /\ Commands(g[j]) \in Nat /\ Commands(g[j]) <= Commands(e)
                          /\ Commands(g[j]) = Commands(e) =>
                                /\ s[j].row = e.row /\ s[j].bank \in e.banks /\ s[j].bank # b.bank
    <3> SUFFICES ASSUME NEW j \in 1 .. k
                 PROVE  /\ Commands(g[j]) \in Nat /\ Commands(g[j]) <= Commands(e)
                        /\ Commands(g[j]) = Commands(e) =>
                              /\ s[j].row = e.row /\ s[j].bank \in e.banks /\ s[j].bank # b.bank
      OBVIOUS
    <3>1. PICK x : x = Commands(g[j])
      OBVIOUS
    <3>3. x \in Nat /\ x <= Commands(c) /\ (x = Commands(c) => s[j].row = c.row /\ s[j].bank \in c.banks)
      BY <2>4, <3>1
    <3>4. CASE closes(c, b)
      BY <2>6, <2>7, <3>1, <3>3, <3>4
    <3>5. CASE ~closes(c, b)
      <4>1. b.row = c.row /\ b.bank \notin c.banks
        BY <3>5 DEF closes
      <4> QED
        BY <2>6, <2>7, <3>1, <3>3, <3>5, <4>1
    <3> QED
      BY <3>4, <3>5
  <2>9. Commands(e) \in Nat
    BY <2>6, <2>7
  <2>10. LoopState(s, B, g, k + 1)
    <3>1. 1 .. k + 1 = (1 .. k) \cup {k + 1}
      BY <2>1
    <3> QED
      BY <2>1, <2>2, <2>5, <2>6, <2>8, <2>9, <3>1 DEF LoopState
  <2> QED
    BY <2>2, <2>6, <2>8, <2>10
<1>10. \A k \in 0 .. n : LoopState(s, B, g, k)
  <2>1. ASSUME NEW k \in 0 .. n, k < n, k \in P PROVE k + 1 \in P
    <3>1. LoopState(s, B, g, k)
      BY <2>1
    <3>2. LoopState(s, B, g, k + 1)
      BY <1>9, <2>1, <3>1
    <3>3. 0 .. k + 1 = (0 .. k) \cup {k + 1} /\ k + 1 \in 0 .. n
      BY <2>1
    <3> QED
      BY <2>1, <3>2, <3>3
  <2> HIDE DEF P
  <2>2. n \in P
    BY <1>8, <2>1, UpToInduct
  <2> QED
    BY <2>2 DEF P
<1>11. PICK Cs, Ms, Ls :
          /\ Cs = [i \in 0 .. n |-> Commands(g[i])] /\ Ms = [i \in 0 .. n |-> RowMisses(g[i])]
          /\ Ls = [i \in 0 .. n |-> g[i].row]
  OBVIOUS
<1>12. \A i \in 0 .. n : Cs[i] = Commands(g[i]) /\ Ms[i] = RowMisses(g[i]) /\ Ls[i] = g[i].row
  BY <1>11
<1>13. \A i \in 0 .. n : Cs[i] \in Nat /\ Ms[i] \in Int
  <2> SUFFICES ASSUME NEW i \in 0 .. n PROVE Cs[i] \in Nat /\ Ms[i] \in Int
    OBVIOUS
  <2>1. PICK c : c = g[i]
    OBVIOUS
  <2>2. c.cmds \in Nat /\ c.hits \in Int
    BY <1>10, <2>1 DEF LoopState, Locals
  <2>3. Commands(c) \in Nat /\ RowMisses(c) \in Int
    BY <2>2 DEF Commands, RowMisses
  <2> QED
    BY <1>12, <2>1, <2>3
<1>14. \A i \in 1 .. n : /\ Ls[i] = s[i].row
                         /\ Cs[i] \in {Cs[i - 1], Cs[i - 1] + 1} /\ Cs[i] # 0
                         /\ Ms[i] = Ms[i - 1] + (IF s[i].row = Ls[i - 1] THEN 0 ELSE 1)
  <2> SUFFICES ASSUME NEW i \in 1 .. n
               PROVE  /\ Ls[i] = s[i].row
                      /\ Cs[i] \in {Cs[i - 1], Cs[i - 1] + 1} /\ Cs[i] # 0
                      /\ Ms[i] = Ms[i - 1] + (IF s[i].row = Ls[i - 1] THEN 0 ELSE 1)
    OBVIOUS
  <2>1. PICK k \in 0 .. n : k = i - 1 /\ k < n /\ i = k + 1 /\ i \in 0 .. n /\ i # 0
    <3>1. i - 1 \in 0 .. n /\ i - 1 < n /\ i = (i - 1) + 1 /\ i \in 0 .. n /\ i # 0
      OBVIOUS
    <3> QED
      BY <3>1
  <2>2. /\ Commands(g[i]) \in {Commands(g[k]), Commands(g[k]) + 1}
        /\ RowMisses(g[i]) = RowMisses(g[k]) + (IF s[i].row = g[k].row THEN 0 ELSE 1)
    BY <1>9, <1>10, <2>1
  <2>3. g[i].row = s[i].row /\ g[i].row # NoRow /\ g[i].cmds \in Nat
    BY <1>10, <2>1 DEF LoopState, Locals
  <2>4. Commands(g[i]) # 0
    BY <2>3 DEF Commands
  <2> QED
    BY <1>12, <2>1, <2>2, <2>3, <2>4
<1>15. \A i, j \in 1 .. n : i < j /\ Cs[i] = Cs[j] => s[i].row = s[j].row /\ s[i].bank # s[j].bank
  <2> SUFFICES ASSUME NEW i \in 1 .. n, NEW j \in 1 .. n, i < j, Cs[i] = Cs[j]
               PROVE  s[i].row = s[j].row /\ s[i].bank # s[j].bank
    OBVIOUS
  <2>1. PICK k \in 0 .. n : k < n /\ j = k + 1 /\ i \in 1 .. k
    <3>1. j - 1 \in 0 .. n /\ j - 1 < n /\ j = (j - 1) + 1 /\ i \in 1 .. j - 1
      OBVIOUS
    <3> QED
      BY <3>1
  <2>2. Commands(g[i]) = Commands(g[j])
    BY <1>12
  <2> QED
    BY <1>9, <1>10, <2>1, <2>2
<1>16. Run(s, n, Cs, Ms, Ls)
  <2>1. Cs[0] = 0 /\ Ms[0] = 0 /\ Ls[0] = NoRow
    BY <1>7, <1>12
  <2> QED
    BY <1>13, <1>14, <1>15, <2>1 DEF Run
<1>17. InorderTotals(s, Cs, Ms)
  <2>1. PICK c, e : c = g[n] /\ e = issue_cmd(c)
    OBVIOUS
  <2>2. coalesce_inorder(s) = [cmds |-> e.cmds, hits |-> e.hits]
    BY <1>1, <1>2, <2>1, Zenon DEF coalesce_inorder, Looped
  <2>3. c \in Locals(B) /\ (c.row = NoRow => c.open = NoRow)
    BY <1>10, <2>1 DEF LoopState
  <2>4. e.hits \in Int /\ e.cmds = Commands(c) /\ e.cmds - e.hits = RowMisses(c)
    <3>1. c.cmds \in Nat /\ c.hits \in Int
          /\ c = [cmds |-> c.cmds, hits |-> c.hits, open |-> c.open, row |-> c.row, banks |-> c.banks]
      BY <2>3 DEF Locals
    <3>2. CASE c.row = NoRow
      BY <2>1, <2>3, <3>1, <3>2 DEF issue_cmd, Commands, RowMisses
    <3>3. CASE c.row # NoRow
      <4>1. PICK one \in 0 .. 1 : one = IF c.row = c.open THEN 1 ELSE 0
        OBVIOUS
      <4>2. e.cmds = c.cmds + 1 /\ e.hits = c.hits + one
        BY <2>1, <3>1, <3>3, <4>1 DEF issue_cmd
      <4>3. c.cmds + 1 = Commands(c) /\ (c.cmds + 1) - (c.hits + one) = RowMisses(c)
        BY <3>1, <3>3, <4>1 DEF Commands, RowMisses
      <4> QED
        BY <3>1, <4>2, <4>3
    <3> QED
      BY <3>2, <3>3
  <2>5. Cs[n] = Commands(c) /\ Ms[n] = RowMisses(c)
    BY <1>12, <2>1
  <2> QED
    BY <1>1, <2>2, <2>4, <2>5 DEF InorderTotals
<1> QED
  BY <1>1, <1>16, <1>17

\* Commands are counted up one at a time, and misses are never taken back.
LEMMA Climb ==
  ASSUME NEW s, NEW n \in Nat, NEW Cs, NEW Ms, NEW Ls, Run(s, n, Cs, Ms, Ls),
         NEW a \in 0 .. n, NEW b \in a .. n
  PROVE  Cs[a] <= Cs[b] /\ Cs[b] - Cs[a] <= b - a /\ Ms[a] <= Ms[b]
<1>1. PICK z \in Nat : z = b - a
  <2>1. b - a \in Nat
    OBVIOUS
  <2> QED
    BY <2>1
<1> DEFINE P == {k \in 0 .. z : Cs[a] <= Cs[a + k] /\ Cs[a + k] - Cs[a] <= k /\ Ms[a] <= Ms[a + k]}
<1>2. \A i \in 0 .. n : Cs[i] \in Nat /\ Ms[i] \in Int
  BY DEF Run
<1>3. 0 \in P
  <2>1. a + 0 = a /\ Cs[a] \in Nat /\ Ms[a] \in Int
    BY <1>2
  <2> QED
    BY <1>1, <2>1
<1>4. ASSUME NEW k \in 0 .. z, k < z, k \in P PROVE k + 1 \in P
  <2>1. PICK i \in 0 .. n, j \in 1 .. n : i = a + k /\ j = a + (k + 1) /\ j - 1 = i
    <3>1. a + k \in 0 .. n /\ a + (k + 1) \in 1 .. n /\ (a + (k + 1)) - 1 = a + k
      BY <1>1, <1>4
    <3> QED
      BY <3>1
  <2>2. Cs[j] \in {Cs[i], Cs[i] + 1} /\ Ms[j] = Ms[i] + (IF s[j].row = Ls[i] THEN 0 ELSE 1)
    BY <2>1 DEF Run
  <2>3. Cs[a] \in Nat /\ Cs[i] \in Nat /\ Ms[a] \in Int /\ Ms[i] \in Int /\ k + 1 \in 0 .. z
    BY <1>2, <1>4
  <2>4. Cs[a] <= Cs[i] /\ Cs[i] - Cs[a] <= k /\ Ms[a] <= Ms[i]
    BY <1>4, <2>1
  <2>5. Cs[a] <= Cs[j] /\ Cs[j] - Cs[a] <= k + 1 /\ Ms[a] <= Ms[j]
    BY <2>2, <2>3, <2>4
  <2> QED
    BY <2>1, <2>3, <2>5
<1> HIDE DEF P
<1>5. z \in P
  BY <1>3, <1>4, UpToInduct
<1>6. a + z = b
  BY <1>1
<1> QED
  BY <1>1, <1>5, <1>6 DEF P

-----------------------------------------------------------------------------
(* Windows of a run *)

\* The windows of a list, by the places where it is cut.
CutAt(s, w, ws, E, n) ==
    /\ DOMAIN ws = 1 .. n /\ n = ceil_div(Len(s), w)
    /\ E[0] = 0
    /\ \A k \in 0 .. n : E[k] \in 0 .. Len(s)
    /\ \A k \in 1 .. n : /\ E[k - 1] < E[k]
                         /\ DOMAIN ws[k] = 1 .. E[k] - E[k - 1] /\ Len(ws[k]) = E[k] - E[k - 1]
                         /\ \A j \in 1 .. E[k] - E[k - 1] : ws[k][j] = s[E[k - 1] + j]

\* ... every w bursts, and at the end.
LEMMA Cuts ==
  ASSUME NEW R, NEW s \in Seq(R), NEW w \in Nat \ {0}
  PROVE  \E E, n : n \in Nat /\ CutAt(s, w, Windows(s, w), E, n)
<1>1. PICK z \in Nat : z = Len(s)
  OBVIOUS
<1>2. PICK n \in Nat : n = ceil_div(z, w)
  BY CeilFacts
<1>3. PICK ws : ws = Windows(s, w)
  OBVIOUS
<1>4. PICK E : E = [k \in 0 .. n |-> Min({k * w, z})]
  OBVIOUS
<1>5. \A k \in 0 .. n : /\ E[k] = Min({k * w, z}) /\ E[k] \in 0 .. z
                        /\ k * w <= z => E[k] = k * w
  <2> SUFFICES ASSUME NEW k \in 0 .. n
               PROVE  /\ E[k] = Min({k * w, z}) /\ E[k] \in 0 .. z
                      /\ k * w <= z => E[k] = k * w
    OBVIOUS
  <2>1. PICK x \in Nat : x = k * w
    OBVIOUS
  <2>2. Min({x, z}) \in {x, z} /\ \A y \in {x, z} : Min({x, z}) <= y
    <3>1. {x, z} \subseteq Nat /\ {x, z} # {}
      OBVIOUS
    <3> QED
      BY <3>1, NatMin
  <2>3. E[k] = Min({x, z})
    BY <1>4, <2>1
  <2>4. E[k] \in 0 .. z
    BY <2>2, <2>3
  <2>5. x <= z => E[k] = x
    BY <2>2, <2>3
  <2> QED
    BY <2>1, <2>3, <2>4, <2>5
<1>6. E[0] = 0
  <2>1. 0 \in 0 .. n /\ 0 * w = 0 /\ 0 <= z
    OBVIOUS
  <2> QED
    BY <1>5, <2>1
<1>7. ASSUME NEW k \in 1 .. n
      PROVE  /\ E[k - 1] < E[k]
             /\ DOMAIN ws[k] = 1 .. E[k] - E[k - 1] /\ Len(ws[k]) = E[k] - E[k - 1]
             /\ \A j \in 1 .. E[k] - E[k - 1] : ws[k][j] = s[E[k - 1] + j]
  <2>1. Stretch(R, s, w, k)
    BY <1>1, <1>2, WindowStretch
  <2>2. PICK v, a : v = ws[k] /\ a = (k - 1) * w
    OBVIOUS
  <2>3. PICK l \in Nat \ {0} : /\ l = Min({k * w, z}) - a
                               /\ v \in Seq(R) /\ Len(v) = l
                               /\ \A j \in 1 .. l : v[j] = s[a + j]
    BY <1>1, <1>3, <2>1, <2>2, Zenon DEF Stretch
  <2>4. DOMAIN v = 1 .. l
    BY <2>3
  <2>5. (k - 1) * w \in Nat /\ (k - 1) * w < z
    BY <1>2, CeilFacts
  <2>6. E[k - 1] = a /\ a \in Nat
    <3>1. k - 1 \in 0 .. n
      OBVIOUS
    <3>2. a <= z /\ a \in Nat
      BY <2>2, <2>5
    <3> QED
      BY <1>5, <2>2, <3>1, <3>2
  <2>7. E[k] = Min({k * w, z}) /\ E[k] \in Nat
    BY <1>5
  <2>8. l = E[k] - a /\ a < E[k]
    <3>1. l = E[k] - a
      BY <2>3, <2>7
    <3> QED
      BY <2>3, <2>6, <2>7, <3>1
  <2> QED
    BY <2>2, <2>3, <2>4, <2>6, <2>8
<1>8. DOMAIN ws = 1 .. n
  BY <1>1, <1>2, <1>3 DEF Windows
<1>9. CutAt(s, w, ws, E, n)
  BY <1>1, <1>2, <1>5, <1>6, <1>7, <1>8 DEF CutAt
<1> QED
  BY <1>3, <1>9

\* A legal schedule of a window is no shorter than the count.
LEMMA NoShorter ==
  ASSUME NEW n \in Nat, NEW win, DOMAIN win = 1 .. n, NEW f \in Legal(win)
  PROVE  row_cmds(win) <= Cardinality(Used(win, f))
<1>1. PICK C : C = {Cardinality(Used(win, e)) : e \in Legal(win)}
  OBVIOUS
<1>2. \A e \in Legal(win) : Cardinality(Used(win, e)) \in Nat
  <2> SUFFICES ASSUME NEW e \in Legal(win) PROVE Cardinality(Used(win, e)) \in Nat
    OBVIOUS
  <2>1. Used(win, e) \in SUBSET (1 .. n)
    BY DEF Legal, Used
  <2> QED
    BY <2>1, UpTo, FS_Subset, FS_CardinalityType
<1>3. C \subseteq Nat /\ Cardinality(Used(win, f)) \in C
  BY <1>1, <1>2
<1>4. Min(C) <= Cardinality(Used(win, f))
  BY <1>3, NatMin
<1>5. LeastCommands(win) = Min(C)
  <2>1. C = {Cardinality({e[i] : i \in DOMAIN win}) : e \in Legal(win)}
    BY <1>1, Zenon DEF Used
  <2> QED
    BY <2>1, Zenon DEF LeastCommands, Legal
<1> QED
  BY <1>4, <1>5, CountIsLeast

\* The bursts of a window are in as few commands as they are in order.
LEMMA CommandsOfWindow ==
  ASSUME NEW s, NEW n \in Nat, NEW Cs, NEW Ms, NEW Ls, Run(s, n, Cs, Ms, Ls),
         NEW a \in 0 .. n, NEW b \in a + 1 .. n,
         NEW win, DOMAIN win = 1 .. b - a, \A j \in 1 .. b - a : win[j] = s[a + j]
  PROVE  row_cmds(win) <= Cs[b] - Cs[a + 1] + 1
<1>1. PICK l \in Nat \ {0} : l = b - a
  <2>1. b - a \in Nat \ {0}
    OBVIOUS
  <2> QED
    BY <2>1
<1>2. PICK f : f = [j \in 1 .. l |-> Cs[a + j] - Cs[a + 1] + 1]
  OBVIOUS
<1>3. PICK o \in 1 .. n : o = a + 1
  BY <1>1
<1>4. PICK x \in Nat : x = Cs[o]
  <2>1. o \in 0 .. n
    OBVIOUS
  <2> QED
    BY <2>1 DEF Run
<1>5. PICK y \in Nat : y = Cs[b]
  <2>1. b \in 0 .. n
    OBVIOUS
  <2> QED
    BY <2>1 DEF Run
<1>6. PICK u \in Nat : u = y - x + 1
  <2>1. o \in 0 .. n /\ b \in o .. n
    BY <1>3
  <2>2. x <= y
    BY <1>4, <1>5, <2>1, Climb
  <2> QED
    BY <2>2
<1>7. ASSUME NEW j \in 1 .. l
      PROVE  f[j] = Cs[a + j] - x + 1 /\ Cs[a + j] \in Nat /\ f[j] \in 1 .. l /\ f[j] \in 1 .. u
  <2>1. PICK i \in 1 .. n : i = a + j
    BY <1>1
  <2>2. o \in 0 .. n /\ i \in o .. n /\ i \in 0 .. n /\ b \in i .. n /\ i - o = j - 1
    BY <1>1, <1>3, <2>1
  <2>3. PICK v \in Nat : v = Cs[i]
    BY <2>2 DEF Run
  <2>4. x <= v /\ v - x <= i - o
    BY <1>4, <2>2, <2>3, Climb
  <2>5. v <= y
    BY <1>5, <2>2, <2>3, Climb
  <2>6. f[j] = v - x + 1
    BY <1>2, <1>3, <1>4, <2>1, <2>3
  <2>7. v - x + 1 \in 1 .. l /\ v - x + 1 \in 1 .. u
    BY <1>6, <2>2, <2>4, <2>5
  <2>8. Cs[a + j] = v
    BY <2>1, <2>3
  <2> QED
    BY <2>3, <2>6, <2>7, <2>8
<1>8. f \in Legal(win)
  <2>1. f \in [1 .. l -> 1 .. l] /\ DOMAIN win = 1 .. l
    BY <1>1, <1>2, <1>7
  <2>2. ASSUME NEW i \in 1 .. l, NEW j \in 1 .. l, i < j, f[i] = f[j]
        PROVE  win[i].row = win[j].row /\ win[i].bank # win[j].bank
    <3>1. PICK p \in 1 .. n, q \in 1 .. n : p = a + i /\ q = a + j /\ p < q
      <4>1. a + i \in 1 .. n /\ a + j \in 1 .. n /\ a + i < a + j
        BY <1>1, <2>2
      <4> QED
        BY <4>1
    <3>2. Cs[p] = Cs[q]
      <4>1. f[i] = Cs[p] - x + 1 /\ Cs[p] \in Nat
        BY <1>7, <3>1
      <4>2. f[j] = Cs[q] - x + 1 /\ Cs[q] \in Nat
        BY <1>7, <3>1
      <4>3. PICK v \in Nat, r \in Nat : v = Cs[p] /\ r = Cs[q]
        BY <4>1, <4>2
      <4>4. v - x + 1 = r - x + 1
        BY <2>2, <4>1, <4>2, <4>3
      <4>5. v = r
        BY <4>4
      <4> QED
        BY <4>3, <4>5
    <3>3. s[p].row = s[q].row /\ s[p].bank # s[q].bank
      BY <3>1, <3>2 DEF Run
    <3>4. win[i] = s[p] /\ win[j] = s[q]
      BY <1>1, <3>1
    <3> QED
      BY <3>3, <3>4
  <2> QED
    BY <2>1, <2>2 DEF Legal
<1>9. Used(win, f) \in SUBSET (1 .. u)
  BY <1>1, <1>7 DEF Used
<1>10. Cardinality(Used(win, f)) <= u /\ Cardinality(Used(win, f)) \in Nat
  <2>1. IsFiniteSet(1 .. u) /\ Cardinality(1 .. u) = u
    BY UpTo
  <2>2. /\ IsFiniteSet(Used(win, f)) /\ Cardinality(Used(win, f)) <= Cardinality(1 .. u)
    BY <1>9, <2>1, FS_Subset
  <2>3. Cardinality(Used(win, f)) \in Nat
    BY <2>2, FS_CardinalityType
  <2> QED
    BY <2>1, <2>2, <2>3
<1>11. row_cmds(win) <= Cardinality(Used(win, f)) /\ row_cmds(win) \in Nat
  BY <1>1, <1>8, NoShorter, RowsFinite
<1> QED
  BY <1>3, <1>4, <1>5, <1>6, <1>10, <1>11

\* A row of a window that is not open when the window starts is missed within it
\* in order, too.
LEMMA MissesOfWindow ==
  ASSUME NEW s, NEW n \in Nat, NEW Cs, NEW Ms, NEW Ls, Run(s, n, Cs, Ms, Ls),
         NEW a \in 0 .. n, NEW b \in a + 1 .. n,
         NEW win, DOMAIN win = 1 .. b - a, \A j \in 1 .. b - a : win[j] = s[a + j]
  PROVE  Cardinality(RowsRead(win) \ {Ls[a]}) <= Ms[b] - Ms[a]
<1>1. PICK l \in Nat \ {0} : l = b - a
  <2>1. b - a \in Nat \ {0}
    OBVIOUS
  <2> QED
    BY <2>1
<1> DEFINE Rows(k) == {s[a + j].row : j \in 1 .. k} \ {Ls[a]}
           Few(k) == /\ IsFiniteSet(Rows(k)) /\ Cardinality(Rows(k)) \in Nat
                     /\ Cardinality(Rows(k)) <= Ms[a + k] - Ms[a]
                     /\ Ls[a + k] \in Rows(k) \cup {Ls[a]}
           P == {k \in 0 .. l : Few(k)}
<1>2. 0 \in P
  <2>1. Rows(0) = {} /\ a + 0 = a
    OBVIOUS
  <2>2. IsFiniteSet({}) /\ Cardinality({}) = 0
    BY FS_EmptySet
  <2>3. Ms[a] - Ms[a] = 0
    BY DEF Run
  <2> HIDE DEF Rows
  <2>4. /\ IsFiniteSet(Rows(0)) /\ Cardinality(Rows(0)) = 0
    BY <2>1, <2>2
  <2>5. Ms[a + 0] - Ms[a] = 0 /\ Ls[a + 0] = Ls[a]
    BY <2>1, <2>3
  <2>6. Few(0)
    BY <2>4, <2>5
  <2>7. 0 \in 0 .. l
    BY <1>1
  <2> HIDE DEF Few
  <2> QED
    BY <2>6, <2>7
<1>3. ASSUME NEW k \in 0 .. l, k < l, Few(k) PROVE Few(k + 1)
  <2>1. PICK i \in 0 .. n, j \in 1 .. n : i = a + k /\ j = a + (k + 1) /\ j - 1 = i
    <3>1. a + k \in 0 .. n /\ a + (k + 1) \in 1 .. n /\ (a + (k + 1)) - 1 = a + k
      BY <1>1, <1>3
    <3> QED
      BY <3>1
  <2>2. PICK x \in Int, y \in Int, z \in Int : x = Ms[i] /\ y = Ms[j] /\ z = Ms[a]
    <3>1. j \in 0 .. n
      OBVIOUS
    <3> QED
      BY <3>1 DEF Run
  <2>3. PICK r : r = s[j].row
    OBVIOUS
  <2>4. Ls[j] = r /\ y = x + (IF r = Ls[i] THEN 0 ELSE 1)
    BY <2>1, <2>2, <2>3 DEF Run
  <2>5. PICK S, T : S = Rows(k) /\ T = Rows(k + 1)
    OBVIOUS
  <2>6. T = (S \cup {r}) \ {Ls[a]}
    <3>1. 1 .. k + 1 = (1 .. k) \cup {k + 1}
      OBVIOUS
    <3>2. s[a + (k + 1)].row = r
      BY <2>1, <2>3
    <3>3. {s[a + h].row : h \in 1 .. k + 1} = {s[a + h].row : h \in 1 .. k} \cup {r}
      BY <3>1, <3>2, Zenon
    <3> QED
      BY <2>5, <3>3
  <2>7. PICK c \in Nat : c = Cardinality(S) /\ c <= x - z /\ IsFiniteSet(S) /\ Ls[i] \in S \cup {Ls[a]}
    <3>1. /\ IsFiniteSet(S) /\ Cardinality(S) \in Nat
          /\ Cardinality(S) <= Ms[a + k] - Ms[a] /\ Ls[a + k] \in S \cup {Ls[a]}
      <4> HIDE DEF Rows
      <4>1. S = Rows(k) /\ Few(k)
        BY <1>3, <2>5
      <4> QED
        BY <4>1
    <3>2. Cardinality(S) <= x - z /\ Ls[i] \in S \cup {Ls[a]}
      BY <2>1, <2>2, <3>1
    <3> QED
      BY <3>1, <3>2
  <2>8. Ls[a] \notin S
    BY <2>5
  <2>9. IsFiniteSet(T) /\ Cardinality(T) \in Nat /\ Cardinality(T) <= y - z
    <3>1. CASE r \in S \cup {Ls[a]}
      <4>1. T = S
        BY <2>6, <2>8, <3>1
      <4>2. x <= y
        BY <2>4
      <4> QED
        BY <2>7, <4>1, <4>2
    <3>2. CASE r \notin S \cup {Ls[a]}
      <4>1. T = S \cup {r} /\ r # Ls[i]
        BY <2>6, <2>7, <2>8, <3>2
      <4>2. IsFiniteSet(S \cup {r}) /\ Cardinality(S \cup {r}) = c + 1
        BY <2>7, <3>2, FS_AddElement
      <4>3. y = x + 1
        BY <2>4, <4>1
      <4> QED
        BY <2>7, <4>1, <4>2, <4>3
    <3> QED
      BY <3>1, <3>2
  <2>10. Ls[j] \in T \cup {Ls[a]}
    BY <2>4, <2>6
  <2> HIDE DEF Rows
  <2> QED
    BY <2>1, <2>2, <2>5, <2>9, <2>10
<1>4. l \in P
  <2>1. ASSUME NEW k \in 0 .. l, k < l, k \in P PROVE k + 1 \in P
    <3>1. k + 1 \in 0 .. l
      BY <2>1
    <3> HIDE DEF Few
    <3> QED
      BY <1>3, <2>1, <3>1
  <2> HIDE DEF P
  <2> QED
    BY <1>2, <2>1, UpToInduct
<1>5. RowsRead(win) \ {Ls[a]} = Rows(l)
  BY <1>1 DEF RowsRead
<1>6. a + l = b
  BY <1>1
<1> QED
  <2>1. Cardinality(Rows(l)) <= Ms[a + l] - Ms[a]
    BY <1>4
  <2> HIDE DEF Rows
  <2> QED
    BY <1>5, <1>6, <2>1

\* A sum of steps is bounded by the whole climb.
LEMMA Telescope ==
  ASSUME NEW n \in Nat, NEW f, NEW H, H[0] = 0, \A k \in 0 .. n : H[k] \in Int,
         \A k \in 1 .. n : f[k] \in Int /\ f[k] <= H[k] - H[k - 1]
  PROVE  SumFunctionOnSet(f, 1 .. n) <= H[n]
<1> DEFINE P == {k \in 0 .. n : SumFunctionOnSet(f, 1 .. k) <= H[k]}
<1>1. 0 \in P
  <2>1. 1 .. 0 = {} /\ 0 \in 0 .. n
    OBVIOUS
  <2>2. SumFunctionOnSet(f, 1 .. 0) = 0
    BY <2>1, SumEmpty
  <2> QED
    BY <2>1, <2>2
<1>2. ASSUME NEW k \in 0 .. n, k < n, k \in P PROVE k + 1 \in P
  <2>1. PICK j \in 1 .. n : j = k + 1 /\ j - 1 = k /\ j \in 0 .. n
    <3>1. k + 1 \in 1 .. n /\ (k + 1) - 1 = k /\ k + 1 \in 0 .. n
      BY <1>2
    <3> QED
      BY <3>1
  <2>2. PICK S : S = 1 .. k
    OBVIOUS
  <2>3. IsFiniteSet(S) /\ j \notin S /\ S \cup {j} = 1 .. k + 1
    <3>1. k \in Nat
      OBVIOUS
    <3> QED
      BY <2>1, <2>2, <3>1, UpTo
  <2>4. \A y \in S \cup {j} : f[y] \in Int
    BY <1>2, <2>1, <2>2
  <2>5. SumFunctionOnSet(f, S \cup {j}) = f[j] + SumFunctionOnSet(f, S)
    BY <2>3, <2>4, SumAdd
  <2>6. SumFunctionOnSet(f, S) \in Int
    BY <2>3, <2>4, SumRemove
  <2>7. f[j] \in Int /\ f[j] <= H[j] - H[k] /\ H[j] \in Int /\ H[k] \in Int
    BY <2>1
  <2>8. SumFunctionOnSet(f, S) <= H[k]
    BY <1>2, <2>2
  <2>9. SumFunctionOnSet(f, S \cup {j}) <= H[j]
    BY <2>5, <2>6, <2>7, <2>8
  <2> QED
    BY <2>1, <2>3, <2>9
<1> HIDE DEF P
<1>3. n \in P
  BY <1>1, <1>2, UpToInduct
<1> QED
  BY <1>3 DEF P

\* What a channel pays with reordering, and in order.
Bounded(s, w) ==
    LET c == row_window(s, w)
        o == coalesce_inorder(s)
        cuts == ceil_div(Len(s), w) - 1
    IN  /\ c.cmds \in Nat /\ o.cmds \in Nat /\ c.hits \in Int /\ o.hits \in Int /\ cuts \in Nat
        /\ c.cmds <= o.cmds + cuts
        /\ c.cmds - c.hits <= o.cmds - o.hits

\* The counted commands exceed those in order by at most one per cut, the
\* misses by none.
LEMMA InorderBound ==
  ASSUME NEW R, NEW s \in Seq(R), NEW w \in Nat \ {0}, Len(s) # 0,
         \A i \in 1 .. Len(s) : s[i].row \in Nat
  PROVE  Bounded(s, w)
<1>1. PICK z \in Nat \ {0} : z = Len(s)
  <2>1. Len(s) \in Nat
    OBVIOUS
  <2> QED
    BY <2>1
<1>2. PICK ws : ws = Windows(s, w)
  OBVIOUS
<1>3. PICK E, n : n \in Nat /\ CutAt(s, w, ws, E, n)
  BY <1>2, Cuts
<1>4. PICK Cs, Ms, Ls : Run(s, z, Cs, Ms, Ls) /\ InorderTotals(s, Cs, Ms)
  BY <1>1, InorderRun
<1>5. n # 0
  <2>1. 1 \in 1 .. Len(s)
    BY <1>1
  <2>2. InSome(s, w, 1)
    BY <2>1, WindowOf
  <2>3. n = ceil_div(Len(s), w)
    BY <1>3 DEF CutAt
  <2> QED
    BY <2>2, <2>3 DEF InSome
<1>6. /\ DOMAIN ws = 1 .. n /\ n = ceil_div(z, w) /\ E[0] = 0
      /\ \A k \in 0 .. n : E[k] \in 0 .. z
      /\ \A k \in 1 .. n : /\ E[k - 1] < E[k]
                           /\ DOMAIN ws[k] = 1 .. E[k] - E[k - 1] /\ Len(ws[k]) = E[k] - E[k - 1]
                           /\ \A j \in 1 .. E[k] - E[k - 1] : ws[k][j] = s[E[k - 1] + j]
  BY <1>1, <1>3 DEF CutAt
<1>7. ASSUME NEW k \in 1 .. n
      PROVE  /\ E[k - 1] \in 0 .. z /\ E[k] \in E[k - 1] + 1 .. z /\ k - 1 \in 0 .. n
             /\ DOMAIN ws[k] = 1 .. E[k] - E[k - 1]
             /\ \A j \in 1 .. E[k] - E[k - 1] : ws[k][j] = s[E[k - 1] + j]
  <2>1. k - 1 \in 0 .. n /\ k \in 0 .. n
    BY <1>3
  <2>2. E[k - 1] \in 0 .. z /\ E[k] \in 0 .. z /\ E[k - 1] < E[k]
    BY <1>6, <2>1
  <2> QED
    BY <1>6, <2>1, <2>2
<1>8. \A k \in 1 .. n : carry(ws, k) = Ls[E[k - 1]]
  <2> SUFFICES ASSUME NEW k \in 1 .. n PROVE carry(ws, k) = Ls[E[k - 1]]
    OBVIOUS
  <2>1. CASE k = 1
    <3>1. carry(ws, k) = NoRow
      BY <2>1 DEF carry
    <3>2. Ls[0] = NoRow
      BY <1>4 DEF Run
    <3> QED
      BY <1>6, <2>1, <3>1, <3>2
  <2>2. CASE k # 1
    <3>1. PICK h \in 1 .. n : h = k - 1
      BY <1>3, <2>2
    <3>2. PICK a \in 0 .. z, b \in 1 .. z : a = E[h - 1] /\ b = E[h] /\ a < b
      <4>1. E[h - 1] \in 0 .. z /\ E[h] \in E[h - 1] + 1 .. z
        BY <1>7
      <4>2. E[h] \in 1 .. z /\ E[h - 1] < E[h]
        BY <4>1
      <4> QED
        BY <4>1, <4>2
    <3>3. Len(ws[h]) = b - a /\ ws[h][b - a] = s[a + (b - a)]
      <4>1. b - a \in 1 .. b - a
        BY <3>2
      <4> QED
        BY <1>6, <3>2, <4>1
    <3>4. a + (b - a) = b
      OBVIOUS
    <3>5. Last(ws[h]) = s[b]
      BY <3>3, <3>4 DEF Last
    <3>6. carry(ws, k) = s[b].row
      BY <2>2, <3>1, <3>5 DEF carry
    <3>7. Ls[b] = s[b].row
      BY <1>4 DEF Run
    <3> QED
      BY <3>1, <3>2, <3>6, <3>7
  <2> QED
    BY <2>1, <2>2
<1>9. PICK c, o : c = [k \in DOMAIN ws |-> row_cmds(ws[k])]
                  /\ o = [k \in DOMAIN ws |-> Cardinality(RowsRead(ws[k]) \ {carry(ws, k)})]
  OBVIOUS
<1>10. ASSUME NEW k \in 1 .. n
       PROVE  /\ c[k] \in Nat /\ o[k] \in Nat
              /\ c[k] <= Cs[E[k]] - Cs[E[k - 1] + 1] + 1
              /\ o[k] <= Ms[E[k]] - Ms[E[k - 1]]
  <2>1. PICK win : win = ws[k]
    OBVIOUS
  <2>2. PICK a \in 0 .. z : a = E[k - 1]
    BY <1>7
  <2>3. PICK b \in a + 1 .. z : b = E[k]
    BY <1>7, <2>2
  <2>4. DOMAIN win = 1 .. b - a /\ \A j \in 1 .. b - a : win[j] = s[a + j]
    BY <1>7, <2>1, <2>2, <2>3
  <2>5. c[k] = row_cmds(win) /\ o[k] = Cardinality(RowsRead(win) \ {Ls[a]})
    BY <1>6, <1>8, <1>9, <2>1, <2>2
  <2>6. row_cmds(win) <= Cs[b] - Cs[a + 1] + 1
    BY <1>4, <2>4, CommandsOfWindow
  <2>7. Cardinality(RowsRead(win) \ {Ls[a]}) <= Ms[b] - Ms[a]
    BY <1>4, <2>4, MissesOfWindow
  <2>8. PICK l \in Nat : l = b - a
    <3>1. b - a \in Nat
      OBVIOUS
    <3> QED
      BY <3>1
  <2>9. IsFiniteSet(RowsRead(win)) /\ row_cmds(win) \in Nat
    BY <2>4, <2>8, RowsFinite
  <2>10. IsFiniteSet(RowsRead(win) \ {Ls[a]})
    BY <2>9, FS_RemoveElement
  <2>11. Cardinality(RowsRead(win) \ {Ls[a]}) \in Nat
    BY <2>10, FS_CardinalityType
  <2> QED
    BY <2>2, <2>3, <2>5, <2>6, <2>7, <2>9, <2>11
<1>11. PICK H, G : /\ H = [k \in 0 .. n |-> Cs[E[k]] + (IF k = 0 THEN 0 ELSE k - 1)]
                   /\ G = [k \in 0 .. n |-> Ms[E[k]]]
  OBVIOUS
<1>12. \A k \in 0 .. n : /\ Cs[E[k]] \in Nat /\ Ms[E[k]] \in Int
                         /\ H[k] = Cs[E[k]] + (IF k = 0 THEN 0 ELSE k - 1) /\ G[k] = Ms[E[k]]
                         /\ H[k] \in Int /\ G[k] \in Int
  <2> SUFFICES ASSUME NEW k \in 0 .. n
               PROVE  /\ Cs[E[k]] \in Nat /\ Ms[E[k]] \in Int
                      /\ H[k] = Cs[E[k]] + (IF k = 0 THEN 0 ELSE k - 1) /\ G[k] = Ms[E[k]]
                      /\ H[k] \in Int /\ G[k] \in Int
    OBVIOUS
  <2>1. PICK e \in 0 .. z : e = E[k]
    BY <1>6
  <2>2. PICK x \in Nat, y \in Int : x = Cs[e] /\ y = Ms[e]
    BY <1>4, <2>1 DEF Run
  <2>3. H[k] = x + (IF k = 0 THEN 0 ELSE k - 1) /\ G[k] = y
    BY <1>11, <2>1, <2>2
  <2> QED
    BY <2>1, <2>2, <2>3
<1>13. H[0] = 0 /\ G[0] = 0
  <2>1. 0 \in 0 .. n /\ Cs[0] = 0 /\ Ms[0] = 0
    BY <1>3, <1>4 DEF Run
  <2>2. H[0] = Cs[0] + 0 /\ G[0] = Ms[0]
    BY <1>6, <1>12, <2>1
  <2> QED
    BY <2>1, <2>2
<1>14. \A k \in 1 .. n : c[k] \in Int /\ c[k] <= H[k] - H[k - 1]
  <2> SUFFICES ASSUME NEW k \in 1 .. n PROVE c[k] \in Int /\ c[k] <= H[k] - H[k - 1]
    OBVIOUS
  <2>1. PICK h \in 0 .. n : h = k - 1 /\ k \in 0 .. n
    BY <1>7
  <2>2. PICK a \in 0 .. z : a = E[h]
    BY <1>6
  <2>3. PICK b \in a + 1 .. z : b = E[k]
    BY <1>7, <2>1, <2>2
  <2>4. PICK x \in Nat, y \in Nat, q \in Nat : x = Cs[a] /\ y = Cs[b] /\ q = Cs[a + 1]
    <3>1. b \in 0 .. z /\ a + 1 \in 0 .. z
      OBVIOUS
    <3> QED
      BY <1>4, <3>1 DEF Run
  <2>5. PICK v \in Nat : v = c[k] /\ v <= y - q + 1
    BY <1>10, <2>1, <2>2, <2>3, <2>4
  <2>6. q >= x /\ q # 0
    <3>1. PICK o1 \in 1 .. z : o1 = a + 1 /\ o1 - 1 = a
      <4>1. a + 1 \in 1 .. z /\ (a + 1) - 1 = a
        OBVIOUS
      <4> QED
        BY <4>1
    <3>2. Cs[o1] \in {Cs[a], Cs[a] + 1} /\ Cs[o1] # 0
      BY <1>4, <3>1 DEF Run
    <3> QED
      BY <2>4, <3>1, <3>2
  <2>7. H[k] = y + (k - 1) /\ H[h] = x + (IF h = 0 THEN 0 ELSE h - 1)
    BY <1>12, <2>1, <2>2, <2>3, <2>4
  <2>8. CASE h = 0
    <3>1. x = 0 /\ k = 1
      BY <1>13, <2>1, <2>7, <2>8
    <3> QED
      BY <2>1, <2>5, <2>6, <2>7, <2>8, <3>1
  <2>9. CASE h # 0
    BY <2>1, <2>5, <2>6, <2>7, <2>9
  <2> QED
    BY <2>8, <2>9
<1>15. SumFunctionOnSet(c, 1 .. n) <= H[n]
  BY <1>3, <1>12, <1>13, <1>14, Telescope
<1>16. \A k \in 1 .. n : o[k] \in Int /\ o[k] <= G[k] - G[k - 1]
  <2> SUFFICES ASSUME NEW k \in 1 .. n PROVE o[k] \in Int /\ o[k] <= G[k] - G[k - 1]
    OBVIOUS
  <2>1. k \in 0 .. n /\ k - 1 \in 0 .. n
    BY <1>3
  <2>2. G[k] = Ms[E[k]] /\ G[k - 1] = Ms[E[k - 1]]
    BY <1>12, <2>1
  <2> QED
    BY <1>10, <2>2
<1>17. SumFunctionOnSet(o, 1 .. n) <= G[n]
  BY <1>3, <1>12, <1>13, <1>16, Telescope
<1>18. SumFunctionOnSet(c, 1 .. n) \in Nat /\ SumFunctionOnSet(o, 1 .. n) \in Nat
  <2>1. IsFiniteSet(1 .. n)
    BY <1>3, UpTo
  <2>2. \A k \in 1 .. n : c[k] \in Nat /\ o[k] \in Nat
    BY <1>10
  <2> QED
    BY <2>1, <2>2, SumNat
<1>19. PICK sc \in Nat, so \in Nat : sc = SumFunctionOnSet(c, 1 .. n) /\ so = SumFunctionOnSet(o, 1 .. n)
  BY <1>18
<1>20. row_window(s, w).cmds = sc /\ row_window(s, w).hits = sc - so
  BY <1>2, <1>6, <1>9, <1>19 DEF row_window
<1>21. PICK e \in 0 .. z, x \in Nat, y \in Int, t \in Nat, u \in Int :
          /\ e = E[n] /\ x = Cs[e] /\ y = Ms[e] /\ t = Cs[z] /\ u = Ms[z]
  <2>1. n \in 0 .. n /\ z \in 0 .. z
    BY <1>3
  <2>2. E[n] \in 0 .. z
    BY <1>6, <2>1
  <2> QED
    BY <1>4, <2>1, <2>2 DEF Run
<1>22. x <= t /\ y <= u
  <2>1. z \in e .. z
    OBVIOUS
  <2> QED
    BY <1>4, <1>21, <2>1, Climb
<1>23. sc <= x + (n - 1) /\ so <= y
  <2>1. n \in 0 .. n
    BY <1>3
  <2>2. H[n] = x + (n - 1) /\ G[n] = y
    BY <1>5, <1>12, <1>21, <2>1
  <2> QED
    BY <1>15, <1>17, <1>19, <2>2
<1>24. PICK oc, oh : oc = coalesce_inorder(s).cmds /\ oh = coalesce_inorder(s).hits
  OBVIOUS
<1>25. oh \in Int /\ oc = t /\ oc - oh = u
  BY <1>1, <1>4, <1>21, <1>24 DEF InorderTotals
<1> QED
  <2>1. n = ceil_div(Len(s), w) /\ n - 1 \in Nat
    BY <1>1, <1>3, <1>5, <1>6
  <2>2. sc <= oc + (n - 1) /\ sc - (sc - so) <= oc - oh
    BY <1>3, <1>22, <1>23, <1>25
  <2>3. sc - so \in Int
    OBVIOUS
  <2> QED
    BY <1>20, <1>24, <1>25, <2>1, <2>2, <2>3 DEF Bounded

-----------------------------------------------------------------------------
(* The latency of a sequence *)

\* A channel receives as many bursts as are its own.
LEMMA OwnCount ==
  ASSUME NEW R, NEW l \in Seq(R), NEW c
  PROVE  Len(OfChannel(l, c)) = Cardinality({i \in DOMAIN l : l[i].ch = c})
<1>1. PICK n \in Nat : n = Len(l)
  OBVIOUS
<1>2. PICK g : g = CHOOSE h : Filtered(l, c, h, n)
  OBVIOUS
<1>3. Filtered(l, c, g, n)
  <2>1. \E h : Filtered(l, c, h, n)
    BY FilteredExists
  <2> QED
    BY <1>2, <2>1, Zenon
<1>4. OfChannel(l, c) = g[n]
  BY <1>1, <1>2, Zenon DEF OfChannel, Filtered
<1>5. \A i \in 0 .. n : g[i] = IF i = 0 THEN << >>
                               ELSE IF l[i].ch = c THEN Append(g[i - 1], l[i]) ELSE g[i - 1]
  BY <1>3 DEF Filtered
<1>6. DOMAIN l = 1 .. n /\ \A i \in 1 .. n : l[i] \in R
  BY <1>1
<1> DEFINE Own(k) == {i \in 1 .. k : l[i].ch = c}
           P == {k \in 0 .. n : /\ g[k] \in Seq(R) /\ IsFiniteSet(Own(k))
                                /\ Len(g[k]) = Cardinality(Own(k))}
<1>7. 0 \in P
  <2>1. 0 \in 0 .. n
    OBVIOUS
  <2>2. g[0] = << >>
    BY <1>5, <2>1
  <2>3. << >> \in Seq(R) /\ Len(<< >>) = 0
    OBVIOUS
  <2>4. Own(0) = {}
    OBVIOUS
  <2>5. IsFiniteSet({}) /\ Cardinality({}) = 0
    BY FS_EmptySet
  <2> HIDE DEF Own
  <2> QED
    BY <2>1, <2>2, <2>3, <2>4, <2>5
<1>8. ASSUME NEW k \in 0 .. n, k < n, k \in P PROVE k + 1 \in P
  <2>1. l[k + 1] \in R /\ k \in Nat /\ k + 1 # 0 /\ (k + 1) - 1 = k /\ k + 1 \in 0 .. n
    BY <1>6, <1>8
  <2>2. g[k + 1] = IF l[k + 1].ch = c THEN Append(g[k], l[k + 1]) ELSE g[k]
    BY <1>5, <2>1
  <2>3. 1 .. k + 1 = (1 .. k) \cup {k + 1} /\ k + 1 \notin 1 .. k
    BY <2>1
  <2>4. PICK s, b, S, T : s = g[k] /\ b = l[k + 1] /\ S = Own(k) /\ T = Own(k + 1)
    OBVIOUS
  <2>5. s \in Seq(R) /\ IsFiniteSet(S) /\ Len(s) = Cardinality(S) /\ b \in R
    BY <1>8, <2>1, <2>4
  <2>6. CASE b.ch # c
    <3>1. T = S
      BY <2>3, <2>4, <2>6
    <3>2. g[k + 1] = s
      BY <2>2, <2>4, <2>6
    <3> HIDE DEF Own
    <3> QED
      BY <2>1, <2>4, <2>5, <3>1, <3>2
  <2>7. CASE b.ch = c
    <3>1. T = S \cup {k + 1} /\ k + 1 \notin S
      BY <2>3, <2>4, <2>7
    <3>2. g[k + 1] = Append(s, b)
      BY <2>2, <2>4, <2>7
    <3>3. Append(s, b) \in Seq(R) /\ Len(Append(s, b)) = Len(s) + 1
      BY <2>5
    <3>4. IsFiniteSet(T) /\ Cardinality(T) = Cardinality(S) + 1
      BY <2>5, <3>1, FS_AddElement
    <3> HIDE DEF Own
    <3> QED
      BY <2>1, <2>4, <2>5, <3>2, <3>3, <3>4
  <2> QED
    BY <2>6, <2>7
<1>9. n \in P
  <2> HIDE DEF P
  <2> QED
    BY <1>7, <1>8, UpToInduct
<1> QED
  BY <1>4, <1>6, <1>9

\* The channels share the bursts out among them.
LEMMA ChannelsShare ==
  ASSUME setup \in Setups, length \in Nat
  PROVE  /\ IsFiniteSet(DOMAIN perch)
         /\ SumFunctionOnSet([c \in DOMAIN perch |-> Len(perch[c])], DOMAIN perch) = length * bpt
<1>1. PICK n \in Nat : n = length * bpt
  BY BurstList
<1>2. PICK R : bursts \in Seq(R) /\ Len(bursts) = n
  BY <1>1, BurstList
<1>3. PICK l, D, N : l = bursts /\ D = DOMAIN perch /\ N = 1 .. n
  OBVIOUS
<1>4. l \in Seq(R) /\ DOMAIN l = N
  BY <1>2, <1>3
<1>5. D = {l[i].ch : i \in N}
  BY <1>3, <1>4 DEF perch, PerChannel
<1>6. PICK g : g = [i \in N |-> l[i].ch]
  OBVIOUS
<1>7. IsFiniteSet(N) /\ Cardinality(N) = n
  BY <1>3, UpTo
<1>8. IsFiniteSet(D)
  <2>1. g \in Surjection(N, D)
    BY <1>5, <1>6 DEF Surjection
  <2> QED
    BY <1>7, <2>1, FS_Surjection
<1>9. \A i \in N : g[i] \in D
  BY <1>5, <1>6
<1>10. SumFunctionOnSet(ClassSizes(N, g, D), D) = n
  BY <1>7, <1>8, <1>9, SumClasses
<1>11. ASSUME NEW c \in D PROVE Len(perch[c]) = Cardinality({i \in N : g[i] = c})
  <2>1. perch[c] = OfChannel(l, c)
    BY <1>3 DEF perch, PerChannel
  <2>2. Len(OfChannel(l, c)) = Cardinality({i \in DOMAIN l : l[i].ch = c})
    BY <1>4, OwnCount
  <2>3. {i \in DOMAIN l : l[i].ch = c} = {i \in N : g[i] = c}
    BY <1>4, <1>6
  <2> QED
    BY <2>1, <2>2, <2>3
<1>12. [c \in D |-> Len(perch[c])] = ClassSizes(N, g, D)
  BY <1>11 DEF ClassSizes
<1> QED
  BY <1>1, <1>3, <1>8, <1>10, <1>12

\* Bounds per channel add up.
LEMMA BoundsAddUp ==
  ASSUME NEW D, IsFiniteSet(D), NEW a, NEW b, NEW x, NEW y, NEW t,
         \A c \in D : /\ a[c] \in Int /\ b[c] \in Int /\ x[c] \in Int /\ y[c] \in Int /\ t[c] \in Nat
                      /\ a[c] <= x[c] + t[c] /\ a[c] - b[c] <= x[c] - y[c]
  PROVE  /\ SumFunctionOnSet(a, D) \in Int /\ SumFunctionOnSet(b, D) \in Int
         /\ SumFunctionOnSet(x, D) \in Int /\ SumFunctionOnSet(y, D) \in Int
         /\ SumFunctionOnSet(t, D) \in Nat
         /\ SumFunctionOnSet(a, D) <= SumFunctionOnSet(x, D) + SumFunctionOnSet(t, D)
         /\ SumFunctionOnSet(a, D) - SumFunctionOnSet(b, D)
               <= SumFunctionOnSet(x, D) - SumFunctionOnSet(y, D)
<1>1. PICK A, B, X, Y \in Int :
         /\ A = SumFunctionOnSet(a, D) /\ B = SumFunctionOnSet(b, D)
         /\ X = SumFunctionOnSet(x, D) /\ Y = SumFunctionOnSet(y, D)
  <2>1. /\ \A c \in D : a[c] \in Int
        /\ \A c \in D : b[c] \in Int
        /\ \A c \in D : x[c] \in Int
        /\ \A c \in D : y[c] \in Int
    OBVIOUS
  <2>2. SumFunctionOnSet(a, D) \in Int /\ SumFunctionOnSet(b, D) \in Int
    BY <2>1, SumRemove
  <2>3. SumFunctionOnSet(x, D) \in Int /\ SumFunctionOnSet(y, D) \in Int
    BY <2>1, SumRemove
  <2> QED
    BY <2>2, <2>3
<1>2. PICK T \in Nat : T = SumFunctionOnSet(t, D)
  <2>1. \A c \in D : t[c] \in Nat
    OBVIOUS
  <2> QED
    BY <2>1, SumNat
<1>3. A <= X + T
  <2>1. PICK h : h = [c \in D |-> x[c] + t[c]]
    OBVIOUS
  <2>2. \A c \in D : x[c] \in Int /\ t[c] \in Int /\ h[c] = x[c] + t[c]
    BY <2>1
  <2>3. SumFunctionOnSet(h, D) = X + T
    BY <1>1, <1>2, <2>2, SumPlus
  <2>4. \A c \in D : a[c] \in Int /\ h[c] \in Int /\ a[c] <= h[c]
    BY <2>2
  <2>5. SumFunctionOnSet(a, D) <= SumFunctionOnSet(h, D)
    BY <2>4, SumMono
  <2> QED
    BY <1>1, <2>3, <2>5
<1>4. A + Y <= X + B
  <2>1. PICK h, k : h = [c \in D |-> a[c] + y[c]] /\ k = [c \in D |-> x[c] + b[c]]
    OBVIOUS
  <2>2. \A c \in D : a[c] \in Int /\ y[c] \in Int /\ h[c] = a[c] + y[c]
    BY <2>1
  <2>3. \A c \in D : x[c] \in Int /\ b[c] \in Int /\ k[c] = x[c] + b[c]
    BY <2>1
  <2>4. SumFunctionOnSet(h, D) = A + Y
    BY <1>1, <2>2, SumPlus
  <2>5. SumFunctionOnSet(k, D) = X + B
    BY <1>1, <2>3, SumPlus
  <2>6. \A c \in D : h[c] \in Int /\ k[c] \in Int /\ h[c] <= k[c]
    BY <2>2, <2>3
  <2>7. SumFunctionOnSet(h, D) <= SumFunctionOnSet(k, D)
    BY <2>6, SumMono
  <2> QED
    BY <2>4, <2>5, <2>7
<1> QED
  BY <1>1, <1>2, <1>3, <1>4

\* A slower command stream is a longer latency.
LEMMA LatencyScales ==
  ASSUME NEW kv \in Nat, NEW ch \in Nat, NEW p \in Int, NEW q \in Int, NEW e \in Nat, p <= q + e
  PROVE  (kv * p) * ch <= (kv * q) * ch + e * (ch * kv)
<1>1. PICK d \in Nat : q + e = p + d
  <2>1. q + e - p \in Nat /\ q + e = p + (q + e - p)
    OBVIOUS
  <2> QED
    BY <2>1
<1>2. PICK u \in Nat : u = kv * ch
  OBVIOUS
<1>3. (kv * p) * ch = u * p /\ (kv * q) * ch = u * q /\ e * (ch * kv) = u * e
  BY <1>2
<1>4. u * (q + e) = u * p + u * d /\ u * d \in Nat
  BY <1>1
<1>5. u * (q + e) = u * q + u * e
  OBVIOUS
<1> QED
  BY <1>3, <1>4, <1>5

\* The sums and the latency measure_seq reports, for one coalescing mode.
Counted(pc, w, mode) == [c \in DOMAIN pc |-> coalesce_channel(pc[c], w, mode, banks)]
CmdsOf(pc, w, mode) ==
    SumFunctionOnSet([c \in DOMAIN pc |-> Counted(pc, w, mode)[c].cmds], DOMAIN pc)
HitsOf(pc, w, mode) ==
    SumFunctionOnSet([c \in DOMAIN pc |-> Counted(pc, w, mode)[c].hits], DOMAIN pc)
CommandTime(cmds, hits) == hits * 43 + (cmds - hits) * 450

\* The latency as a fraction.
LEMMA LatencyFraction ==
  ASSUME setup \in Setups, length \in Nat, NEW mode
  PROVE  LET pc == perch
             kv == length * kv_bytes_per_token(setup.shape)
             m4 == measure_seq(pc, mode).m4
         IN  /\ kv \in Nat /\ setup.geom.channels \in Nat
             /\ m4.den = setup.geom.channels * kv
             /\ m4.num = kv * CommandTime(CmdsOf(pc, setup.window, mode), HitsOf(pc, setup.window, mode))
<1>1. PICK pc, w, g, n, bb, q, ch : /\ pc = perch /\ w = setup.window /\ g = setup.geom /\ n = length
                                    /\ bb = setup.geom.burst_bytes /\ q = bpt /\ ch = setup.geom.channels
  OBVIOUS
<1>2. bb \in Nat \ {0} /\ q \in Nat \ {0} /\ n \in Nat
      /\ kv_bytes_per_token(setup.shape) = q * bb
  BY <1>1, SetupFacts
<1>3. ch \in Nat
  <2>1. is_pow2(ch)
    BY <1>1, SetupsAssumption, Zenon DEF ValidGeometry
  <2> QED
    BY <2>1, PowerOfTwo
<1>4. PICK kv \in Nat : kv = n * (q * bb)
  BY <1>2
<1>5. PICK s : s = sequence_metrics(pc, g, w, mode)
  OBVIOUS
<1>6. s.bursts = n * q
  <2>1. s.bursts = SumFunctionOnSet([c \in DOMAIN pc |-> Len(pc[c])], DOMAIN pc)
    BY <1>5 DEF sequence_metrics
  <2> QED
    BY <1>1, <2>1, ChannelsShare
<1>7. s.cmds = CmdsOf(pc, w, mode) /\ s.hits = HitsOf(pc, w, mode)
  BY <1>1, <1>5 DEF sequence_metrics, CmdsOf, HitsOf, Counted, banks
<1>8. measure_seq(pc, mode).m4 = decode_latency(kv, effective_bandwidth(g, s))
  BY <1>1, <1>2, <1>4, <1>5 DEF measure_seq
<1>9. PICK bw : bw = effective_bandwidth(g, s)
  OBVIOUS
<1>10. bw.num = ch * bb * (n * q) /\ bw.den = CommandTime(s.cmds, s.hits)
  BY <1>1, <1>6, <1>9 DEF effective_bandwidth, DEFAULT_TIMING, CommandTime
<1>11. ch * bb * (n * q) = ch * kv
  BY <1>2, <1>3, <1>4
<1>12. PICK m4 : m4 = measure_seq(pc, mode).m4
  OBVIOUS
<1>13. m4.den = ch * kv /\ m4.num = kv * CommandTime(s.cmds, s.hits)
  BY <1>8, <1>9, <1>10, <1>11, <1>12 DEF decode_latency
<1> QED
  BY <1>1, <1>2, <1>3, <1>4, <1>7, <1>12, <1>13

\* "inorder" is the pessimistic case, in every state whose table covers its
\* sequence.
LEMMA InorderPessimisticNow ==
  ASSUME TableCovers PROVE InorderPessimistic
<1>1. setup \in Setups /\ length \in Nat /\ setup.window \in Nat \ {0}
  BY InTable, SetupFacts
<1>2. PICK pc, w, D : pc = perch /\ w = setup.window /\ D = DOMAIN perch
  OBVIOUS
<1>3. ASSUME NEW c \in D PROVE Bounded(pc[c], w)
  <2>1. PICK s : s = pc[c]
    OBVIOUS
  <2>2. /\ \E R : s \in Seq(R)
        /\ \A k \in DOMAIN s : \E i \in DOMAIN bursts : s[k] = bursts[i]
        /\ DOMAIN s # {}
    BY <1>2, <1>3, <2>1, ChannelRows
  <2>3. PICK R : s \in Seq(R)
    BY <2>2
  <2>4. DOMAIN s = 1 .. Len(s) /\ Len(s) \in Nat
    BY <2>3
  <2>5. Len(s) # 0
    BY <2>2, <2>4
  <2>6. \A i \in 1 .. Len(s) : s[i].row \in Nat
    <3>1. \A i \in DOMAIN bursts : bursts[i].row \in Nat
      BY BackToIndex
    <3> QED
      BY <2>2, <2>4, <3>1
  <2> QED
    BY <1>1, <1>2, <2>1, <2>3, <2>5, <2>6, InorderBound
<1>4. PICK a, b, x, y, t :
         /\ a = [c \in D |-> row_window(pc[c], w).cmds]
         /\ b = [c \in D |-> row_window(pc[c], w).hits]
         /\ x = [c \in D |-> coalesce_inorder(pc[c]).cmds]
         /\ y = [c \in D |-> coalesce_inorder(pc[c]).hits]
         /\ t = [c \in D |-> ceil_div(Len(pc[c]), w) - 1]
  OBVIOUS
<1>5. \A c \in D : /\ a[c] \in Int /\ b[c] \in Int /\ x[c] \in Int /\ y[c] \in Int /\ t[c] \in Nat
                   /\ a[c] <= x[c] + t[c] /\ a[c] - b[c] <= x[c] - y[c]
  BY <1>3, <1>4 DEF Bounded
<1>6. IsFiniteSet(D)
  BY <1>1, <1>2, ChannelsShare
<1>7. PICK A \in Int, B \in Int, X \in Int, Y \in Int, T \in Nat :
         /\ A = SumFunctionOnSet(a, D) /\ B = SumFunctionOnSet(b, D)
         /\ X = SumFunctionOnSet(x, D) /\ Y = SumFunctionOnSet(y, D)
         /\ T = SumFunctionOnSet(t, D)
         /\ A <= X + T /\ A - B <= X - Y
  <2>1. /\ SumFunctionOnSet(a, D) \in Int /\ SumFunctionOnSet(b, D) \in Int
        /\ SumFunctionOnSet(x, D) \in Int /\ SumFunctionOnSet(y, D) \in Int
        /\ SumFunctionOnSet(t, D) \in Nat
        /\ SumFunctionOnSet(a, D) <= SumFunctionOnSet(x, D) + SumFunctionOnSet(t, D)
        /\ SumFunctionOnSet(a, D) - SumFunctionOnSet(b, D)
              <= SumFunctionOnSet(x, D) - SumFunctionOnSet(y, D)
    BY <1>5, <1>6, BoundsAddUp
  <2>2. PICK A, B, X, Y, T :
           /\ A = SumFunctionOnSet(a, D) /\ B = SumFunctionOnSet(b, D)
           /\ X = SumFunctionOnSet(x, D) /\ Y = SumFunctionOnSet(y, D)
           /\ T = SumFunctionOnSet(t, D)
    OBVIOUS
  <2> QED
    BY <2>1, <2>2
<1>8. CmdsOf(pc, w, "window") = A /\ HitsOf(pc, w, "window") = B
  <2>1. \A c \in D : Counted(pc, w, "window")[c] = row_window(pc[c], w)
    <3>1. \A c \in D : coalesce_window(pc[c], w, banks) = row_window(pc[c], w)
      BY <1>2, ChannelGrouped
    <3> QED
      BY <1>2, <3>1 DEF Counted, coalesce_channel
  <2>2. /\ [c \in D |-> Counted(pc, w, "window")[c].cmds] = a
        /\ [c \in D |-> Counted(pc, w, "window")[c].hits] = b
    BY <1>4, <2>1
  <2> QED
    BY <1>2, <1>7, <2>2 DEF CmdsOf, HitsOf
<1>9. CmdsOf(pc, w, "inorder") = X /\ HitsOf(pc, w, "inorder") = Y
  <2>1. \A c \in D : Counted(pc, w, "inorder")[c] = coalesce_inorder(pc[c])
    BY <1>2 DEF Counted, coalesce_channel
  <2>2. /\ [c \in D |-> Counted(pc, w, "inorder")[c].cmds] = x
        /\ [c \in D |-> Counted(pc, w, "inorder")[c].hits] = y
    BY <1>4, <2>1
  <2> QED
    BY <1>2, <1>7, <2>2 DEF CmdsOf, HitsOf
<1>10. PICK win, ord : win = measure_seq(pc, "window").m4 /\ ord = measure_seq(pc, "inorder").m4
  OBVIOUS
<1>11. PICK kv \in Nat, ch \in Nat :
          /\ ch = setup.geom.channels
          /\ win.den = ch * kv /\ win.num = kv * CommandTime(A, B)
          /\ ord.den = ch * kv /\ ord.num = kv * CommandTime(X, Y)
  BY <1>1, <1>2, <1>8, <1>9, <1>10, LatencyFraction
<1>12. PICK p \in Int, r \in Int, e \in Nat :
          p = CommandTime(A, B) /\ r = CommandTime(X, Y) /\ e = T * 43 /\ p <= r + e
  <2>1. PICK p \in Int, r \in Int, e \in Nat :
           /\ p = B * 43 + (A - B) * 450 /\ r = Y * 43 + (X - Y) * 450 /\ e = T * 43
    OBVIOUS
  <2>2. p <= r + e
    BY <1>7, <2>1
  <2> QED
    BY <2>1, <2>2 DEF CommandTime
<1>13. (kv * p) * ch <= (kv * r) * ch + e * (ch * kv)
  BY <1>12, LatencyScales
<1>14. win.num * ch <= ord.num * ch + T * 43 * win.den /\ win.den = ord.den
  BY <1>11, <1>12, <1>13
<1>15. \A c \in D : LET o == coalesce_inorder(pc[c]) IN Misses(pc[c]) <= o.cmds - o.hits
  <2>1. \A c \in D : Misses(pc[c]) = RowOpens(pc[c])
    BY <1>2, ChannelGrouped DEF Misses, RowOpens
  <2> QED
    BY <1>2, <1>3, <2>1 DEF Bounded, RowOpens
<1>16. DEFAULT_TIMING.tccd_ab = 43
  BY DEF DEFAULT_TIMING
<1> QED
  BY <1>2, <1>4, <1>7, <1>10, <1>11, <1>14, <1>15, <1>16 DEF InorderPessimistic

\* Reordering costs no row miss and at most one column access per window boundary,
\* for every geometry, map, shape, window size and table.
THEOREM InorderIsPessimistic == Spec => []InorderPessimistic
<1>1. TableCovers => InorderPessimistic
  BY InorderPessimisticNow
<1> QED
  BY <1>1, MeasuredTableCovers, PTL
=============================================================================
