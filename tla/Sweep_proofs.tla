---------------------------- MODULE Sweep_proofs ----------------------------
(***************************************************************************)
(* Proofs about the parameter sweep: what the parent writes when its       *)
(* workers have ended, and whose results the files hold.                   *)
(***************************************************************************)
EXTENDS Sweep, FiniteSetTheorems, TLAPS

-----------------------------------------------------------------------------
(* Rounding up *)

\* Multiplication is monotonic.
LEMMA TimesMono ==
  ASSUME NEW a \in Int, NEW b \in Int, NEW k \in Nat, a <= b
  PROVE  a * k <= b * k
<1>1. PICK d \in Nat : b = a + d
  <2>1. b - a \in Nat
    OBVIOUS
  <2>2. b = a + (b - a)
    OBVIOUS
  <2> QED
    BY <2>1, <2>2
<1>2. d * k \in Nat
  OBVIOUS
<1>3. b * k = a * k + d * k
  BY <1>1
<1> QED
  BY <1>2, <1>3

\* What rounding up says.
LEMMA CeilDiv ==
  ASSUME NEW x \in Nat \ {0}, NEW k \in Nat \ {0}
  PROVE  /\ ceil_div(x, k) \in Nat \ {0}
         /\ (ceil_div(x, k) - 1) * k + 1 <= x
         /\ x <= ceil_div(x, k) * k
<1>1. PICK q \in Int : q = (x + k - 1) \div k
  OBVIOUS
<1>2. PICK y \in Int : y = x + k - 1
  OBVIOUS
<1>3. q * k <= y /\ y < (q + 1) * k
  BY <1>1, <1>2
<1>4. (q - 1) * k = q * k - k /\ (q + 1) * k = q * k + k
  OBVIOUS
<1>5. (q - 1) * k + 1 <= x /\ x <= q * k
  BY <1>2, <1>3, <1>4
<1>6. q >= 1
  <2> SUFFICES ASSUME q <= 0 PROVE FALSE
    OBVIOUS
  <2>1. q * k <= 0 * k
    BY TimesMono
  <2> QED
    BY <1>5, <2>1
<1>7. ceil_div(x, k) = q
  BY <1>1 DEF ceil_div
<1> QED
  BY <1>5, <1>6, <1>7

-----------------------------------------------------------------------------
(* Chunks of jobs *)

\* What the parent sets up once.
Fixed ==
  /\ procs \in Nat \ {0}
  /\ Len(jobs) \in Nat \ {0} /\ Jobs = 1 .. Len(jobs)
  /\ raises \subseteq Jobs

\* The jobs 1 .. n in chunks 1 .. last: ch is the chunk of a job, first the
\* first job of a chunk.
Regular(n, ch, first, last) ==
  /\ n \in Nat \ {0} /\ last \in Nat \ {0}
  /\ ch \in [1 .. n -> 1 .. last] /\ first \in [1 .. last -> 1 .. n]
  /\ \A i, j \in 1 .. n : i <= j => ch[i] <= ch[j]
  /\ \A c \in 1 .. last : ch[first[c]] = c
  /\ \A i \in 1 .. n : first[ch[i]] <= i
  /\ ch[n] = last

\* Chunk and FirstJob as functions.
ChunkOf == [i \in Jobs |-> Chunk(i)]
FirstOf == [c \in Chunks |-> FirstJob(c)]

\* The chunks of Pool.map are regular for every number of jobs and of workers.
LEMMA ChunksRegular ==
  ASSUME Fixed
  PROVE  /\ Regular(Len(jobs), ChunkOf, FirstOf, Chunk(Len(jobs)))
         /\ Chunks = 1 .. Chunk(Len(jobs)) /\ Cardinality(Chunks) = Chunk(Len(jobs))
<1>1. PICK n \in Nat \ {0} : n = Len(jobs) /\ Jobs = 1 .. n
  BY DEF Fixed
<1>2. PICK k \in Nat \ {0} : k = chunksize
  <2>1. PICK m \in Nat \ {0} : m = 4 * procs
    BY DEF Fixed
  <2>2. ceil_div(n, m) \in Nat \ {0}
    BY CeilDiv
  <2> QED
    BY <1>1, <2>1, <2>2 DEF chunksize
<1>3. \A i \in 1 .. n : /\ Chunk(i) \in Nat \ {0}
                        /\ (Chunk(i) - 1) * k + 1 <= i /\ i <= Chunk(i) * k
  <2> SUFFICES ASSUME NEW i \in 1 .. n
               PROVE  /\ Chunk(i) \in Nat \ {0}
                      /\ (Chunk(i) - 1) * k + 1 <= i /\ i <= Chunk(i) * k
    OBVIOUS
  <2>1. i \in Nat \ {0}
    OBVIOUS
  <2>2. PICK c : c = ceil_div(i, k)
    OBVIOUS
  <2>3. c \in Nat \ {0} /\ (c - 1) * k + 1 <= i /\ i <= c * k
    BY <2>1, <2>2, CeilDiv
  <2>4. Chunk(i) = c
    BY <1>2, <2>2, Zenon DEF Chunk
  <2> QED
    BY <2>3, <2>4
<1>4. \A c \in Nat : FirstJob(c) = (c - 1) * k + 1
  BY <1>2 DEF FirstJob
\* A chunk is determined by its bounds.
<1>5. ASSUME NEW i \in 1 .. n, NEW j \in 1 .. n, i <= j PROVE Chunk(i) <= Chunk(j)
  <2> SUFFICES ASSUME Chunk(j) + 1 <= Chunk(i) PROVE FALSE
    BY <1>3
  <2>1. PICK c, d \in Int : c = Chunk(i) /\ d = Chunk(j)
    BY <1>3
  <2>2. d <= c - 1 /\ (c - 1) * k + 1 <= i /\ j <= d * k
    BY <1>3, <2>1
  <2>3. d * k <= (c - 1) * k
    BY <2>2, TimesMono
  <2>4. d * k \in Int /\ (c - 1) * k \in Int
    OBVIOUS
  <2> QED
    BY <1>5, <2>2, <2>3, <2>4
<1>6. PICK last \in Nat \ {0} : last = Chunk(n)
  BY <1>3
<1>7. \A i \in 1 .. n : Chunk(i) \in 1 .. last
  <2>1. \A i \in 1 .. n : Chunk(i) <= Chunk(n)
    BY <1>5
  <2> QED
    BY <1>3, <1>6, <2>1
<1>8. ASSUME NEW c \in 1 .. last
      PROVE  FirstJob(c) \in 1 .. n /\ Chunk(FirstJob(c)) = c
  <2>1. PICK f \in Int : f = (c - 1) * k + 1
    OBVIOUS
  <2>2. FirstJob(c) = f
    BY <1>4, <2>1
  <2>3. 0 <= (c - 1) * k
    OBVIOUS
  <2>4. (c - 1) * k <= (last - 1) * k
    BY TimesMono
  <2>5. (last - 1) * k + 1 <= n
    BY <1>3, <1>6
  <2>6. (c - 1) * k \in Int /\ (last - 1) * k \in Int
    OBVIOUS
  <2>7. f \in 1 .. n
    BY <2>1, <2>3, <2>4, <2>5, <2>6
  <2>8. PICK d \in Nat \ {0} : d = Chunk(f) /\ (d - 1) * k + 1 <= f /\ f <= d * k
    BY <1>3, <2>7
  <2>9. ~ (d <= c - 1)
    <3> SUFFICES ASSUME d <= c - 1 PROVE FALSE
      OBVIOUS
    <3>1. d * k <= (c - 1) * k
      BY TimesMono
    <3>2. d * k \in Int
      OBVIOUS
    <3> QED
      BY <2>1, <2>6, <2>8, <3>1, <3>2
  <2>10. ~ (c <= d - 1)
    <3> SUFFICES ASSUME c <= d - 1 PROVE FALSE
      OBVIOUS
    <3>1. c * k <= (d - 1) * k
      BY TimesMono
    <3>2. c * k = (c - 1) * k + k /\ (d - 1) * k \in Int
      OBVIOUS
    <3> QED
      BY <2>1, <2>6, <2>8, <3>1, <3>2
  <2>11. d = c
    BY <2>9, <2>10
  <2> QED
    BY <2>2, <2>7, <2>8, <2>11
<1>9. \A i \in 1 .. n : FirstJob(Chunk(i)) <= i
  BY <1>3, <1>4
<1>10. PICK g, h : g = ChunkOf /\ h = FirstOf
  OBVIOUS
<1>11. Chunks = 1 .. last
  BY <1>1, <1>6 DEF Chunks
<1>12. /\ g \in [1 .. n -> 1 .. last] /\ h \in [1 .. last -> 1 .. n]
       /\ \A i \in 1 .. n : g[i] = Chunk(i)
       /\ \A c \in 1 .. last : h[c] = FirstJob(c)
  <2>1. g = [i \in 1 .. n |-> Chunk(i)] /\ h = [c \in 1 .. last |-> FirstJob(c)]
    BY <1>1, <1>10, <1>11, Zenon DEF ChunkOf, FirstOf
  <2> QED
    BY <1>7, <1>8, <2>1
<1>13. Regular(n, g, h, last)
  <2>1. \A i, j \in 1 .. n : i <= j => g[i] <= g[j]
    BY <1>5, <1>12
  <2>2. \A c \in 1 .. last : g[h[c]] = c
    BY <1>8, <1>12
  <2>3. \A i \in 1 .. n : h[g[i]] <= i
    BY <1>7, <1>9, <1>12
  <2>4. g[n] = last
    BY <1>6, <1>12
  <2> QED
    BY <1>12, <2>1, <2>2, <2>3, <2>4 DEF Regular
<1>14. Cardinality(Chunks) = last
  <2>1. PICK o \in Int : o = 1
    OBVIOUS
  <2>2. Cardinality(o .. last) = IF o > last THEN 0 ELSE last - o + 1
    BY FS_Interval
  <2> QED
    BY <1>11, <2>1, <2>2
<1> QED
  BY <1>1, <1>6, <1>10, <1>11, <1>13, <1>14, Zenon

-----------------------------------------------------------------------------
(* The inductive invariant *)

\* The steps of a job, and the workers that have one.
Steps == {"run", "csv", "meta", "return"}
Busy(w) == at[w] # Idle

\* No job of its chunk before j, nor j, raises.
Clear(first, ch, j) == \A m \in first[ch[j]] .. j : m \notin raises

\* Types.
Typed(n, ch, last) ==
  /\ Jobs = 1 .. n /\ procs \in Nat \ {0} /\ raises \subseteq 1 .. n
  /\ at \in [1 .. procs -> {Idle} \cup [job : 1 .. n, step : Steps]]
  /\ taken \in 0 .. last /\ reported \subseteq 1 .. taken
  /\ rows \subseteq 1 .. n
  /\ pc \in {"map", "done", "raised"}

\* A worker has a chunk of its own, which has not been reported.
Owned(ch) ==
  /\ \A w \in 1 .. procs : Busy(w) => ch[at[w].job] <= taken /\ ch[at[w].job] \notin reported
  /\ \A w, v \in 1 .. procs :
        Busy(w) /\ Busy(v) /\ ch[at[w].job] = ch[at[v].job] => w = v

\* The rows of a chunk: up to the job the worker is at while it is worked on,
\* and the clear jobs once it is reported.
Progress(n, ch, first) ==
  /\ \A j \in rows : ch[j] <= taken
  /\ \A w \in 1 .. procs : Busy(w) =>
        /\ \A j \in 1 .. n : ch[j] = ch[at[w].job] =>
              /\ j \in rows <=> j < at[w].job
              /\ j < at[w].job => j \notin raises
        /\ at[w].step # "run" => at[w].job \notin raises
  /\ \A j \in 1 .. n : ch[j] \in reported => (j \in rows <=> Clear(first, ch, j))

\* What the parent has written.
Ending(n, last) ==
  /\ pc = "map" => summary = {}
  /\ pc = "done" => reported = 1 .. last /\ rows = 1 .. n /\ summary = 1 .. n
  /\ pc = "raised" => reported = 1 .. last /\ rows # 1 .. n /\ summary = {}

\* The invariant, for n jobs in the chunks given by ch, first and last: the
\* steps use of Pool.map's arithmetic only that the chunks are regular.
SInv(n, ch, first, last) ==
  Typed(n, ch, last) /\ Owned(ch) /\ Progress(n, ch, first) /\ Ending(n, last)

\* What a step of a busy worker needs.
LEMMA BusyFacts ==
  ASSUME NEW n, NEW ch, NEW first, NEW last, Regular(n, ch, first, last), SInv(n, ch, first, last),
         NEW w \in 1 .. procs, at[w].step \in Steps
  PROVE  /\ Busy(w) /\ at[w] = [job |-> at[w].job, step |-> at[w].step] /\ at[w].job \in 1 .. n
         /\ ch[at[w].job] \in 1 .. last /\ pc = "map"
<1>1. at[w] \in {Idle} \cup [job : 1 .. n, step : Steps]
  BY DEF SInv, Typed
<1>2. at[w] # Idle
  BY DEF Idle, Steps
<1>3. at[w] \in [job : 1 .. n, step : Steps]
  BY <1>1, <1>2
<1>4. at[w].job \in 1 .. n /\ at[w] = [job |-> at[w].job, step |-> at[w].step]
  BY <1>3
<1>5. ch[at[w].job] \in 1 .. last /\ ch[at[w].job] \notin reported
  BY <1>2, <1>4 DEF Regular, SInv, Owned, Busy
<1>6. pc = "map"
  BY <1>5 DEF SInv, Typed, Ending
<1> QED
  BY <1>2, <1>4, <1>5, <1>6 DEF Busy

\* take hands the first job of a new chunk to an idle worker.
LEMMA TakeKeeps ==
  ASSUME NEW n, NEW ch, NEW first, NEW last, Regular(n, ch, first, last), SInv(n, ch, first, last),
         NEW w \in 1 .. procs, at[w] = Idle, taken < last, taken' = taken + 1,
         at' = [at EXCEPT ![w] = [job |-> first[taken + 1], step |-> "run"]],
         UNCHANGED <<procs, jobs, raises, rows, reported, summary, pc>>
  PROVE  SInv(n, ch, first, last)'
<1>1. /\ n \in Nat \ {0} /\ last \in Nat \ {0}
      /\ ch \in [1 .. n -> 1 .. last] /\ first \in [1 .. last -> 1 .. n]
      /\ \A c \in 1 .. last : ch[first[c]] = c
      /\ \A i \in 1 .. n : first[ch[i]] <= i
  BY DEF Regular
<1>2. PICK i : i = first[taken + 1]
  OBVIOUS
<1>3. /\ taken \in Nat /\ taken + 1 \in 1 .. last /\ i \in 1 .. n /\ ch[i] = taken + 1
      /\ reported \subseteq 1 .. taken
  <2>1. taken \in Nat /\ taken + 1 \in 1 .. last /\ reported \subseteq 1 .. taken
    BY <1>1 DEF SInv, Typed
  <2> QED
    BY <1>1, <1>2, <2>1
<1>4. /\ at'[w] = [job |-> i, step |-> "run"] /\ at'[w].job = i /\ at'[w].step = "run"
      /\ \A v \in 1 .. procs : v # w => at'[v] = at[v]
      /\ at' \in [1 .. procs -> {Idle} \cup [job : 1 .. n, step : Steps]]
      /\ taken + 1 \notin reported
  BY <1>2, <1>3 DEF SInv, Typed, Steps
<1>5. pc = "map"
  BY <1>1, <1>3 DEF SInv, Typed, Ending
<1>6. Typed(n, ch, last)'
  BY <1>3, <1>4 DEF SInv, Typed, Jobs, Idle
<1>7. \A v \in 1 .. procs : Busy(v)' => v = w \/ (v # w /\ Busy(v) /\ at'[v] = at[v])
  BY <1>4 DEF Busy, Idle
<1>8. \A v \in 1 .. procs : Busy(v) => ch[at[v].job] <= taken /\ ch[at[v].job] \notin reported
                                      /\ at[v].job \in 1 .. n
  BY DEF SInv, Typed, Owned, Busy
<1>9. Owned(ch)'
  <2>1. \A v \in 1 .. procs : Busy(v)' => ch[at'[v].job] <= taken' /\ ch[at'[v].job] \notin reported'
    BY <1>1, <1>3, <1>4, <1>7, <1>8, SMTT(30)
  <2>2. ASSUME NEW u \in 1 .. procs, NEW v \in 1 .. procs, Busy(u)', Busy(v)',
               ch[at'[u].job] = ch[at'[v].job]
        PROVE  u = v
    BY <1>1, <1>3, <1>4, <1>7, <1>8, <2>2 DEF SInv, Owned
  <2> QED
    BY <2>1, <2>2 DEF Owned, Busy, Idle
<1>10. Progress(n, ch, first)'
  <2>1. \A j \in rows : ch[j] <= taken /\ j \in 1 .. n
    BY DEF SInv, Typed, Progress
  <2>2. \A j \in 1 .. n : ch[j] = ch[i] => j \notin rows /\ i <= j
    BY <1>1, <1>2, <1>3, <2>1
  <2>3. \A j \in rows' : ch[j] <= taken'
    BY <1>1, <1>3, <2>1
  <2>4. ASSUME NEW v \in 1 .. procs, Busy(v)'
        PROVE  /\ \A j \in 1 .. n : ch[j] = ch[at'[v].job] =>
                     /\ j \in rows' <=> j < at'[v].job
                     /\ j < at'[v].job => j \notin raises'
               /\ at'[v].step # "run" => at'[v].job \notin raises'
    <3>1. CASE v = w
      BY <1>3, <1>4, <2>2, <3>1
    <3>2. CASE v # w
      BY <1>7, <2>4, <3>2 DEF SInv, Progress
    <3> QED
      BY <3>1, <3>2
  <2>5. \A j \in 1 .. n : ch[j] \in reported' => (j \in rows' <=> Clear(first, ch, j)')
    BY DEF SInv, Progress, Clear
  <2> QED
    BY <2>3, <2>4, <2>5 DEF Progress, Busy, Idle
<1>11. Ending(n, last)'
  BY <1>5 DEF SInv, Ending
<1> QED
  BY <1>6, <1>9, <1>10, <1>11 DEF SInv

\* A worker goes on to the next step of its job.
LEMMA StepKeeps ==
  ASSUME NEW n, NEW ch, NEW first, NEW last, Regular(n, ch, first, last), SInv(n, ch, first, last),
         NEW w \in 1 .. procs, at[w].step \in Steps, NEW t \in Steps,
         at' = [at EXCEPT ![w].step = t],
         at[w].job \notin raises,
         UNCHANGED <<procs, jobs, raises, taken, rows, reported, summary, pc>>
  PROVE  SInv(n, ch, first, last)'
<1>1. /\ Busy(w) /\ at[w] = [job |-> at[w].job, step |-> at[w].step] /\ at[w].job \in 1 .. n
  BY BusyFacts
<1>2. /\ at'[w] = [job |-> at[w].job, step |-> t] /\ at'[w].job = at[w].job
      /\ \A v \in 1 .. procs : v # w => at'[v] = at[v]
      /\ at' \in [1 .. procs -> {Idle} \cup [job : 1 .. n, step : Steps]]
  BY <1>1 DEF SInv, Typed
<1>3. \A v \in 1 .. procs : /\ at'[v].job = at[v].job
                            /\ Busy(v)' => Busy(v)
                            /\ v # w => at'[v] = at[v]
  BY <1>1, <1>2 DEF Busy, Idle
<1>4. Typed(n, ch, last)'
  BY <1>2 DEF SInv, Typed, Jobs, Idle
<1>5. Owned(ch)'
  BY <1>3 DEF SInv, Owned
<1>6. Progress(n, ch, first)'
  <2>1. ASSUME NEW v \in 1 .. procs, Busy(v)'
        PROVE  /\ \A j \in 1 .. n : ch[j] = ch[at'[v].job] =>
                     /\ j \in rows' <=> j < at'[v].job
                     /\ j < at'[v].job => j \notin raises'
               /\ at'[v].step # "run" => at'[v].job \notin raises'
    <3>1. at'[v].step # "run" => at'[v].job \notin raises'
      BY <1>2, <1>3, <2>1 DEF SInv, Progress
    <3>2. \A j \in 1 .. n : ch[j] = ch[at'[v].job] =>
                     /\ j \in rows' <=> j < at'[v].job
                     /\ j < at'[v].job => j \notin raises'
      BY <1>3, <2>1 DEF SInv, Progress
    <3> QED
      BY <3>1, <3>2
  <2>2. \A j \in 1 .. n : ch[j] \in reported' => (j \in rows' <=> Clear(first, ch, j)')
    BY DEF SInv, Progress, Clear
  <2>3. \A j \in rows' : ch[j] <= taken'
    BY DEF SInv, Progress
  <2> QED
    BY <2>1, <2>2, <2>3 DEF Progress
<1>7. Ending(n, last)'
  BY DEF SInv, Ending
<1> QED
  BY <1>4, <1>5, <1>6, <1>7 DEF SInv

\* A worker leaves its chunk, which is reported: what is left is Progress of
\* the chunk, in both ways of leaving it.
LEMMA LeaveKeeps ==
  ASSUME NEW n, NEW ch, NEW first, NEW last, Regular(n, ch, first, last), SInv(n, ch, first, last),
         NEW w \in 1 .. procs, at[w].step \in Steps, at' = [at EXCEPT ![w] = Idle],
         reported' = reported \cup {ch[at[w].job]},
         NEW R, R \subseteq 1 .. n, rows' = rows \cup R, \A j \in R : ch[j] = ch[at[w].job],
         \A j \in 1 .. n : ch[j] = ch[at[w].job] => (j \in rows' <=> Clear(first, ch, j)),
         UNCHANGED <<procs, jobs, raises, taken, summary, pc>>
  PROVE  SInv(n, ch, first, last)'
<1>1. /\ Busy(w) /\ at[w].job \in 1 .. n /\ ch[at[w].job] \in 1 .. last /\ pc = "map"
  BY BusyFacts
<1>2. PICK c : c = ch[at[w].job]
  OBVIOUS
<1>3. c \in 1 .. taken /\ c <= taken /\ c \notin reported
  BY <1>1, <1>2 DEF SInv, Owned, Typed
<1>4. /\ at'[w] = Idle
      /\ \A v \in 1 .. procs : v # w => at'[v] = at[v]
      /\ at' \in [1 .. procs -> {Idle} \cup [job : 1 .. n, step : Steps]]
  BY DEF SInv, Typed
<1>5. \A v \in 1 .. procs : Busy(v)' => v # w /\ Busy(v) /\ at'[v] = at[v]
  BY <1>4 DEF Busy, Idle
<1>6. Typed(n, ch, last)'
  BY <1>2, <1>3, <1>4 DEF SInv, Typed, Jobs, Idle
<1>7. \A v \in 1 .. procs : Busy(v)' => ch[at[v].job] # c
  BY <1>1, <1>2, <1>5 DEF SInv, Owned
<1>8. Owned(ch)'
  <2>1. \A v \in 1 .. procs : Busy(v)' => ch[at'[v].job] <= taken' /\ ch[at'[v].job] \notin reported'
    BY <1>2, <1>5, <1>7 DEF SInv, Owned
  <2>2. ASSUME NEW u \in 1 .. procs, NEW v \in 1 .. procs, Busy(u)', Busy(v)',
               ch[at'[u].job] = ch[at'[v].job]
        PROVE  u = v
    BY <1>5, <2>2 DEF SInv, Owned
  <2> QED
    BY <2>1, <2>2 DEF Owned
<1>9. Progress(n, ch, first)'
  <2>0. \A j \in rows : ch[j] <= taken
    BY DEF SInv, Progress
  <2>1. \A j \in rows' : ch[j] <= taken'
    BY <1>2, <1>3, <2>0, Zenon
  <2>2. ASSUME NEW v \in 1 .. procs, Busy(v)'
        PROVE  /\ \A j \in 1 .. n : ch[j] = ch[at'[v].job] =>
                     /\ j \in rows' <=> j < at'[v].job
                     /\ j < at'[v].job => j \notin raises'
               /\ at'[v].step # "run" => at'[v].job \notin raises'
    <3>1. Busy(v) /\ at'[v] = at[v] /\ ch[at[v].job] # c
      BY <1>5, <1>7, <2>2
    <3>2. \A j \in 1 .. n : ch[j] = ch[at[v].job] => (j \in rows' <=> j \in rows)
      BY <1>2, <3>1
    <3> QED
      BY <3>1, <3>2 DEF SInv, Progress
  <2>3. ASSUME NEW j \in 1 .. n, ch[j] \in reported' PROVE j \in rows' <=> Clear(first, ch, j)
    <3>1. CASE ch[j] = c
      BY <1>2, <3>1
    <3>2. CASE ch[j] # c
      BY <1>2, <2>3, <3>2 DEF SInv, Progress
    <3> QED
      BY <3>1, <3>2
  <2>4. \A j \in 1 .. n : Clear(first, ch, j)' <=> Clear(first, ch, j)
    BY DEF Clear
  <2> QED
    BY <2>1, <2>2, <2>3, <2>4 DEF Progress
<1>10. Ending(n, last)'
  BY <1>1 DEF SInv, Ending
<1> QED
  BY <1>6, <1>8, <1>9, <1>10 DEF SInv

\* The jobs of a chunk up to one of them.
LEMMA ChunkInterval ==
  ASSUME NEW n, NEW ch, NEW first, NEW last, Regular(n, ch, first, last), NEW i \in 1 .. n
  PROVE  /\ first[ch[i]] \in 1 .. n /\ first[ch[i]] <= i
         /\ \A m \in first[ch[i]] .. i : m \in 1 .. n /\ ch[m] = ch[i]
         /\ \A j \in 1 .. n : ch[j] = ch[i] => first[ch[i]] <= j
<1>1. /\ n \in Nat \ {0} /\ last \in Nat \ {0}
      /\ ch \in [1 .. n -> 1 .. last] /\ first \in [1 .. last -> 1 .. n]
      /\ \A j, k \in 1 .. n : j <= k => ch[j] <= ch[k]
      /\ \A c \in 1 .. last : ch[first[c]] = c
      /\ \A j \in 1 .. n : first[ch[j]] <= j
  BY DEF Regular
<1>2. PICK f, c : c = ch[i] /\ f = first[c]
  OBVIOUS
<1>3. c \in 1 .. last /\ f \in 1 .. n /\ f <= i /\ ch[f] = c
  BY <1>1, <1>2
<1>4. ASSUME NEW m \in f .. i PROVE m \in 1 .. n /\ ch[m] = c
  <2>1. m \in 1 .. n
    BY <1>1, <1>3
  <2>2. ch[f] <= ch[m] /\ ch[m] <= ch[i] /\ ch[m] \in 1 .. last
    BY <1>1, <1>3, <2>1
  <2> QED
    BY <1>2, <1>3, <2>1, <2>2
<1>5. \A j \in 1 .. n : ch[j] = c => f <= j
  BY <1>1, <1>2
<1> QED
  BY <1>2, <1>3, <1>4, <1>5

\* run, when the job raises: the jobs before it are the clear ones.
LEMMA RaiseKeeps ==
  ASSUME NEW n, NEW ch, NEW first, NEW last, Regular(n, ch, first, last), SInv(n, ch, first, last),
         NEW w \in 1 .. procs, at[w].step = "run", at[w].job \in raises,
         at' = [at EXCEPT ![w] = Idle],
         reported' = reported \cup {ch[at[w].job]},
         UNCHANGED <<procs, jobs, raises, taken, rows, summary, pc>>
  PROVE  SInv(n, ch, first, last)'
<1>0. at[w].step \in Steps
  BY DEF Steps
<1>1. PICK i : i = at[w].job
  OBVIOUS
<1>2. Busy(w) /\ i \in 1 .. n
  BY <1>0, <1>1, BusyFacts
<1>3. /\ first[ch[i]] \in 1 .. n /\ first[ch[i]] <= i
      /\ \A j \in 1 .. n : ch[j] = ch[i] => first[ch[i]] <= j
  BY <1>2, ChunkInterval
<1>4. \A j \in 1 .. n : ch[j] = ch[i] => (j \in rows <=> j < i) /\ (j < i => j \notin raises)
  BY <1>1, <1>2 DEF SInv, Progress
<1>5. n \in Nat \ {0}
  BY DEF Regular
<1>6. ASSUME NEW j \in 1 .. n, ch[j] = ch[i] PROVE j \in rows <=> Clear(first, ch, j)
  <2>1. CASE j < i
    <3>1. j \in rows
      BY <1>4, <1>6, <2>1
    <3>2. ASSUME NEW m \in first[ch[j]] .. j PROVE m \notin raises
      <4>1. m \in 1 .. n /\ ch[m] = ch[j]
        BY ChunkInterval
      <4>2. m < i
        BY <1>2, <1>5, <2>1, <4>1
      <4> QED
        BY <1>4, <1>6, <4>1, <4>2
    <3> QED
      BY <3>1, <3>2 DEF Clear
  <2>2. CASE ~ (j < i)
    <3>1. j \notin rows
      BY <1>4, <1>6, <2>2
    <3>2. i \in first[ch[j]] .. j
      BY <1>2, <1>3, <1>5, <1>6, <2>2
    <3> QED
      BY <1>1, <3>1, <3>2 DEF Clear
  <2> QED
    BY <2>1, <2>2
<1>7. PICK R : R = {}
  OBVIOUS
<1>8. R \subseteq 1 .. n /\ rows' = rows \cup R /\ (\A j \in R : ch[j] = ch[at[w].job])
      /\ \A j \in 1 .. n : ch[j] = ch[at[w].job] => (j \in rows' <=> Clear(first, ch, j))
  BY <1>1, <1>6, <1>7
<1>9. UNCHANGED <<procs, jobs, raises, taken, summary, pc>>
  OBVIOUS
<1> QED
  BY <1>0, <1>8, <1>9, LeaveKeeps

\* return from the last job of a chunk: all its jobs are clear.
LEMMA LastKeeps ==
  ASSUME NEW n, NEW ch, NEW first, NEW last, Regular(n, ch, first, last), SInv(n, ch, first, last),
         NEW w \in 1 .. procs, at[w].step = "return", at' = [at EXCEPT ![w] = Idle],
         at[w].job = n \/ ch[at[w].job + 1] # ch[at[w].job],
         rows' = rows \cup {at[w].job}, reported' = reported \cup {ch[at[w].job]},
         UNCHANGED <<procs, jobs, raises, taken, summary, pc>>
  PROVE  SInv(n, ch, first, last)'
<1>0. at[w].step \in Steps
  BY DEF Steps
<1>1. PICK i : i = at[w].job
  OBVIOUS
<1>2. Busy(w) /\ i \in 1 .. n
  BY <1>0, <1>1, BusyFacts
<1>3. /\ i \notin raises
      /\ \A j \in 1 .. n : ch[j] = ch[i] => (j \in rows <=> j < i) /\ (j < i => j \notin raises)
  BY <1>1, <1>2 DEF SInv, Progress
<1>4. /\ n \in Nat \ {0} /\ ch \in [1 .. n -> 1 .. last] /\ last \in Nat \ {0}
      /\ \A j, k \in 1 .. n : j <= k => ch[j] <= ch[k]
  BY DEF Regular
<1>5. ASSUME NEW j \in 1 .. n, ch[j] = ch[i] PROVE j <= i
  <2>1. CASE i = n
    BY <2>1, <1>4
  <2>2. CASE i # n
    <3> SUFFICES ASSUME ~ (j <= i) PROVE FALSE
      OBVIOUS
    <3>1. i + 1 \in 1 .. n /\ i <= i + 1 /\ i + 1 <= j
      BY <1>2, <1>4, <2>2
    <3>2. ch[i] <= ch[i + 1] /\ ch[i + 1] <= ch[j] /\ ch[i + 1] \in 1 .. last /\ ch[i] \in 1 .. last
      BY <1>2, <1>4, <3>1
    <3>3. ch[i + 1] = ch[i]
      BY <1>5, <3>2
    <3> QED
      BY <1>1, <2>2, <3>3
  <2> QED
    BY <2>1, <2>2
<1>6. ASSUME NEW j \in 1 .. n, ch[j] = ch[i] PROVE j \in rows' /\ Clear(first, ch, j)
  <2>1. j <= i
    BY <1>5, <1>6
  <2>2. j \in rows'
    BY <1>1, <1>2, <1>3, <1>6, <2>1
  <2>3. ASSUME NEW m \in first[ch[j]] .. j PROVE m \notin raises
    <3>1. m \in 1 .. n /\ ch[m] = ch[i]
      BY <1>6, ChunkInterval
    <3>2. m <= i
      BY <1>5, <3>1
    <3> QED
      BY <1>2, <1>3, <3>1, <3>2
  <2> QED
    BY <2>2, <2>3 DEF Clear
<1>7. PICK R : R = {i}
  OBVIOUS
<1>8. R \subseteq 1 .. n /\ rows' = rows \cup R /\ (\A j \in R : ch[j] = ch[at[w].job])
      /\ \A j \in 1 .. n : ch[j] = ch[at[w].job] => (j \in rows' <=> Clear(first, ch, j))
  BY <1>1, <1>2, <1>6, <1>7
<1>9. UNCHANGED <<procs, jobs, raises, taken, summary, pc>>
  OBVIOUS
<1> QED
  BY <1>0, <1>8, <1>9, LeaveKeeps

\* return from a job in the middle of a chunk.
LEMMA NextJobKeeps ==
  ASSUME NEW n, NEW ch, NEW first, NEW last, Regular(n, ch, first, last), SInv(n, ch, first, last),
         NEW w \in 1 .. procs, at[w].step = "return",
         at' = [at EXCEPT ![w] = [job |-> at[w].job + 1, step |-> "run"]],
         at[w].job # n, ch[at[w].job + 1] = ch[at[w].job],
         rows' = rows \cup {at[w].job},
         UNCHANGED <<procs, jobs, raises, taken, reported, summary, pc>>
  PROVE  SInv(n, ch, first, last)'
<1>0. at[w].step \in Steps
  BY DEF Steps
<1>1. PICK i : i = at[w].job
  OBVIOUS
<1>2. Busy(w) /\ i \in 1 .. n /\ pc = "map"
  BY <1>0, <1>1, BusyFacts
<1>3. /\ i \notin raises
      /\ \A j \in 1 .. n : ch[j] = ch[i] => (j \in rows <=> j < i) /\ (j < i => j \notin raises)
      /\ ch[i] <= taken /\ ch[i] \notin reported
  BY <1>1, <1>2 DEF SInv, Progress, Owned
<1>4. n \in Nat \ {0} /\ i + 1 \in 1 .. n
  BY <1>1, <1>2, SMTT(30) DEF Regular
<1>5. /\ at'[w] = [job |-> i + 1, step |-> "run"] /\ at'[w].job = i + 1 /\ at'[w].step = "run"
      /\ \A v \in 1 .. procs : v # w => at'[v] = at[v]
      /\ at' \in [1 .. procs -> {Idle} \cup [job : 1 .. n, step : Steps]]
  BY <1>1, <1>4 DEF SInv, Typed, Steps
<1>6. Typed(n, ch, last)'
  BY <1>1, <1>2, <1>5 DEF SInv, Typed, Jobs, Idle
<1>7. \A v \in 1 .. procs : Busy(v)' => v = w \/ (v # w /\ Busy(v) /\ at'[v] = at[v])
  BY <1>5 DEF Busy, Idle
<1>8. \A v \in 1 .. procs : /\ Busy(v)' => Busy(v) /\ ch[at'[v].job] = ch[at[v].job]
  BY <1>1, <1>2, <1>5, <1>7
<1>9. Owned(ch)'
  BY <1>8 DEF SInv, Owned
<1>10. Progress(n, ch, first)'
  <2>1. \A j \in rows' : ch[j] <= taken'
    BY <1>1, <1>3 DEF SInv, Progress
  <2>2. ASSUME NEW v \in 1 .. procs, Busy(v)'
        PROVE  /\ \A j \in 1 .. n : ch[j] = ch[at'[v].job] =>
                     /\ j \in rows' <=> j < at'[v].job
                     /\ j < at'[v].job => j \notin raises'
               /\ at'[v].step # "run" => at'[v].job \notin raises'
    <3>1. CASE v = w
      <4>1. ASSUME NEW j \in 1 .. n, ch[j] = ch[i]
            PROVE  (j \in rows' <=> j < i + 1) /\ (j < i + 1 => j \notin raises)
        BY <1>1, <1>2, <1>3, <4>1
      <4> QED
        BY <1>1, <1>5, <3>1, <4>1
    <3>2. CASE v # w
      <4>1. Busy(v) /\ at'[v] = at[v] /\ ch[at[v].job] # ch[i]
        BY <1>1, <1>2, <1>7, <2>2, <3>2 DEF SInv, Owned
      <4>2. \A j \in 1 .. n : ch[j] = ch[at[v].job] => (j \in rows' <=> j \in rows)
        BY <1>1, <4>1
      <4> QED
        BY <4>1, <4>2 DEF SInv, Progress
    <3> QED
      BY <3>1, <3>2
  <2>3. ASSUME NEW j \in 1 .. n, ch[j] \in reported PROVE j \in rows' <=> Clear(first, ch, j)
    BY <1>1, <1>3, <2>3 DEF SInv, Progress
  <2>4. \A j \in 1 .. n : Clear(first, ch, j)' <=> Clear(first, ch, j)
    BY DEF Clear
  <2> QED
    BY <2>1, <2>2, <2>3, <2>4 DEF Progress
<1>11. Ending(n, last)'
  BY <1>2 DEF SInv, Ending
<1> QED
  BY <1>6, <1>9, <1>10, <1>11 DEF SInv

\* main writes the summary, or raises.
LEMMA MainKeeps ==
  ASSUME NEW n, NEW ch, NEW first, NEW last, Regular(n, ch, first, last), SInv(n, ch, first, last),
         pc = "map", reported = 1 .. last,
         \/ rows = 1 .. n /\ summary' = rows /\ pc' = "done"
         \/ rows # 1 .. n /\ pc' = "raised" /\ summary' = summary,
         UNCHANGED <<procs, jobs, raises, taken, at, rows, reported>>
  PROVE  SInv(n, ch, first, last)'
<1>1. Typed(n, ch, last)'
  BY DEF SInv, Typed, Jobs, Idle
<1>2. Owned(ch)'
  BY DEF SInv, Owned, Busy, Idle
<1>3. Progress(n, ch, first)'
  BY DEF SInv, Progress, Busy, Idle, Clear
<1>4. Ending(n, last)'
  BY DEF SInv, Ending
<1> QED
  BY <1>1, <1>2, <1>3, <1>4 DEF SInv

\* The inductive invariant.
SweepInv ==
  /\ Fixed
  /\ \A n, ch, first, last :
        n = Len(jobs) /\ ch = ChunkOf /\ first = FirstOf /\ last = Chunk(Len(jobs))
           => SInv(n, ch, first, last)

\* Every step preserves the invariant.
LEMMA SweepNext ==
  ASSUME SweepInv, [Next]_vars
  PROVE  SweepInv'
<1>1. PICK n, ch, first, last : n = Len(jobs) /\ ch = ChunkOf /\ first = FirstOf /\ last = Chunk(Len(jobs))
  OBVIOUS
<1>2. Fixed /\ SInv(n, ch, first, last)
  BY <1>1, Zenon DEF SweepInv
<1>3. Regular(n, ch, first, last) /\ Chunks = 1 .. last /\ Cardinality(Chunks) = last /\ Jobs = 1 .. n
  <2>1. Regular(n, ch, first, last) /\ Chunks = 1 .. last /\ Cardinality(Chunks) = last
    BY <1>1, <1>2, ChunksRegular, Zenon
  <2> QED
    BY <1>1, <1>2, <2>1 DEF Fixed
<1>4. \A i \in 1 .. n : Chunk(i) = ch[i]
  BY <1>1, <1>3 DEF ChunkOf
<1>5. \A c \in 1 .. last : FirstJob(c) = first[c]
  BY <1>1, <1>3 DEF FirstOf
<1>6. n \in Nat \ {0} /\ last \in Nat \ {0}
  BY <1>3 DEF Regular
<1>7. UNCHANGED <<procs, jobs, raises>>
  BY DEF Next, worker, take, run, write_csv, write_meta, return, main, Ended, vars
<1>8. SInv(n, ch, first, last)'
  <2>1. ASSUME NEW w \in 1 .. procs, take(w) PROVE SInv(n, ch, first, last)'
    <3>1. taken < last /\ taken \in 0 .. last
      BY <1>2, <1>3, <2>1 DEF take, SInv, Typed
    <3>2. taken + 1 \in 1 .. last
      BY <1>6, <3>1
    <3>3. FirstJob(taken + 1) = first[taken + 1]
      BY <1>5, <3>2
    <3>4. /\ at[w] = Idle /\ taken' = taken + 1
          /\ at' = [at EXCEPT ![w] = [job |-> first[taken + 1], step |-> "run"]]
          /\ UNCHANGED <<procs, jobs, raises, rows, reported, summary, pc>>
      BY <2>1, <3>3 DEF take
    <3> QED
      BY <1>2, <1>3, <3>1, <3>4, TakeKeeps
  <2>2. ASSUME NEW w \in 1 .. procs, run(w) PROVE SInv(n, ch, first, last)'
    <3>1. at[w].step = "run" /\ at[w].step \in Steps /\ "csv" \in Steps
      BY <2>2 DEF run, Steps
    <3>2. at[w].job \in 1 .. n
      BY <1>2, <1>3, <3>1, BusyFacts
    <3>3. CASE at[w].job \in raises
      <4>1. /\ reported' = reported \cup {ch[at[w].job]} /\ at' = [at EXCEPT ![w] = Idle]
            /\ UNCHANGED <<procs, jobs, raises, taken, rows, summary, pc>>
        BY <1>4, <2>2, <3>2, <3>3 DEF run
      <4> QED
        BY <1>2, <1>3, <3>1, <3>3, <4>1, RaiseKeeps
    <3>4. CASE at[w].job \notin raises
      <4>1. /\ at' = [at EXCEPT ![w].step = "csv"]
            /\ UNCHANGED <<procs, jobs, raises, taken, rows, reported, summary, pc>>
        BY <2>2, <3>4 DEF run
      <4> QED
        BY <1>2, <1>3, <3>1, <3>4, <4>1, StepKeeps
    <3> QED
      BY <3>3, <3>4
  <2>3. ASSUME NEW w \in 1 .. procs, at[w].step \in {"csv", "meta"}
        PROVE  at[w].step \in Steps /\ at[w].job \notin raises
    <3>1. at[w].step \in Steps
      BY <2>3 DEF Steps
    <3>2. Busy(w)
      BY <1>2, <1>3, <3>1, BusyFacts
    <3> QED
      BY <1>2, <2>3, <3>1, <3>2 DEF SInv, Progress
  <2>4. ASSUME NEW w \in 1 .. procs, write_csv(w) PROVE SInv(n, ch, first, last)'
    <3>1. at[w].step \in Steps /\ at[w].job \notin raises /\ "meta" \in Steps
      BY <2>3, <2>4 DEF write_csv, Steps
    <3>2. /\ at' = [at EXCEPT ![w].step = "meta"]
          /\ UNCHANGED <<procs, jobs, raises, taken, rows, reported, summary, pc>>
      BY <2>4 DEF write_csv
    <3> QED
      BY <1>2, <1>3, <3>1, <3>2, StepKeeps
  <2>5. ASSUME NEW w \in 1 .. procs, write_meta(w) PROVE SInv(n, ch, first, last)'
    <3>1. at[w].step \in Steps /\ at[w].job \notin raises /\ "return" \in Steps
      BY <2>3, <2>5 DEF write_meta, Steps
    <3>2. /\ at' = [at EXCEPT ![w].step = "return"]
          /\ UNCHANGED <<procs, jobs, raises, taken, rows, reported, summary, pc>>
      BY <2>5 DEF write_meta
    <3> QED
      BY <1>2, <1>3, <3>1, <3>2, StepKeeps
  <2>6. ASSUME NEW w \in 1 .. procs, return(w) PROVE SInv(n, ch, first, last)'
    <3>1. PICK i : i = at[w].job
      OBVIOUS
    <3>2. at[w].step = "return" /\ at[w].step \in Steps
      BY <2>6 DEF return, Steps
    <3>3. i \in 1 .. n /\ ch[i] = Chunk(i)
      BY <1>2, <1>3, <1>4, <3>1, <3>2, BusyFacts
    <3>4. i # n => i + 1 \in 1 .. n /\ ch[i + 1] = Chunk(i + 1)
      <4>1. i # n => i + 1 \in 1 .. n
        BY <1>6, <3>3
      <4> QED
        BY <1>4, <4>1
    <3>5. CASE i = n \/ ch[i + 1] # ch[i]
      <4>1. i = Len(jobs) \/ Chunk(i + 1) # Chunk(i)
        BY <1>1, <3>3, <3>4, <3>5
      <4>2. /\ rows' = rows \cup {i} /\ reported' = reported \cup {ch[i]}
            /\ at' = [at EXCEPT ![w] = Idle]
            /\ UNCHANGED <<procs, jobs, raises, taken, summary, pc>>
        BY <2>6, <3>1, <3>3, <4>1 DEF return
      <4> QED
        BY <1>2, <1>3, <3>1, <3>2, <3>5, <4>2, LastKeeps
    <3>6. CASE ~ (i = n \/ ch[i + 1] # ch[i])
      <4>1. ~ (i = Len(jobs) \/ Chunk(i + 1) # Chunk(i))
        BY <1>1, <3>3, <3>4, <3>6
      <4>2. /\ rows' = rows \cup {i}
            /\ at' = [at EXCEPT ![w] = [job |-> i + 1, step |-> "run"]]
            /\ UNCHANGED <<procs, jobs, raises, taken, reported, summary, pc>>
        BY <2>6, <3>1, <4>1 DEF return
      <4> QED
        BY <1>2, <1>3, <3>1, <3>2, <3>6, <4>2, NextJobKeeps
    <3> QED
      BY <3>5, <3>6
  <2>7. CASE main
    <3>1. /\ pc = "map" /\ reported = 1 .. last
          /\ \/ rows = 1 .. n /\ summary' = rows /\ pc' = "done"
             \/ rows # 1 .. n /\ pc' = "raised" /\ summary' = summary
          /\ UNCHANGED <<procs, jobs, raises, taken, at, rows, reported>>
      BY <1>3, <2>7 DEF main
    <3> QED
      BY <1>2, <1>3, <3>1, MainKeeps
  <2>8. CASE UNCHANGED vars
    <3>1. UNCHANGED <<procs, jobs, raises, taken, at, rows, reported, summary, pc>>
      BY <2>8 DEF vars
    <3>2. SInv(n, ch, first, last)' <=> SInv(n, ch, first, last)
      BY <3>1 DEF SInv, Typed, Owned, Progress, Ending, Busy, Clear, Jobs, Idle
    <3> QED
      BY <1>2, <3>2
  <2> QED
    BY <2>1, <2>2, <2>4, <2>5, <2>6, <2>7, <2>8 DEF Next, worker, Ended
<1>9. Fixed'
  BY <1>2, <1>7 DEF Fixed, Jobs
<1>10. n = Len(jobs)' /\ ch = ChunkOf' /\ first = FirstOf' /\ last = Chunk(Len(jobs))'
  BY <1>1, <1>7 DEF ChunkOf, FirstOf, Chunk, Chunks, FirstJob, chunksize, Jobs
<1> QED
  BY <1>8, <1>9, <1>10 DEF SweepInv

-----------------------------------------------------------------------------
(* Summaries *)

\* Nothing has been taken when the sweep starts.
LEMMA SweepInit == Init => SweepInv
<1> SUFFICES ASSUME Init PROVE SweepInv
  OBVIOUS
<1>1. PICK r \in Runs : procs = r.procs /\ jobs = expand(r.config)
  BY Zenon DEF Init
<1>2. procs \in Nat \ {0} /\ jobs \in Seq(Range(jobs)) /\ jobs # << >>
  BY <1>1, RunsAssumption, Zenon
<1>3. Len(jobs) \in Nat \ {0} /\ Jobs = 1 .. Len(jobs)
  BY <1>2 DEF Jobs
<1>4. raises \subseteq Jobs
  <2>1. PICK S \in SUBSET {i \in Jobs : MayCrash(jobs[i])} : raises = S \cup {i \in Jobs : Rejected(jobs[i])}
    BY Zenon DEF Init
  <2> QED
    BY <2>1, Zenon
<1>5. Fixed
  BY <1>2, <1>3, <1>4 DEF Fixed
<1>6. ASSUME NEW n, NEW ch, NEW first, NEW last,
             n = Len(jobs) /\ ch = ChunkOf /\ first = FirstOf /\ last = Chunk(Len(jobs))
      PROVE  SInv(n, ch, first, last)
  <2>1. Regular(n, ch, first, last)
    BY <1>5, <1>6, ChunksRegular, Zenon
  <2>2. last \in Nat \ {0} /\ Jobs = 1 .. n
    BY <1>3, <1>6, <2>1 DEF Regular
  <2>3. /\ taken = 0 /\ at = [w \in 1 .. procs |-> Idle] /\ rows = {} /\ reported = {}
        /\ summary = {} /\ pc = "map"
    BY Zenon DEF Init
  <2>4. Typed(n, ch, last)
    BY <1>2, <1>4, <2>2, <2>3 DEF Typed
  <2>5. Owned(ch)
    BY <2>3 DEF Owned, Busy
  <2>6. Progress(n, ch, first)
    BY <2>3 DEF Progress, Busy
  <2>7. Ending(n, last)
    BY <2>3 DEF Ending
  <2> QED
    BY <2>4, <2>5, <2>6, <2>7 DEF SInv
<1> QED
  BY <1>5, <1>6, Zenon DEF SweepInv

\* The invariant says what SummaryComplete says of an ended sweep.
LEMMA InvSummary == SweepInv => SummaryComplete
<1> SUFFICES ASSUME SweepInv PROVE SummaryComplete
  OBVIOUS
<1>1. PICK n, ch, first, last : n = Len(jobs) /\ ch = ChunkOf /\ first = FirstOf /\ last = Chunk(Len(jobs))
  OBVIOUS
<1>2. Fixed /\ SInv(n, ch, first, last)
  BY <1>1, Zenon DEF SweepInv
<1>3. Regular(n, ch, first, last) /\ Chunks = 1 .. last /\ Jobs = 1 .. n
  <2>1. Regular(n, ch, first, last) /\ Chunks = 1 .. last
    BY <1>1, <1>2, ChunksRegular, Zenon
  <2> QED
    BY <1>1, <1>2, <2>1 DEF Fixed
<1>4. \A i \in 1 .. n : ch[i] \in 1 .. last /\ FirstJob(Chunk(i)) = first[ch[i]] /\ first[ch[i]] <= i
                        /\ first[ch[i]] \in 1 .. n
  BY <1>1, <1>3 DEF ChunkOf, FirstOf, Regular
<1>5. ASSUME pc # "map" PROVE \A i \in 1 .. n : i \in rows <=> Clear(first, ch, i)
  <2>1. reported = 1 .. last
    BY <1>2, <1>5 DEF SInv, Typed, Ending
  <2> QED
    BY <1>2, <1>4, <2>1 DEF SInv, Progress
<1>6. raises \subseteq 1 .. n /\ rows \subseteq 1 .. n
  BY <1>2 DEF SInv, Typed
<1>7. ASSUME NEW i \in 1 .. n, i \in raises PROVE ~ Clear(first, ch, i)
  BY <1>4, <1>7 DEF Clear
<1>8. ASSUME NEW i \in 1 .. n PROVE Clear(first, ch, i) <=> \A j \in FirstJob(Chunk(i)) .. i : j \notin raises
  BY <1>4 DEF Clear
<1>9. pc = "done" => raises = {} /\ summary = Jobs
  BY <1>2, <1>3, <1>5, <1>6, <1>7 DEF SInv, Ending
<1>10. pc = "raised" => raises # {} /\ summary = {}
  BY <1>2, <1>3, <1>5, <1>6 DEF SInv, Ending, Clear
<1>11. pc # "map" => rows = {i \in Jobs : \A j \in FirstJob(Chunk(i)) .. i : j \notin raises}
  BY <1>3, <1>5, <1>6, <1>8
<1> QED
  BY <1>9, <1>10, <1>11 DEF SummaryComplete

\* The invariant holds in every reachable state, for any number of jobs and of
\* workers and any set of jobs that raise: no two workers are in one chunk, and
\* a reported chunk has exactly the rows of the jobs before its first failure.
THEOREM SweepInvariant == Spec => []SweepInv
<1>1. Init => SweepInv
  BY SweepInit
<1>2. SweepInv /\ [Next]_vars => SweepInv'
  BY SweepNext
<1> QED
  BY <1>1, <1>2, PTL DEF Spec

\* main writes a summary only when no job raised, with the row of every job;
\* otherwise the rows are those of the jobs no earlier job of their chunk failed.
THEOREM SummariesComplete == Spec => []SummaryComplete
<1>1. SweepInv => SummaryComplete
  BY InvSummary
<1> QED
  BY <1>1, SweepInvariant, PTL

-----------------------------------------------------------------------------
(* Files *)

\* Different jobs have different file names.  It depends on the grid: jobs that
\* differ in dram alone share one.
NamesDistinguish == \A i, j \in Jobs : name(jobs[i]) = name(jobs[j]) => jobs[i] = jobs[j]

\* The file names of the sweep.
Names == {name(jobs[i]) : i \in Jobs}

\* A file holds the results of a job of that name.
Files ==
  /\ DOMAIN csv = Names /\ DOMAIN meta = Names
  /\ \A m \in Names : csv[m] # 0 => csv[m] \in Jobs /\ name(jobs[csv[m]]) = m
  /\ \A m \in Names : meta[m] # 0 => meta[m] \in Jobs /\ name(jobs[meta[m]]) = m

\* The files of a job are there from the moment the worker has written them.
Written ==
  /\ \A w \in 1 .. procs : at[w].step \in {"meta", "return"} => csv[name(jobs[at[w].job])] # 0
  /\ \A w \in 1 .. procs : at[w].step = "return" => meta[name(jobs[at[w].job])] # 0
  /\ \A i \in rows : csv[name(jobs[i])] # 0 /\ meta[name(jobs[i])] # 0

\* What the files need of SweepInv.
Placed ==
  /\ procs \in Nat \ {0} /\ 0 \notin Jobs
  /\ at \in [1 .. procs -> {Idle} \cup [job : Jobs, step : Steps]]
  /\ rows \subseteq Jobs

\* It follows from the invariant.
LEMMA InvPlaced == SweepInv => Placed
<1> SUFFICES ASSUME SweepInv PROVE Placed
  OBVIOUS
<1>1. PICK n, ch, first, last : n = Len(jobs) /\ ch = ChunkOf /\ first = FirstOf /\ last = Chunk(Len(jobs))
  OBVIOUS
<1>2. Fixed /\ SInv(n, ch, first, last)
  BY <1>1, Zenon DEF SweepInv
<1>3. Jobs = 1 .. n /\ n \in Nat \ {0}
  BY <1>1, <1>2 DEF Fixed
<1> QED
  BY <1>2, <1>3 DEF SInv, Typed, Placed

\* Every step preserves what the files hold.
LEMMA FilesNext ==
  ASSUME Placed, NamesDistinguish, Files, Written, [Next]_vars
  PROVE  NamesDistinguish' /\ Files' /\ Written'
<1>1. UNCHANGED <<procs, jobs>>
  BY DEF Next, worker, take, run, write_csv, write_meta, return, main, Ended, vars
<1>2. Jobs' = Jobs /\ Names' = Names /\ NamesDistinguish'
  BY <1>1 DEF Jobs, Names, NamesDistinguish
<1>3. ASSUME NEW w \in 1 .. procs, at[w].step \in Steps
      PROVE  at[w].job \in Jobs /\ name(jobs[at[w].job]) \in Names
  <2>1. at[w] \in [job : Jobs, step : Steps]
    BY <1>3 DEF Placed, Idle, Steps
  <2> QED
    BY <2>1 DEF Names
<1>4. ASSUME NEW w \in 1 .. procs, NEW r, at' = [at EXCEPT ![w] = r]
      PROVE  at'[w] = r /\ \A v \in 1 .. procs : v # w => at'[v] = at[v]
  BY <1>4 DEF Placed
<1>5. ASSUME NEW w \in 1 .. procs, at'[w].step \in {"idle", "run", "csv"},
             \A v \in 1 .. procs : v # w => at'[v] = at[v],
             UNCHANGED <<csv, meta, rows>>
      PROVE  Files' /\ Written'
  <2>1. Files'
    BY <1>1, <1>2, <1>5 DEF Files
  <2>2. \A v \in 1 .. procs : at'[v].step \in {"meta", "return"} => at'[v] = at[v]
    BY <1>5
  <2>3. Written'
    BY <1>1, <1>5, <2>2 DEF Written
  <2> QED
    BY <2>1, <2>3
<1>6. ASSUME NEW w \in 1 .. procs, take(w) PROVE Files' /\ Written'
  <2>1. /\ at'[w].step = "run" /\ UNCHANGED <<csv, meta, rows>>
        /\ \A v \in 1 .. procs : v # w => at'[v] = at[v]
    BY <1>6 DEF take, Placed
  <2> QED
    BY <1>5, <2>1
<1>7. ASSUME NEW w \in 1 .. procs, run(w) PROVE Files' /\ Written'
  <2>1. at[w] \in [job : Jobs, step : Steps]
    BY <1>7 DEF run, Placed, Idle, Steps
  <2>2. /\ at'[w].step \in {"idle", "csv"} /\ UNCHANGED <<csv, meta, rows>>
        /\ \A v \in 1 .. procs : v # w => at'[v] = at[v]
    BY <1>7, <2>1 DEF run, Placed, Idle
  <2> QED
    BY <1>5, <2>2
<1>8. ASSUME NEW w \in 1 .. procs, write_csv(w) PROVE Files' /\ Written'
  <2>1. at[w].step = "csv" /\ at[w].step \in Steps /\ UNCHANGED <<meta, rows>>
    BY <1>8 DEF write_csv, Steps
  <2>2. PICK i, m : i = at[w].job /\ m = name(jobs[i])
    OBVIOUS
  <2>3. i \in Jobs /\ m \in Names /\ i # 0 /\ name(jobs[i]) = m
    BY <1>3, <2>1, <2>2 DEF Placed
  <2>4. csv' = [csv EXCEPT ![m] = i]
    BY <1>8, <2>2 DEF write_csv
  <2>5. DOMAIN csv' = Names /\ csv'[m] = i /\ \A x \in Names : x # m => csv'[x] = csv[x]
    BY <2>3, <2>4 DEF Files
  <2>6. Files'
    BY <1>1, <1>2, <2>1, <2>3, <2>5 DEF Files
  <2>7. \A x \in Names : csv[x] # 0 => csv'[x] # 0
    BY <2>3, <2>5
  <2>8. at'[w].job = i /\ at'[w].step = "meta" /\ \A v \in 1 .. procs : v # w => at'[v] = at[v]
    <3>1. at[w] \in [job : Jobs, step : Steps]
      BY <2>1 DEF Placed, Idle, Steps
    <3> QED
      BY <1>8, <2>2, <3>1 DEF write_csv, Placed
  <2>9. ASSUME NEW v \in 1 .. procs, at'[v].step \in {"meta", "return"} PROVE csv'[name(jobs[at'[v].job])] # 0
    <3>1. CASE v = w
      BY <2>3, <2>5, <2>8, <3>1
    <3>2. CASE v # w
      BY <1>3, <2>7, <2>8, <2>9, <3>2 DEF Written, Steps
    <3> QED
      BY <3>1, <3>2
  <2>10. \A v \in 1 .. procs : at'[v].step = "return" => meta[name(jobs[at'[v].job])] # 0
    BY <2>8 DEF Written
  <2>11. \A j \in rows : csv'[name(jobs[j])] # 0 /\ meta[name(jobs[j])] # 0
    BY <2>7 DEF Written, Placed, Names
  <2> QED
    BY <1>1, <2>1, <2>6, <2>9, <2>10, <2>11 DEF Written
<1>9. ASSUME NEW w \in 1 .. procs, write_meta(w) PROVE Files' /\ Written'
  <2>1. at[w].step = "meta" /\ at[w].step \in Steps /\ UNCHANGED <<csv, rows>>
    BY <1>9 DEF write_meta, Steps
  <2>2. PICK i, m : i = at[w].job /\ m = name(jobs[i])
    OBVIOUS
  <2>3. i \in Jobs /\ m \in Names /\ i # 0 /\ name(jobs[i]) = m
    BY <1>3, <2>1, <2>2 DEF Placed
  <2>4. meta' = [meta EXCEPT ![m] = i]
    BY <1>9, <2>2 DEF write_meta
  <2>5. DOMAIN meta' = Names /\ meta'[m] = i /\ \A x \in Names : x # m => meta'[x] = meta[x]
    BY <2>3, <2>4 DEF Files
  <2>6. Files'
    BY <1>1, <1>2, <2>1, <2>3, <2>5 DEF Files
  <2>7. \A x \in Names : meta[x] # 0 => meta'[x] # 0
    BY <2>3, <2>5
  <2>8. at'[w].job = i /\ at'[w].step = "return" /\ \A v \in 1 .. procs : v # w => at'[v] = at[v]
    <3>1. at[w] \in [job : Jobs, step : Steps]
      BY <2>1 DEF Placed, Idle, Steps
    <3> QED
      BY <1>9, <2>2, <3>1 DEF write_meta, Placed
  <2>9. ASSUME NEW v \in 1 .. procs, at'[v].step = "return" PROVE meta'[name(jobs[at'[v].job])] # 0
    <3>1. CASE v = w
      BY <2>3, <2>5, <2>8, <3>1
    <3>2. CASE v # w
      BY <1>3, <2>7, <2>8, <2>9, <3>2 DEF Written, Steps
    <3> QED
      BY <3>1, <3>2
  <2>10. \A v \in 1 .. procs : at'[v].step \in {"meta", "return"} => csv[name(jobs[at'[v].job])] # 0
    BY <2>1, <2>2, <2>8 DEF Written
  <2>11. \A j \in rows : meta'[name(jobs[j])] # 0 /\ csv[name(jobs[j])] # 0
    BY <2>7 DEF Written, Placed, Names
  <2> QED
    BY <1>1, <2>1, <2>6, <2>9, <2>10, <2>11 DEF Written
<1>10. ASSUME NEW w \in 1 .. procs, return(w) PROVE Files' /\ Written'
  <2>1. /\ at[w].step = "return" /\ rows' = rows \cup {at[w].job} /\ UNCHANGED <<csv, meta>>
    BY <1>10 DEF return
  <2>2. PICK r : at' = [at EXCEPT ![w] = r] /\ r.step \in {"idle", "run"}
    <3>1. Idle.step = "idle" /\ \A i : [job |-> i, step |-> "run"].step = "run"
      BY DEF Idle
    <3> QED
      BY <1>10, <3>1 DEF return
  <2>3. Files'
    BY <1>1, <1>2, <2>1 DEF Files
  <2>4. \A v \in 1 .. procs : at'[v].step \in {"meta", "return"} => at'[v] = at[v]
    BY <1>4, <2>2
  <2>5. \A i \in rows' : csv[name(jobs[i])] # 0 /\ meta[name(jobs[i])] # 0
    BY <2>1 DEF Written
  <2> QED
    BY <1>1, <2>1, <2>3, <2>4, <2>5 DEF Written
<1>11. CASE UNCHANGED <<csv, meta, rows, at>>
  BY <1>1, <1>2, <1>11 DEF Files, Written
<1> QED
  BY <1>2, <1>6, <1>7, <1>8, <1>9, <1>10, <1>11 DEF Next, worker, main, Ended, vars

\* If the names of the grid distinguish its jobs, the files of a row hold that
\* job's own results from the moment it is returned, whatever the other workers
\* write and in whichever order.
THEOREM FilesKept == Spec /\ NamesDistinguish => []OwnFile
<1>1. Init => Files /\ Written
  <2> SUFFICES ASSUME Init PROVE Files /\ Written
    OBVIOUS
  <2>1. Fixed /\ Placed
    BY SweepInit, InvPlaced DEF SweepInv
  <2>2. csv = [m \in Names |-> 0] /\ meta = csv /\ rows = {} /\ at = [w \in 1 .. procs |-> Idle]
    BY Zenon DEF Init, Names
  <2> QED
    BY <2>2 DEF Files, Written, Idle
<1>2. Placed /\ NamesDistinguish /\ Files /\ Written /\ [Next]_vars => NamesDistinguish' /\ Files' /\ Written'
  BY FilesNext
<1>3. Placed /\ NamesDistinguish /\ Files /\ Written => OwnFile
  <2> SUFFICES ASSUME Placed, NamesDistinguish, Files, Written, NEW i \in rows
               PROVE  LET c == csv[name(jobs[i])]
                          d == meta[name(jobs[i])]
                      IN  c # 0 /\ d # 0 /\ jobs[c] = jobs[i] /\ jobs[d] = jobs[i]
    BY DEF OwnFile
  <2>1. PICK m \in Names : m = name(jobs[i]) /\ i \in Jobs
    BY DEF Placed, Names
  <2>2. csv[m] # 0 /\ meta[m] # 0
    BY <2>1 DEF Written
  <2>3. csv[m] \in Jobs /\ name(jobs[csv[m]]) = m /\ meta[m] \in Jobs /\ name(jobs[meta[m]]) = m
    BY <2>2 DEF Files
  <2> QED
    BY <2>1, <2>2, <2>3 DEF NamesDistinguish
<1>4. SweepInv => Placed
  BY InvPlaced
<1> QED
  BY <1>1, <1>2, <1>3, <1>4, SweepInvariant, PTL DEF Spec
=============================================================================
