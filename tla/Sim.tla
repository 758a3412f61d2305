-------------------------------- MODULE Sim --------------------------------
(***************************************************************************)
(* The continuous-batching loop of pimkv/sim.py, simulate(), over an       *)
(* allocator that places block by block (paged, random, pim-aware) or over *)
(* the contiguous oracle, which reserves a span for a whole sequence.  The *)
(* loop is single threaded: pc says where it is, and a step is one         *)
(* iteration of one of its inner loops.                                    *)
(*                                                                         *)
(* Blocks are counted, not named: KVAllocator shows that a table of n      *)
(* blocks, k of them shared with a pinned prefix cache, gives back n - k   *)
(* blocks when it is released.  num_free is the allocator's.  Spans have a *)
(* place: Contiguous shows that its extents are the gaps between them.     *)
(*                                                                         *)
(* Time is abstracted to how many requests have arrived: between two steps *)
(* of the loop any number more may arrive, and an idle loop jumps to the   *)
(* next arrival.  Draws of the random generators are nondeterministic      *)
(* choices.  Sampling (the CSV rows, module Measure) changes no state.     *)
(***************************************************************************)
EXTENDS Integers, Sequences, FiniteSets, FiniteSetsExt, Functions, Workload

CONSTANTS
    NumBlocks,    \* alloc.num_blocks
    BlockTokens,  \* block_tokens
    NReq,         \* number of requests
    Requests,     \* the requests a workload may hold: [prompt, output, prefix]
    PrefixLen,    \* prefix id -> prefix_len
    MaxBatch,     \* max_batch
    MaxPreempts,  \* preemptions after which a sequence is dropped (1000)
    Options       \* the options simulate may be called with: admission
                  \* ("oracle" or "vllm"), watermark (watermark_blocks), adopt
                  \* ("none", or spec.adopt: "splice", "copyback"), width and
                  \* depth of the speculation, and contiguous, whether the
                  \* allocator is the contiguous oracle (persistent_scratch)

Rid == 1 .. NReq
Prefix == DOMAIN PrefixLen

ASSUME SimAssumption ==
    /\ NumBlocks \in Nat \ {0} /\ BlockTokens \in Nat \ {0}
    /\ NReq \in Nat /\ MaxBatch \in Nat \ {0}
    /\ MaxPreempts \in Nat
    /\ \A o \in Options :
          /\ o.admission \in {"oracle", "vllm"}
          /\ o.watermark \in Nat
          /\ o.adopt \in {"none", "splice", "copyback"}
          /\ o.width \in Nat \ {0}
          /\ o.depth \in Nat
          /\ o.contiguous => o.admission = "oracle"

\* A prompt is its prefix followed by tokens of its own (workload.prefix).
ASSUME RequestsAssumption ==
    /\ Prefix \subseteq Nat \ {NoPrefix} /\ IsFiniteSet(Prefix)
    /\ PrefixLen \in [Prefix -> Nat]
    /\ \A q \in Requests :
          /\ q.prompt \in Nat \ {0} /\ q.output \in Nat \ {0}
          /\ q.prefix \in Prefix \cup {NoPrefix}
          /\ q.prefix # NoPrefix => q.prompt > PrefixLen[q.prefix]

VARIABLES
    opts,          \* the options of this call
    reqs,          \* the requests, in order of arrival
    arrived,       \* how many of them have arrived
    next,          \* i: how many have been admitted or dropped
    active,        \* keys of the dict active, in insertion order
    waiting,       \* the deque of preempted sequences
    length,        \* SeqState.length, the prompt before the first admission
    table,         \* rid -> length of its block table
    shared,        \* rid -> how many blocks of it belong to a prefix cache
    scratch,       \* rid -> blocks of its scratch region (SeqState.scratch)
    span,          \* rid -> first block of its span (contiguous oracle)
    preempts,      \* SeqState.preempts
    cache,         \* prefix id -> blocks its cache pins (0: no cache)
    num_free,      \* alloc.num_free
    completed,     \* sequences that finished
    dropped,       \* requests given up
    frag_failures, \* AdmissionFailures caught by try_admit
    batch,         \* the snapshot list(active.values()) still to decode
    finished,      \* sequences to release at the end of the step
    pc             \* where the loop is

setup == <<opts, reqs>>
queues == <<arrived, next, waiting>>
pool == <<active, table, shared, scratch, span, cache, num_free>>
results == <<completed, dropped>>
simvars == <<setup, queues, pool, length, preempts, results, frag_failures,
             batch, finished, pc>>

ceil_div(x, y) == (x + y - 1) \div y
Blocks(tokens) == ceil_div(tokens, BlockTokens)
Members(l) == {l[i] : i \in DOMAIN l}

\* The members of l that are not in S, in their order.
Without(l, S) ==
    LET kept[i \in 0 .. Len(l)] ==
            IF i = 0 THEN << >>
            ELSE IF l[i] \in S THEN kept[i - 1] ELSE Append(kept[i - 1], l[i])
    IN  kept[Len(l)]

total_len(r) == reqs[r].prompt + reqs[r].output

NoSpan == -1

\* The scratch region the contiguous oracle reserves for the branches: per
\* branch a partial block, the drafts and the bonus token.
scratch_per_seq ==
    IF opts.contiguous /\ opts.adopt # "none"
    THEN opts.width * ceil_div(BlockTokens - 1 + opts.depth + 1, BlockTokens)
    ELSE 0

\* Mutant: the footprint is rounded down to whole blocks.
TotalRoundedDown(r) == (total_len(r) \div BlockTokens) + scratch_per_seq

total_blocks(r) == Blocks(total_len(r)) + scratch_per_seq

Init ==
    /\ opts \in Options
    /\ reqs \in [Rid -> Requests]
    /\ arrived \in 0 .. NReq
    /\ next = 0
    /\ active = << >>
    /\ waiting = << >>
    /\ length = [r \in Rid |-> reqs[r].prompt]
    /\ table = [r \in Rid |-> 0]
    /\ shared = [r \in Rid |-> 0]
    /\ scratch = [r \in Rid |-> 0]
    /\ span = [r \in Rid |-> NoSpan]
    /\ preempts = [r \in Rid |-> 0]
    /\ cache = [p \in Prefix |-> 0]
    /\ num_free = NumBlocks
    /\ completed = {}
    /\ dropped = {}
    /\ frag_failures = 0
    /\ batch = << >>
    /\ finished = << >>
    /\ pc = "waiting"

-----------------------------------------------------------------------------
(* try_admit *)

\* The growth the running sequences may still ask for.
committed ==
    SumFunctionOnSet([r \in Rid |-> total_blocks(r) - table[r] - scratch[r]], Members(active))

prompt_blocks(r) == Blocks(length[r])

\* The request attaches to a prefix cache, which it may have to fill first.
Sharing(r) ==
    /\ reqs[r].prefix # NoPrefix
    /\ ~ opts.contiguous
    /\ PrefixLen[reqs[r].prefix] >= BlockTokens

\* Mutant: the last, partial block of a prefix is shared too.
SharedRoundedUp(r) == IF Sharing(r) THEN Blocks(PrefixLen[reqs[r].prefix]) ELSE 0

n_shared(r) == IF Sharing(r) THEN PrefixLen[reqs[r].prefix] \div BlockTokens ELSE 0
n_new(r) == prompt_blocks(r) - n_shared(r)
Fills(r) == Sharing(r) /\ cache[reqs[r].prefix] = 0
to_fill(r) == IF Fills(r) THEN n_shared(r) ELSE 0

\* The gate in front of the prefix cache ...
CacheGate(r) ==
    IF opts.admission = "oracle"
    THEN num_free - committed >= n_shared(r) + total_blocks(r)
    ELSE num_free - prompt_blocks(r) >= opts.watermark

\* Mutant: the growth committed to running sequences is ignored.
GateUncommitted(r) ==
    IF opts.admission = "oracle"
    THEN num_free - to_fill(r) >= total_blocks(r) - n_shared(r)
    ELSE num_free - to_fill(r) - n_new(r) >= opts.watermark

\* Mutant: no gate after a cache hit.
GateOpen(r) == TRUE

\* ... and the one in front of the sequence, with the cache in place.
Gate(r) ==
    IF opts.admission = "oracle"
    THEN num_free - to_fill(r) - committed >= total_blocks(r) - n_shared(r)
    ELSE num_free - to_fill(r) - n_new(r) >= opts.watermark

\* Where the contiguous oracle can put r: n blocks that no span overlaps.
Starts(r) ==
    {s \in 0 .. NumBlocks - total_blocks(r) :
        \A q \in Rid :
            \/ span[q] = NoSpan
            \/ s + total_blocks(r) <= span[q] \/ span[q] + total_blocks(q) <= s}

\* The allocator finds no place for r.
Unplaced(r) ==
    IF opts.contiguous THEN Starts(r) = {} ELSE num_free - to_fill(r) < n_new(r)

\* How a call of try_admit ends; "frag" is an AdmissionFailure of the
\* allocator, which the code catches and counts.
Verdict(r) ==
    IF Fills(r) /\ ~ CacheGate(r) THEN "refused"
    ELSE IF num_free < to_fill(r) THEN "cache_frag"
    ELSE IF ~ Gate(r) THEN "full"
    ELSE IF Unplaced(r) THEN "frag"
    ELSE "admitted"

\* A cache that was filled stays, even if the sequence is then refused.
TryAdmit(r) ==
    LET v == Verdict(r)
        filled == IF v \in {"full", "frag", "admitted"} THEN to_fill(r) ELSE 0
    IN  /\ cache' = IF filled > 0 THEN [cache EXCEPT ![reqs[r].prefix] = filled]
                                  ELSE cache
        /\ frag_failures' = frag_failures + IF v \in {"cache_frag", "frag"} THEN 1 ELSE 0
        /\ IF v = "admitted"
           THEN /\ active' = Append(active, r)
                /\ table' = [table EXCEPT ![r] = prompt_blocks(r)]
                /\ shared' = [shared EXCEPT ![r] = n_shared(r)]
                /\ scratch' = [scratch EXCEPT ![r] = scratch_per_seq]
                /\ span' = [span EXCEPT ![r] = IF opts.contiguous THEN Min(Starts(r)) ELSE NoSpan]
                /\ num_free' = num_free - filled - n_new(r) - scratch_per_seq
           ELSE /\ num_free' = num_free - filled
                /\ UNCHANGED <<active, table, shared, scratch, span>>

-----------------------------------------------------------------------------
(* Admission: preempted sequences first, then new arrivals *)

BatchHasRoom == Len(active) < MaxBatch

\* Mutant: no limit on preemptions.
HopelessUncapped(r) == Blocks(length[r] + 1) > NumBlocks

Hopeless(r) == preempts[r] > MaxPreempts \/ Blocks(length[r] + 1) > NumBlocks

\* The decode loop starts on a snapshot of the batch.
StartDecode ==
    /\ pc' = "decode"
    /\ batch' = active
    /\ finished' = << >>

drop_hopeless ==
    /\ pc = "waiting" /\ waiting # << >> /\ BatchHasRoom
    /\ Hopeless(Head(waiting))
    /\ waiting' = Tail(waiting)
    /\ dropped' = dropped \cup {Head(waiting)}
    /\ UNCHANGED <<setup, arrived, next, pool, length, preempts, completed,
                   frag_failures, batch, finished, pc>>

\* Mutant: a preempted sequence that does not fit does not block new arrivals.
ReadmitUnblocked ==
    /\ pc = "waiting" /\ waiting # << >> /\ BatchHasRoom
    /\ ~ Hopeless(Head(waiting))
    /\ TryAdmit(Head(waiting))
    /\ IF Verdict(Head(waiting)) = "admitted"
       THEN waiting' = Tail(waiting) /\ UNCHANGED <<dropped, pc>>
       ELSE IF active = << >>
       THEN waiting' = Tail(waiting) /\ dropped' = dropped \cup {Head(waiting)} /\ UNCHANGED pc
       ELSE pc' = "arrivals" /\ UNCHANGED <<waiting, dropped>>
    /\ UNCHANGED <<setup, arrived, next, length, preempts, completed, batch, finished>>

readmit ==
    /\ pc = "waiting" /\ waiting # << >> /\ BatchHasRoom
    /\ ~ Hopeless(Head(waiting))
    /\ TryAdmit(Head(waiting))
    /\ IF Verdict(Head(waiting)) = "admitted"
       THEN waiting' = Tail(waiting) /\ UNCHANGED <<dropped, batch, finished, pc>>
       ELSE IF active = << >>
       THEN /\ waiting' = Tail(waiting)
            /\ dropped' = dropped \cup {Head(waiting)}
            /\ UNCHANGED <<batch, finished, pc>>
       ELSE StartDecode /\ UNCHANGED <<waiting, dropped>>
    /\ UNCHANGED <<setup, arrived, next, length, preempts, completed>>

readmit_end ==
    /\ pc = "waiting"
    /\ waiting = << >> \/ ~ BatchHasRoom
    /\ pc' = "arrivals"
    /\ UNCHANGED <<setup, queues, pool, length, preempts, results, frag_failures,
                   batch, finished>>

arrive ==
    /\ pc = "arrivals" /\ next < arrived /\ BatchHasRoom
    /\ TryAdmit(next + 1)
    /\ IF Verdict(next + 1) = "admitted"
       THEN next' = next + 1 /\ UNCHANGED <<dropped, batch, finished, pc>>
       ELSE IF active = << >>
       THEN /\ next' = next + 1
            /\ dropped' = dropped \cup {next + 1}
            /\ UNCHANGED <<batch, finished, pc>>
       ELSE StartDecode /\ UNCHANGED <<next, dropped>>
    /\ UNCHANGED <<setup, arrived, waiting, length, preempts, completed>>

ArrivalsOver == pc = "arrivals" /\ (next = arrived \/ ~ BatchHasRoom)

start_decode ==
    /\ ArrivalsOver
    /\ active # << >>
    /\ StartDecode
    /\ UNCHANGED <<setup, queues, pool, length, preempts, results, frag_failures>>

\* Nothing runs: the clock jumps to the next arrival.
idle_jump ==
    /\ ArrivalsOver
    /\ active = << >>
    /\ next < NReq
    /\ arrived' \in next + 1 .. NReq
    /\ pc' = "waiting"
    /\ UNCHANGED <<setup, next, waiting, pool, length, preempts, results,
                   frag_failures, batch, finished>>

\* Nothing runs and nothing is left: the prefix caches are released.
stop ==
    /\ ArrivalsOver
    /\ active = << >>
    /\ next = NReq
    /\ num_free' = num_free + SumFunctionOnSet(cache, Prefix)
    /\ cache' = [p \in Prefix |-> 0]
    /\ pc' = "done"
    /\ UNCHANGED <<setup, queues, active, table, shared, scratch, span, length, preempts,
                   results, frag_failures, batch, finished>>

-----------------------------------------------------------------------------
(* ensure_free and preempt *)

Others(r) == Without(active, {r})

\* The m most recently admitted other sequences.
Last(r, m) == SubSeq(Others(r), Len(Others(r)) - m + 1, Len(Others(r)))

\* Mutant: a release gives back the blocks of the prefix cache too.
PrivateAll(q) == table[q]

\* What a sequence gives back: the shared blocks stay with the cache.
Private(q) == table[q] - shared[q] + scratch[q]
Freed(S) == SumFunctionOnSet([q \in Rid |-> Private(q)], S)

\* How many others must go until n blocks are free, f being free now.
Enough(r, f, n) == {m \in 0 .. Len(Others(r)) : f + Freed(Members(Last(r, m))) >= n}

\* The sequences ensure_free(r, n) preempts, in the order of admission; r
\* itself is among them when the others are not enough.
Victims(r, f, n) ==
    IF opts.admission = "oracle" THEN << >>
    ELSE IF Enough(r, f, n) # {} THEN Last(r, Min(Enough(r, f, n)))
    ELSE <<r>> \o Others(r)

Forget(d, S) == [q \in Rid |-> IF q \in S THEN 0 ELSE d[q]]

\* Mutant: the victims are not put back into the queue.
PreemptLoses(vs) ==
    /\ active' = Without(active, Members(vs))
    /\ waiting' = waiting
    /\ preempts' = [q \in Rid |-> IF q \in Members(vs)
                                  THEN Min({preempts[q] + 1, MaxPreempts + 1})
                                  ELSE preempts[q]]

\* Preemption by recompute: the blocks go, the tokens stay, and the sequence is
\* put in front of the queue (the last victim first).
Preempt(vs) ==
    /\ active' = Without(active, Members(vs))
    /\ waiting' = vs \o waiting
    /\ preempts' = [q \in Rid |-> IF q \in Members(vs)
                                  THEN Min({preempts[q] + 1, MaxPreempts + 1})
                                  ELSE preempts[q]]

Crash == pc' = "crashed" /\ UNCHANGED <<queues, pool, length, preempts, batch, finished>>

\* r advances by `tokens` tokens and appends n blocks, while its branches hold
\* `held` blocks that are given back at the end.  append_block raises an
\* AdmissionFailure nobody catches if the pool, or the reservation of a span,
\* is used up.  The contiguous oracle never preempts.
Grow(r, n, held, tokens) ==
    LET vs == Victims(r, num_free - held, n)
        room == num_free + Freed(Members(vs))
        len == length[r] + tokens
    IN  IF r \in Members(vs)
        THEN /\ Preempt(vs)
             /\ table' = Forget(table, Members(vs))
             /\ shared' = Forget(shared, Members(vs))
             /\ num_free' = room
             /\ batch' = Tail(batch)
             /\ UNCHANGED <<arrived, next, scratch, span, cache, length, finished, pc>>
        ELSE IF n > IF opts.contiguous THEN total_blocks(r) - scratch[r] - table[r]
                                       ELSE room - held
        THEN Crash
        ELSE /\ Preempt(vs)
             /\ table' = [Forget(table, Members(vs)) EXCEPT ![r] = @ + n]
             /\ shared' = Forget(shared, Members(vs))
             /\ num_free' = room - n
             /\ length' = [length EXCEPT ![r] = len]
             /\ finished' = IF len >= total_len(r) THEN Append(finished, r) ELSE finished
             /\ batch' = Tail(batch)
             /\ UNCHANGED <<arrived, next, scratch, span, cache, pc>>

-----------------------------------------------------------------------------
(* Decode *)

Running == pc = "decode" /\ batch # << >>
Current == Head(batch)

\* The sequence was preempted earlier in this step.
decode_skip ==
    /\ Running
    /\ Current \notin Members(active)
    /\ batch' = Tail(batch)
    /\ UNCHANGED <<setup, queues, pool, length, preempts, results, frag_failures,
                   finished, pc>>

\* One token, and a block when the table is full.
OneToken(r) == Grow(r, IF length[r] + 1 > table[r] * BlockTokens THEN 1 ELSE 0, 0, 1)

decode ==
    /\ Running
    /\ Current \in Members(active)
    /\ opts.adopt = "none"
    /\ OneToken(Current)
    /\ UNCHANGED <<setup, results, frag_failures>>

partial(r) == length[r] % BlockTokens

\* Mutant: a branch has no room for the bonus token.
BranchNoBonus(r) == ceil_div(partial(r) + opts.depth, BlockTokens)

n_br(r) == ceil_div(partial(r) + opts.depth + 1, BlockTokens)
Branches(r) == opts.width * n_br(r)

\* The pool is too tight for the branches: plain decode.
spec_stall ==
    /\ Running
    /\ Current \in Members(active)
    /\ opts.adopt # "none" /\ ~ opts.contiguous
    /\ num_free < Branches(Current)
    /\ OneToken(Current)
    /\ UNCHANGED <<setup, results, frag_failures>>

\* Mutant: the accepted tokens may run over the end of the output.
AdvOver(r, k) == k + 1

\* k drafts and the bonus token, as far as the output goes.
adv(r, k) == Min({k + 1, total_len(r) - length[r]})

\* The branches live in the scratch region, the accepted tokens are copied
\* into the span.
spec_contiguous(k) ==
    LET r == Current
        a == adv(r, k)
    IN  /\ Running
        /\ r \in Members(active)
        /\ opts.adopt # "none" /\ opts.contiguous
        /\ Grow(r, Blocks(length[r] + a) - Blocks(length[r]), 0, a)
        /\ UNCHANGED <<setup, results, frag_failures>>

\* The accepted tokens are copied to the sequence's own tail.
spec_copyback(k) ==
    LET r == Current
        a == adv(r, k)
    IN  /\ Running
        /\ r \in Members(active)
        /\ opts.adopt = "copyback" /\ ~ opts.contiguous
        /\ num_free >= Branches(r)
        /\ Grow(r, Blocks(length[r] + a) - Blocks(length[r]), Branches(r), a)
        /\ UNCHANGED <<setup, results, frag_failures>>

\* The first `keep` blocks of the winning branch go into the table, in place
\* of the partial last block; a last block the cache pins is not freed.
spec_splice(k) ==
    LET r == Current
        a == adv(r, k)
        len == length[r] + a
        keep == Min({ceil_div(partial(r) + a, BlockTokens), n_br(r)})
        base == IF partial(r) > 0 THEN table[r] - 1 ELSE table[r]
        sh == Min({shared[r], base})
    IN  /\ Running
        /\ r \in Members(active)
        /\ opts.adopt = "splice" /\ ~ opts.contiguous
        /\ num_free >= Branches(r)
        /\ table' = [table EXCEPT ![r] = base + keep]
        /\ shared' = [shared EXCEPT ![r] = sh]
        /\ num_free' = num_free + ((table[r] - shared[r]) - (base - sh)) - keep
        /\ length' = [length EXCEPT ![r] = len]
        /\ finished' = IF len >= total_len(r) THEN Append(finished, r) ELSE finished
        /\ batch' = Tail(batch)
        /\ UNCHANGED <<setup, queues, active, scratch, span, cache, preempts, results,
                       frag_failures, pc>>

decode_end ==
    /\ pc = "decode"
    /\ batch = << >>
    /\ pc' = "finish"
    /\ UNCHANGED <<setup, queues, pool, length, preempts, results, frag_failures,
                   batch, finished>>

-----------------------------------------------------------------------------
(* Finished sequences release their blocks *)

\* Mutant: the span of a finished sequence is not returned.
FinishKeepsSpan ==
    /\ pc = "finish"
    /\ finished # << >>
    /\ LET r == Head(finished)
       IN  IF r \notin Members(active)
           THEN Crash /\ UNCHANGED completed
           ELSE /\ active' = Without(active, {r})
                /\ table' = Forget(table, {r})
                /\ shared' = Forget(shared, {r})
                /\ scratch' = Forget(scratch, {r})
                /\ num_free' = num_free + Private(r)
                /\ completed' = completed \cup {r}
                /\ finished' = Tail(finished)
                /\ UNCHANGED <<queues, span, cache, length, preempts, batch, pc>>
    /\ UNCHANGED <<setup, dropped, frag_failures>>

\* active.pop(rid) raises KeyError if the sequence is not active any more.
finish ==
    /\ pc = "finish"
    /\ finished # << >>
    /\ LET r == Head(finished)
       IN  IF r \notin Members(active)
           THEN Crash /\ UNCHANGED completed
           ELSE /\ active' = Without(active, {r})
                /\ table' = Forget(table, {r})
                /\ shared' = Forget(shared, {r})
                /\ scratch' = Forget(scratch, {r})
                /\ span' = [span EXCEPT ![r] = NoSpan]
                /\ num_free' = num_free + Private(r)
                /\ completed' = completed \cup {r}
                /\ finished' = Tail(finished)
                /\ UNCHANGED <<queues, cache, length, preempts, batch, pc>>
    /\ UNCHANGED <<setup, dropped, frag_failures>>

\* The next step of the loop; time passes and requests may arrive.
tick ==
    /\ pc = "finish"
    /\ finished = << >>
    /\ pc' = "waiting"
    /\ arrived' \in arrived .. NReq
    /\ UNCHANGED <<setup, next, waiting, pool, length, preempts, results,
                   frag_failures, batch, finished>>

Over == pc \in {"done", "crashed"} /\ UNCHANGED simvars

SimNext ==
    \/ drop_hopeless \/ readmit \/ readmit_end
    \/ arrive \/ start_decode \/ idle_jump \/ stop
    \/ decode_skip \/ decode \/ spec_stall
    \/ \E k \in 0 .. opts.depth : spec_contiguous(k) \/ spec_copyback(k) \/ spec_splice(k)
    \/ decode_end \/ finish \/ tick
    \/ Over

SimSpec == Init /\ [][SimNext]_simvars

\* The loop never waits for anything.
FairSimSpec == SimSpec /\ WF_simvars(SimNext)

-----------------------------------------------------------------------------
(* Properties *)

SimTypeOK ==
    /\ opts \in Options
    /\ reqs \in [Rid -> Requests]
    /\ arrived \in 0 .. NReq /\ next \in 0 .. arrived
    /\ active \in Seq(Rid) /\ waiting \in Seq(Rid)
    /\ length \in [Rid -> Nat] /\ table \in [Rid -> Nat] /\ shared \in [Rid -> Nat]
    /\ preempts \in [Rid -> 0 .. MaxPreempts + 1]
    /\ scratch \in [Rid -> Nat] /\ span \in [Rid -> NoSpan .. NumBlocks - 1]
    /\ cache \in [Prefix -> Nat]
    /\ num_free \in 0 .. NumBlocks
    /\ completed \subseteq Rid /\ dropped \subseteq Rid
    /\ frag_failures \in Nat
    /\ batch \in Seq(Rid) /\ finished \in Seq(Rid)
    /\ pc \in {"waiting", "arrivals", "decode", "finish", "done", "crashed"}

\* Every block is free, pinned by a prefix cache or private to a running
\* sequence, and none is left behind when the loop stops: preemption, adoption
\* and release give back exactly what was taken.
PoolBalance ==
    /\ SimTypeOK
    /\ num_free + Freed(Rid) + SumFunctionOnSet(cache, Prefix) = NumBlocks
    /\ pc = "done" => num_free = NumBlocks

\* The block table of a running sequence is exactly as long as its tokens
\* need, through speculation, stalls and preemption; a sequence that does not
\* run has none.  measure_seq indexes the table by token: a short table is an
\* IndexError, a long one a leak.
TablesCover ==
    \A r \in Rid : table[r] = IF r \in Members(active) THEN Blocks(length[r]) ELSE 0

\* The blocks shared with a prefix cache are full ones of the sequence's own
\* prefix, so that neither decoding nor the replacement of the tail by a
\* speculation round ever writes to or drops a block that others read.
SharedAreFull ==
    \A r \in Members(active) :
        shared[r] > 0 =>
            /\ shared[r] = cache[reqs[r].prefix]
            /\ shared[r] * BlockTokens <= PrefixLen[reqs[r].prefix]

\* Every request is in one place: still to come, running, waiting after a
\* preemption, completed or dropped; when the loop stops it has been completed
\* or dropped.
OnePlace ==
    /\ \A r \in Rid :
          Cardinality({i \in DOMAIN active : active[i] = r})
          + Cardinality({i \in DOMAIN waiting : waiting[i] = r})
          + Cardinality({r} \cap completed) + Cardinality({r} \cap dropped)
          = IF r <= next THEN 1 ELSE 0
    /\ pc = "done" => completed \cup dropped = Rid

\* A sequence completes with exactly the tokens it was asked for: the bonus
\* token of a speculation round never runs over the end, and no sequence that
\* was preempted after its last token is decoded again.
CompletedExactly ==
    /\ \A r \in Rid : length[r] <= total_len(r)
    /\ \A r \in completed : length[r] = total_len(r)

\* Oracle admission leaves room for the growth it committed to: the free blocks
\* cover what the running sequences may still ask for.
OracleRoom == opts.admission = "oracle" => num_free >= committed

\* The gates of try_admit ask for at least what the allocator then needs, so
\* one that places block by block never fails an admission that passed them;
\* the contiguous oracle fails only while spans of others are in the way.
GateSuffices == opts.contiguous \/ frag_failures = 0

\* An oracle run raises no exception, with pointer-swap speculation, without
\* speculation, or with the scratch regions of the contiguous oracle: every
\* block a running sequence asks for is there.
NoCrash ==
    opts.admission = "oracle" /\ (opts.adopt # "copyback" \/ opts.contiguous)
        => pc # "crashed"

\* An oracle run gives up a request that shares no prefix only if the pool has
\* too few free blocks for it, however fragmented the pool was before: "can
\* never be placed; skip it".
DropsUnplaceable ==
    [][\A r \in dropped' \ dropped :
          opts.admission = "oracle" /\ ~ Sharing(r) => total_blocks(r) > num_free]_simvars

\* "preempted sequences first": no new arrival is admitted while a preempted
\* sequence waits.
PreemptedFirst == [][next' > next => waiting = << >>]_simvars

\* The loop terminates: with finitely many requests it ends by itself, however
\* often sequences preempt each other.
Terminates == <>(pc \in {"done", "crashed"})

\* A finished sequence is still there to be released.
FinishedRelease ==
    pc \in {"decode", "finish"} => Members(finished) \subseteq Members(active)

\* "Oracle mode never needs this": no step of an oracle run finds the pool
\* without the blocks it asks for.
OracleNeverShort == opts.admission = "oracle" => pc # "crashed"
=============================================================================
