-------------------------------- MODULE Sweep --------------------------------
(***************************************************************************)
(* The parameter sweep, pimkv/sweep.py: a grid of cells is expanded into   *)
(* jobs, worker processes run them and each writes a CSV and a meta file,  *)
(* and the parent writes summary.csv once all rows are back.               *)
(*                                                                         *)
(* A dict is a function from its keys, a list a sequence.  A float is the  *)
(* number of tenths.  What a job computes is a function of the job (every  *)
(* run is seeded), so a file is described by the job that wrote it last.   *)
(***************************************************************************)
EXTENDS Geometry, Sequences, SequencesExt, TLC

CONSTANT
    Runs         \* calls of the program: [config, procs], procs being --jobs

DEFAULTS ==
    [dram |-> "hbm3-pim", addrmap |-> "host-cacheline", model |-> "llama-gqa-8kv",
     requests |-> 1000, max_batch |-> 64, sample_every |-> 16, sample_seqs |-> 8,
     window |-> 64, coalesce |-> "window", pool_blocks |-> 0, headroom |-> 13,
     kv_shards |-> 1, spec_adopt |-> "auto", pim_scratch |-> "separate",
     pim_plan |-> "bestfit", pim_compact |-> 0, admission |-> "oracle"]

\* Cell key, job or workload-kwarg key, and whether it is a kwarg.
AXES ==
    <<<<"block_tokens", "block_tokens", FALSE>>, <<"seeds", "seed", FALSE>>,
      <<"headrooms", "headroom", FALSE>>, <<"kv_shards", "kv_shards", FALSE>>,
      <<"coalesce_modes", "coalesce", FALSE>>, <<"addrmaps", "addrmap", FALSE>>,
      <<"models", "model", FALSE>>, <<"spec_adopts", "spec_adopt", FALSE>>,
      <<"pim_scratch_modes", "pim_scratch", FALSE>>, <<"pim_plans", "pim_plan", FALSE>>,
      <<"pim_compacts", "pim_compact", FALSE>>, <<"max_batches", "max_batch", FALSE>>,
      <<"admission_modes", "admission", FALSE>>, <<"prompt_lens", "prompt_len", TRUE>>,
      <<"arrival_rates", "arrival_rate", TRUE>>>>

-----------------------------------------------------------------------------
(* expand *)

\* The k-th element (from 0) of the cartesian product of lists, the last one
\* varying fastest: its index into list j.
Index(lists, k, j) ==
    LET size(S) == MapThenFoldSet(LAMBDA x, y : x * y, 1, LAMBDA i : Len(lists[i]),
                                  LAMBDA T : CHOOSE t \in T : TRUE, S)
    IN  ((k \div size(j + 1 .. Len(lists))) % Len(lists[j])) + 1

Size(lists) ==
    FoldLeft(LAMBDA n, l : n * Len(l), 1, lists)

\* The jobs of one cell: the product of workloads, allocators and its axes.
\* cell.scalars are its other keys, which override common.
cell_jobs(common, cell) ==
    LET axes == SelectSeq(AXES, LAMBDA a : a[1] \in DOMAIN cell.axes)
        lists == <<cell.workloads, cell.allocators>>
                 \o [i \in DOMAIN axes |-> cell.axes[axes[i][1]]]
        pick(k, j) == lists[j][Index(lists, k, j)]
        chosen(k, kwarg) ==
            [key \in {axes[i][2] : i \in {i \in DOMAIN axes : axes[i][3] = kwarg}} |->
                pick(k, 2 + CHOOSE i \in DOMAIN axes : axes[i][2] = key)]
        base == cell.scalars @@ common
        job(k) ==
            LET preset == chosen(k, FALSE)
                          @@ [workload |-> pick(k, 1), allocator |-> pick(k, 2)]
                          @@ base @@ [block_tokens |-> 16, seed |-> 0,
                                      workload_kwargs |-> << >>]
            IN  [preset EXCEPT !.workload_kwargs = chosen(k, TRUE) @@ @]
    IN  [k \in 1 .. Size(lists) |-> job(k - 1)]

expand(config) ==
    LET common == config.common @@ DEFAULTS
    IN  FlattenSeq([c \in DOMAIN config.cells |-> cell_jobs(common, config.cells[c])])

\* A run has a worker and a job: --jobs 0 is refused by Pool, and an empty grid
\* ends in an exception when its rows are sorted.
ASSUME RunsAssumption ==
    \A r \in Runs : /\ r.procs \in Nat \ {0}
                    /\ LET js == expand(r.config) IN js \in Seq(Range(js)) /\ js # << >>

-----------------------------------------------------------------------------
(* _run_cell *)

\* The workload kwargs in sorted order, with the two letters they are tagged by.
Kwargs ==
    <<<<"arrival_rate", "ar">>, <<"output_len", "ou">>, <<"output_median", "ou">>,
      <<"output_sigma", "ou">>, <<"prompt_len", "pr">>, <<"prompt_median", "pr">>,
      <<"prompt_sigma", "pr">>, <<"share_frac", "sh">>, <<"unique_median", "un">>>>

\* The job keys a file name is tagged with when they are not the default.
Tagged ==
    <<<<"headroom", "hr">>, <<"kv_shards", "sh">>, <<"coalesce", "cm">>, <<"model", "md">>,
      <<"addrmap", "am">>, <<"spec_adopt", "ad">>, <<"pim_scratch", "ps">>,
      <<"admission", "adm">>, <<"pim_plan", "pl">>, <<"pim_compact", "cp">>,
      <<"max_batch", "mb">>, <<"requests", "rq">>>>

Tags(keys, values, S) ==
    LET own == SelectSeq(keys, LAMBDA k : k[1] \in S)
    IN  [i \in DOMAIN own |-> <<own[i][2], values[own[i][1]]>>]

\* Mutant: a new option has not been added to the tags.
NameWithoutModel(job) ==
    LET wkw == job.workload_kwargs
    IN  <<job.workload, job.allocator, job.addrmap, job.block_tokens, job.seed,
          Tags(Kwargs, wkw, DOMAIN wkw)
          \o Tags(Tagged, job, {k \in DOMAIN DEFAULTS \ {"model"} : job[k] # DEFAULTS[k]})>>

\* The file name of a job.
name(job) ==
    LET wkw == job.workload_kwargs
    IN  <<job.workload, job.allocator, job.addrmap, job.block_tokens, job.seed,
          Tags(Kwargs, wkw, DOMAIN wkw)
          \o Tags(Tagged, job, {k \in DOMAIN DEFAULTS : job[k] # DEFAULTS[k]})>>

dram_preset(job) == IF job.dram = "hbm3-pim" THEN HBM3_PIM ELSE GDDR6_PIM
model_preset(job) ==
    CASE job.model = "llama-gqa-8kv" -> LLAMA_GQA_8KV
      [] job.model = "mqa-1kv" -> MQA_1KV
      [] job.model = "mha-32kv" -> MHA_32KV

\* shard_kv, frame_blocks_for or simulate rejects the configuration.  What
\* simulate also raises for, a pool larger than the geometry, depends on sizes
\* that are not here: such a job is one of those that may raise.
Rejected(job) ==
    LET g == dram_preset(job)
        s == model_preset(job)
        sh == shard_kv(g, s, job.kv_shards)
    IN  \/ ~ Shardable(g, s, job.kv_shards)
        \/ ~ Framed(sh.geom, sh.shape, job.block_tokens)
        \/ job.admission = "vllm" /\ job.allocator = "contiguous"

\* How the accepted branch of a speculation round is adopted.
adopt(job) ==
    IF job.spec_adopt # "auto" THEN job.spec_adopt
    ELSE IF job.allocator = "pim-aware" THEN "copyback" ELSE "splice"

\* The simulation may end in an exception (module Sim: a finished sequence
\* preempted under vLLM admission, a copy-back round without room to grow).
MayCrash(job) ==
    \/ job.admission = "vllm"
    \/ job.workload = "spec" /\ adopt(job) = "copyback" /\ job.allocator # "contiguous"

-----------------------------------------------------------------------------
(* The processes *)

VARIABLES
    procs,     \* worker processes
    jobs,      \* the expanded jobs
    raises,    \* indices of the jobs that raise
    taken,     \* chunks handed to a worker so far
    at,        \* worker -> [job, step] it is at, job 0 when it is idle
    csv,       \* file name -> the job whose CSV it holds (0: no file)
    meta,      \* file name -> the job whose meta file is next to it
    rows,      \* jobs that returned a row
    reported,  \* chunks whose result, rows or an exception, is with the parent
    summary,   \* the rows in summary.csv (empty: not written)
    pc         \* the parent: "map", "done" or "raised"

vars == <<procs, jobs, raises, taken, at, csv, meta, rows, reported, summary, pc>>

Jobs == DOMAIN jobs
Idle == [job |-> 0, step |-> "idle"]

\* multiprocessing.Pool.map: chunks of equal size, about four per worker.
chunksize == ceil_div(Len(jobs), 4 * procs)
Chunk(i) == ceil_div(i, chunksize)
Chunks == 1 .. Chunk(Len(jobs))
FirstJob(c) == (c - 1) * chunksize + 1

Init ==
    /\ \E r \in Runs : procs = r.procs /\ jobs = expand(r.config)
    /\ \E S \in SUBSET {i \in Jobs : MayCrash(jobs[i])} :
          raises = S \cup {i \in Jobs : Rejected(jobs[i])}
    /\ taken = 0
    /\ at = [w \in 1 .. procs |-> Idle]
    /\ csv = [n \in {name(jobs[i]) : i \in Jobs} |-> 0]
    /\ meta = csv
    /\ rows = {}
    /\ reported = {}
    /\ summary = {}
    /\ pc = "map"

\* An idle worker takes the next chunk off the queue.
take(w) ==
    /\ at[w] = Idle
    /\ taken < Cardinality(Chunks)
    /\ taken' = taken + 1
    /\ at' = [at EXCEPT ![w] = [job |-> FirstJob(taken + 1), step |-> "run"]]
    /\ UNCHANGED <<procs, jobs, raises, csv, meta, rows, reported, summary, pc>>

\* Mutant: a job that raises is tried again.
RunRetries(w) ==
    /\ at[w].step = "run"
    /\ at' = IF at[w].job \in raises THEN at ELSE [at EXCEPT ![w].step = "csv"]
    /\ UNCHANGED <<procs, jobs, raises, taken, csv, meta, rows, reported, summary, pc>>

\* Configuration and simulation; an exception is the result of the whole
\* chunk, whose remaining jobs are not run.
run(w) ==
    LET i == at[w].job
    IN  /\ at[w].step = "run"
        /\ IF i \in raises
           THEN /\ reported' = reported \cup {Chunk(i)}
                /\ at' = [at EXCEPT ![w] = Idle]
           ELSE /\ at' = [at EXCEPT ![w].step = "csv"]
                /\ UNCHANGED reported
        /\ UNCHANGED <<procs, jobs, raises, taken, csv, meta, rows, summary, pc>>

write_csv(w) ==
    /\ at[w].step = "csv"
    /\ csv' = [csv EXCEPT ![name(jobs[at[w].job])] = at[w].job]
    /\ at' = [at EXCEPT ![w].step = "meta"]
    /\ UNCHANGED <<procs, jobs, raises, taken, meta, rows, reported, summary, pc>>

write_meta(w) ==
    /\ at[w].step = "meta"
    /\ meta' = [meta EXCEPT ![name(jobs[at[w].job])] = at[w].job]
    /\ at' = [at EXCEPT ![w].step = "return"]
    /\ UNCHANGED <<procs, jobs, raises, taken, csv, rows, reported, summary, pc>>

\* The row is returned; after the last one the chunk is reported.
return(w) ==
    LET i == at[w].job
        last == i = Len(jobs) \/ Chunk(i + 1) # Chunk(i)
    IN  /\ at[w].step = "return"
        /\ rows' = rows \cup {i}
        /\ reported' = IF last THEN reported \cup {Chunk(i)} ELSE reported
        /\ at' = [at EXCEPT ![w] = IF last THEN Idle ELSE [job |-> i + 1, step |-> "run"]]
        /\ UNCHANGED <<procs, jobs, raises, taken, csv, meta, summary, pc>>

\* Mutant: the rows there are go into the summary, whatever happened to others.
MainIgnoresErrors ==
    /\ pc = "map"
    /\ reported = Chunks
    /\ summary' = rows
    /\ pc' = "done"
    /\ UNCHANGED <<procs, jobs, raises, taken, at, csv, meta, rows, reported>>

\* pool.map returns when every chunk has been reported, and raises if one
\* is an exception instead of rows; then no summary is written.
main ==
    /\ pc = "map"
    /\ reported = Chunks
    /\ IF rows = Jobs
       THEN summary' = rows /\ pc' = "done"
       ELSE pc' = "raised" /\ UNCHANGED summary
    /\ UNCHANGED <<procs, jobs, raises, taken, at, csv, meta, rows, reported>>

Ended == pc # "map" /\ UNCHANGED vars

worker(w) == take(w) \/ run(w) \/ write_csv(w) \/ write_meta(w) \/ return(w)

Next == (\E w \in 1 .. procs : worker(w)) \/ main \/ Ended

\* No process waits for another one but the parent for its workers.
Spec ==
    /\ Init /\ [][Next]_vars
    /\ \A w \in 1 .. Max({r.procs : r \in Runs}) : WF_vars(w <= procs /\ worker(w))
    /\ WF_vars(main)

-----------------------------------------------------------------------------
(* Properties *)

\* "Every run is independently seeded and written to its own file, so results
\* are byte-identical regardless of --jobs": from the moment a job returns,
\* the files its row points to hold its own results, whatever other processes
\* write meanwhile.
OwnFile ==
    \A i \in rows :
        LET c == csv[name(jobs[i])]
            d == meta[name(jobs[i])]
        IN  c # 0 /\ d # 0 /\ jobs[c] = jobs[i] /\ jobs[d] = jobs[i]

\* A summary is written exactly if no job raised, and it has a row for every
\* job; after an exception the results on disk are those of all jobs except
\* the failed ones and the ones behind them in their chunk.
SummaryComplete ==
    /\ pc = "done" => raises = {} /\ summary = Jobs
    /\ pc = "raised" => raises # {} /\ summary = {}
    /\ pc # "map" => rows = {i \in Jobs : \A j \in FirstJob(Chunk(i)) .. i : j \notin raises}

\* The sweep ends, with any number of workers and whichever jobs raise.
SweepEnds == <>(pc # "map")
=============================================================================
