# KV-PIMple: TLA+ models, model checking and proofs

KV-PIMple (`pimkv/`) simulates the KV cache of an LLM server over a
processing-in-memory DRAM: a stream of requests is batched, an allocator places
their KV blocks, an address map and a command model turn the placement into
metrics and traces, and a sweep runs the whole over a grid of configurations.
The numbers it reports are only as good as each link of that chain. This
directory models the chain, checks it with TLC on small instances, and proves
the invariants of the allocators, the simulator, the prefix cache, the
measurements and the sweep with TLAPS for every pool, workload, geometry and
grid.

## Inventory

| part | state | operations | hard behaviour | module |
|---|---|---|---|---|
| `allocator.py` `KVAllocator` | block tables, reference counts, totals | admit, admit_shared, append_block, fork, alloc_scratch, unref_blocks, spec_round_adopt, release | references handed between tables, callers and calls; loops behind one check | `KVAllocator`, `BlockPool` |
| `PagedFirstFit`, `RandomAlloc` | a free list | _alloc_one, _free_one | list and live blocks in step | `FreeListPool` |
| `PimAware` | free offsets per frame, a heap of empty frames, affinity, plans, a free counter | the above, planning, compact | a heap cleaned lazily, plans and affinities that go stale, blocks that move under their tables | `PimAware` |
| `ContiguousOracle` | free extents, spans, reservations | admit, append_block, take_scratch, unref_blocks, release | merging of extents, two calls that belong together | `Contiguous` |
| `sim.py` `simulate` | active batch, preempted queue, prefix caches, lengths | try_admit, preempt, ensure_free, spec_round, the main loop | preemption in the middle of a pass over a snapshot, branches competing with committed growth, termination | `Sim`, `PrefixCache` |
| `sim.py` `measure_seq` | none | metrics and diagnostics of one sequence | the row of numbers depends on three files agreeing | `Measure` |
| `workload.py` | a generator | five request streams | the bounds that admission relies on | `Workload` |
| `config.py`, `run.py` `frame_blocks_for` | none | derived sizes, presets, sharding, the frame | divisibility | `Geometry` |
| `addrmap.py` | none | map, inverse | split bit fields | `AddrMap` |
| `pimmodel.py` | the open row of a channel, window by window | two coalescers in two modes, the metrics | window boundaries | `PimModel` |
| `ramulator.py`, `attacc.py` | none | burst enumeration, command stream, address packing, traces | agreement with an external decoder | `Traces` |
| `sweep.py` | result files | a grid of jobs in a process pool | parallel writers, failing jobs, file names | `Sweep` |
| `plots.py`, `scripts/` | none | figures, benchmarks | none of their own | not modelled |

`simulate` is single threaded and owns the allocator. It calls the sequence-level
interface and holds two kinds of lists outside the allocator: the scratch lists
of speculative branches, and the block lists of the pinned prefix caches. The
second is a copy of a table. Its concurrency is between sequences of one batch:
they are decoded one after the other and take blocks from each other. The sweep
is the only part with processes; they share a directory.

The system is correct if no block is leaked or handed out twice, tables cover
exactly the committed tokens, admission keeps its promises, no request is lost,
the loop ends; if the counted commands are the ones a real schedule needs and
the traces replay them; and if every row of a sweep is backed by its own files.
`PROJECT.json` lists the places where this could go wrong (`hazards`) with the
properties that watch them.

## Modules

```
BlockPool <--implements-- KVAllocator <--implements-- FreeListPool
                                      <--implements-- PimAware <--extends-- PrefixCache
Contiguous

Workload <--extends-- Sim
Geometry <--extends-- AddrMap  <--\
         <--extends-- PimModel <--- Traces <--extends-- Measure
         <--extends-- Sweep
```

`KVAllocator_proofs`, `FreeListPool_proofs`, `PimAware_proofs`,
`Contiguous_proofs`, `Sim_proofs`, `Measure_proofs` and `Sweep_proofs` hold the
theorems about the module they are named after, `PimAware_proofs` also the ones
about `PrefixCache`; `Counting_proofs` holds the lemmas about sums, quotients,
powers of two and induction that they share.

### The allocator

* **BlockPool** is the abstract specification: which holders refer to which
  block. A step takes a free block, adds references, drops one, passes blocks
  from one holder to another (at most one reference of a block changes hands),
  or moves a block.
* **KVAllocator** models the base class. `tables`, `refcount` and the totals are
  the Python attributes; `scratch` is what callers hold; `call`, `cur`, `slot`,
  `left`, `got`, `todo` are the locals of the call in progress. The loops over
  blocks are steps, so the invariants are stated of every intermediate state,
  not only between calls. The placement policy is a parameter: `Next` lets it
  return any block that is not live. Calls that raise before they change
  anything are not steps. `fork` onto an id that has a table is excluded: the
  code does not check it, and no caller does it.
* **FreeListPool** adds the free list of the two list-based policies.
* **PimAware** adds frames. `empty_frames[f]` is how many copies of `f` the heap
  holds; stale and duplicate entries are kept, as in the code. `compact` is a
  loop of one step per block inside `release`. An admission refused for a
  duplicate id still replaces the plan (`pim_admit_refused`), as in the code.
* **Contiguous** models the span policy, which overrides every path of the base
  class. `release` gives the span back without looking at the scratch region, as
  in the code; `drop` is what the simulator does with a finished or preempted
  sequence, the scratch first. `SpanGateFive` fails if it does not.

### The simulator

* **Workload** gives the set of requests each generator can draw; the random
  laws are left out, their clipping bounds are parameters.
* **Sim** models `simulate` over any policy, with blocks counted instead of
  named: by `RefsExact` a release gives back the blocks that only the sequence
  refers to. `pc` is the place in the loop; one step is one iteration of an
  inner loop or one sequence's decode. Time is abstracted to the number of
  requests that have arrived, which may grow between any two passes and jumps
  when the batch is idle. Random draws (accepted drafts) are nondeterministic.
  Exceptions that escape `simulate` end in `pc = "crashed"`. With the option
  `contiguous` the position of a sequence matters: `span` holds its first block
  and size, an admission takes a gap that is large enough and fails on
  fragmentation otherwise, and a speculation round (`spec_contiguous`) draws on
  the scratch region reserved with the span. That the allocator's extents are
  exactly the gaps between the spans is `Tiling` of `Contiguous`.
* **PrefixCache** composes the block-level allocator with the prefix cache of
  `simulate`, keeping the list the simulator keeps and the table apart. `close`
  releases the cache after the loop (`ended`) and leaves the entry, as the code
  does.

### The measurements

* **Geometry** holds the derived sizes and presets of `config.py`, `shard_kv`,
  and the frame of `run.py`. The assumption `PresetFacts` evaluates on the real
  presets what the code asserts or relies on: powers of two, frames that are
  whole blocks, and that sharding leaves the number of blocks per frame alone.
* **AddrMap** is the three bit-field layouts with `map` and `inverse`.
* **PimModel** has both coalescers, `coalesce_channel` (counting) and
  `coalesce_channel_stream` (replaying), in both modes. The window mode keeps
  the grouped arithmetic of the array code: bursts are counted by a key that
  combines row and bank (`key`, `ukey`, `cnt`), a row starts where the row of the
  sorted keys changes (`seg`), and the largest count up to the next start is the
  commands of the row (`m`). The metrics are exact fractions.
* **Traces** enumerates the bursts of a sequence and writes the two traces. The
  decoder of the AttAcc simulator is external: `HBM3PIMMap` is the list of levels
  that `attacc.py` (lines 28-33) quotes from the simulator's mapper, sliced from
  the least significant bit, and shares none of the shift constants
  `pim_address` packs an address with.
* **Measure** composes the four: a sequence grows token by token, each new block
  is any block the pool may hand out, and the sequence is measured and traced
  in every state. A table of any allocator is such a table (`NoDup`).

### The sweep

* **Sweep** expands a grid as `expand` does, names each job's files as
  `_run_cell` does, and lets workers take chunks of jobs, run them, write the
  CSV and the meta file, and return the row; `main` writes the summary or
  raises. `Rejected` is computed from `Geometry`; `MayCrash` are the
  configurations in which `Sim` can end in an exception. A run has at least one
  worker and one job (`RunsAssumption`): `Pool` refuses `--jobs 0`, and without
  a row sorting the summary by its columns raises.

Operators commented "Mutant" are faulty variants of the definition after them;
each property is checked to fail when the definition is replaced. The MC modules
give the constants their values.

## Runs

| run | shows | bounds |
|---|---|---|
| `allocator` | TypeOK, RefsExact, NoDup, ScratchPrivate, Conservation, RoomForCall; the refinement PoolSpec | 3 sequences, 3 blocks, 2 scratch lists, 4 allocations |
| `free_list` | FreeListExact, refinement of KVAllocator | the same; both policies |
| `pim_aware` | FramesExact, EmptyListed, PlanServes, DonorsCleared, CompactionGathers, refinement of KVAllocator | 2 sequences, 3 frames of 3 blocks, 1 scratch list, 4 allocations, 2 heap copies; compaction below 60 percent of a frame |
| `contiguous` | Tiling, SpanLayout, SpanGateFive | 3 sequences, 6 blocks; unbounded histories |
| `prefix` | ReadsPrefix, StaysPinned | a cache and 2 requests, 2 frames of 2 blocks, 6 allocations |
| `sim` | PoolBalance, TablesCover, SharedAreFull, OnePlace, CompletedExactly, OracleRoom, GateSuffices, NoCrash, PreemptedFirst, DropsUnplaceable, Terminates | 4 requests of the prefix workload, 6 blocks of 2 tokens, batch of 3, seven option sets, two of them contiguous |
| `measure` | CommandsMinimal, StreamAgrees, FrameIsRow, InorderPessimistic, CellsDistinct, TraceReplays | 5 configurations of 1, 2 and 4 channels with 2 banks, windows of 2 and 3, three maps; every table of up to 5 blocks |
| `sweep` | OwnFile, SummaryComplete, SweepEnds | grids of 4 to 9 jobs, 1 to 3 workers, any set of crashing jobs among those that can |
| `sim_finished`, `sim_short`, `prefix_stale`, `sweep_files` | disagreements, below | as above or smaller |

Why the bounds are enough to be interesting. Three sequences over three blocks
reach shared tables, a full pool, and a block that is freed and handed out
again while another call holds references. Four allocations allow a first
occupant, its sharers, a scratch branch and its adoption. Three frames
are the fewest with a donor, a partial target and an empty frame; of three
blocks, so that a donor, with one, is less full than a target, with two. In
`sim`, requests of two to three blocks in a pool of six oversubscribe a batch of
three, one request does not fit at all, a prefix of one and a half blocks makes
the partial tail matter, spans of different sizes leave gaps that are too small,
and with the cache pinned a sequence can be unable to grow even alone. In
`measure`, five bursts in windows of two give two full windows and a rest, in
two banks and two rows, so a window can be mixed, a command can be cut, and the
open row can be carried over twice; the geometry with four columns has one split
by the cacheline map, and the one with four channels uses both bits AttAcc makes
of a channel number. In `sweep`, nine jobs for two workers make chunks of two, so a
failing job can have another one behind it; the repeated cell has two writers of
one name. `MaxAlloc` and `MaxCopies` only stop new calls; calls in progress
always complete. `MaxPreempts` is 1 instead of the code's 1000; `preempts` stops
counting beyond it, which the code cannot tell apart. `Contiguous` and `Sweep`
need no bound on history.

Deadlock is not checked where `MaxAlloc` or the length of the measured sequence
stops the model; in `Sim` and `Sweep` it is, with an explicit step for the ended
program.

Fairness. `Terminates` assumes that the loop keeps going (weak fairness of the
step): the code is one thread that waits for nothing. `SweepEnds` assumes weak fairness of every
worker process and of the parent: the operating system schedules each of them,
and none waits for another except the parent, in `pool.map`, for its workers. No
fairness is assumed of callers, arrivals or random draws.

### Disagreements between code and documentation

* `sim_finished`: in vLLM mode a sequence that has just finished can be
  preempted by a later one of the same step; `active.pop(rid)` (sim.py:430) then
  raises KeyError. "4. Finished sequences release their blocks." (sim.py:18)
  TLC needs a pool of four blocks.
* `sim_short`: under oracle admission with copy-back speculation the branches
  use the blocks committed to growth, and `append_block` (sim.py:344) raises.
  "Oracle mode never needs this (its admission gate guarantees room)."
  (sim.py:282)
* `prefix_stale`: compaction rewrites the table of a prefix cache, and not the
  list `simulate` kept (sim.py:235); a later request shares blocks of an
  unrelated sequence. "attach to a pinned prefix cache" (sim.py:9)
* `sweep_files`: two cells that differ in an option the file name does not
  contain (`dram`, `window`, `sample_every`, `sample_seqs`, `pool_blocks`) write
  the same two files, possibly one each. "written to its own file, so results
  are byte-identical regardless of --jobs" (sweep.py:9)

Because of the first, `Terminates` and `OnePlace` in vLLM mode are statements up
to a crash.

Smaller differences, met while modelling, that no run is kept for:

* The scratch domain keeps its frame after blocks of the frame were committed
  and goes on filling it although empty frames exist (allocator.py:392); the
  comment promises that committed frames stay sequence-pure
  (allocator.py:273-274).
* Compaction accepts an empty frame as the fullest one with room
  (allocator.py:430); the comment speaks of fuller frames (allocator.py:290).
  `CompactionGathers` states what does hold: it leaves such a frame sparse only
  when every other frame it could have used is empty or full.
* The gate in front of a new prefix cache (sim.py:228) counts the shared blocks
  twice, so on an empty batch a request that would fit is given up
  (sim.py:386). `DropsUnplaceable` states what does hold: a request without a
  prefix is given up only if the free blocks are too few for it.
* `coalesce_channel_stream` is described as having the identical sequence of row
  transitions. With reordering its hits differ from the counted ones, in either
  direction, when the row carried into a window is also the last one counted
  there; `test_pimmodel.py:203` expects a difference of one sign only. Over one
  channel, two banks of two columns and windows of two, the tables 0,1,4,2,5 and
  0,1,4,2,3 show the two signs. `StreamAgrees` states the bound: at most one hit
  per window after the second, none in order.
* The column of a group in the stream is the one of the first burst of its
  lowest bank, which need not be the first burst of the row (pimmodel.py:224).
* A frame is one row index in every bank of every channel under the host maps
  only (run.py:25-27): the pim-friendly map has the channel above the row.
  `FrameIsRow` is therefore stated for the host maps.
* After a failed sweep the `summary.csv` of an earlier one stays in the output
  directory (sweep.py:172).

## Proofs

Every theorem is about the specification TLC runs, for every value of its
constants under the assumptions its module names. The assumptions are what the
code checks (powers of two, positive sizes, `prompt > PrefixLen`, the options it
accepts), that sets of sequences and prefixes are finite, and that the bounds of
the models are natural numbers.

**KVAllocator_proofs** (`NumBlocksAssumption`, `SeqsAssumption`,
`BoundsAssumption`): `TypeCorrect`, `RefcountsExact`, `TablesRepeatNothing`,
`ScratchStaysPrivate`, `GateFive`, `CallsFindRoom` and `ImplementsPool` state
`TypeOK`, `RefsExact`, `NoDup`, `ScratchPrivate`, `Conservation`, `RoomForCall`
and the refinement of `BlockPool`. `RefsExact` alone is not inductive. That a
reference count equals a number of holders survives a step only if the lists
have no duplicates (or a loop would touch a count twice), if scratch blocks are
private (or adoption could splice a block into a table that already holds it),
and if the locals of the call in progress are consistent. `Core` is the
conjunction of these. The lemmas about lists (`ElemsAppend` to `ElemsReplace`)
say what a list holds after each kind of update; `GrabStep`, `ShareStep`,
`DropStep`, `PassStep`, `AdoptStep` and `RelocateStep` what the six kinds of
change do to the holders of every block; `CoreNext` takes them action by action
and shows at once that the step is one of `BlockPool`. `Counts` adds the totals
and the room for the call, which need the cardinality of the live set.

**FreeListPool_proofs**: `ListExact` (`FreeListExact`) and `ListImplements`
(`FLSpec => Spec`). The list is exact only together with `Core` (a block that is
freed was live), and the step is a step of the allocator only because the list
is exact, so both are shown at once.

**PimAware_proofs** (`FrameAssumption`, `OptionsAssumption`): `FramesAccount`
(`FramesExact`), `WholeFramesListed` (`EmptyListed`), `PimImplements`
(`PimSpec => Spec`), `PlansServe` (`PlanServes`), `PlansMinimal` (`PlanMinimal`),
and, for action properties, `CompactionClears` (`DonorsCleared`) and
`CompactionPacks` (`CompactionGathers`). The invariant is
`PimInv == Core /\ Caller /\ FramesExact /\ EmptyListed /\ Compacting`;
`Compacting` says that the blocks of a donor that compaction has passed and left
there are no table's, unless there was nowhere to move them. `CompactionPacks`
adds `Gathered`: among the frames that are no donors of this compaction, a frame
that is sparse and has room is the only one in use with room. It holds when the
compaction starts, where such a frame would be a donor, and a move into the
fullest frame keeps it. `PlanMinimal` is proved only: it speaks of every set of
frames, and TLC checked it while the proof was made. That a plan is
minimal is an exchange argument over frames sorted by free slots: the capacity
of a set of frames is a sum, and the frames chosen before the last one have the
most free slots of all.

For the prefix cache (`CacheAssumption`) the module proves `PrefixesRead` (`ReadsPrefix`),
`PrefixStaysPinned` (`StaysPinned`) and `PrefixImplements`, under the initial
condition `compact_below = 0`, the default of the code. With compaction they are
false (`prefix_stale`). The list the simulator keeps and the table of the cache
are two copies; that they agree (`Pinned`) is what makes an admission with the
list a step of the policy, and needs in turn that the cache is not released
while a sequence is attached (`Attached`).

**Contiguous_proofs** (`ContiguousAssumption`): `PoolIsTiled` (`Tiling`),
`SpansAreContiguous` (`SpanLayout`), `SpanGateHolds` (`SpanGateFive`). The
properties speak of cardinalities and concatenations; the invariant `CInv` says
the same in terms a step can be seen to preserve: pieces of the pool (extents
and spans) lie apart and cover it, two extents do not even touch (`Apart`,
`Covered`), the lists of a sequence are runs of consecutive blocks from the start
of its span (`Laid`), and the counters are sums over sequences and extents
(`LiveUsed`, `Counted`).

**Sim_proofs** (`SimAssumption`, `RequestsAssumption`): `RequestsInOnePlace`
(`OnePlace`), `CompletesExactly` (`CompletedExactly`), `TablesAlwaysCover`
(`TablesCover`), `SharedBlocksFull` (`SharedAreFull`), `PoolBalances`
(`PoolBalance`), `OracleKeepsRoom` (`OracleRoom`), `GatesSuffice`
(`GateSuffices`), `OracleNeverCrashes` (`NoCrash`), and the action properties
`PreemptedGoFirst` (`PreemptedFirst`) and `OnlyUnplaceableDropped`
(`DropsUnplaceable`). `SimInv` has three layers. `Places` says which of the lists
of the loop a request is in, the snapshot of the step included. `Tokens` says how
far each sequence has come, which needs that one decoded already in this step is
not decoded again. `Holdings` says what each holds of the pool, which needs both;
the pool balance is a sum over sequences and caches. On top of them `OracleRoom`
gives that growth never fails, and so that an oracle run without copy-back
raises nothing.

**Sweep_proofs** (`RunsAssumption`): `SummariesComplete` (`SummaryComplete`) and
`FilesKept` (`OwnFile` for grids with `NamesDistinguish`: different jobs have
different file names; without it the property is false, `sweep_files`). Of the
arithmetic of `Pool.map` the invariant uses only that the chunks are regular
(`ChunksRegular`: increasing, each with a first job, none empty). Then `Owned`
(no two workers in one chunk) and `Progress` (while a chunk is worked on its rows
are the jobs before the current one, once reported the ones before its first
failure) determine the rows when all chunks are reported.

**Measure_proofs** (`SetupsAssumption`): `MeasuredTableCovers` (`TableCovers`),
`MeasureCountsLeast` (`CommandsMinimal`), `MeasureCellsDistinct`
(`CellsDistinct`), `MeasureFrameIsRow` (`FrameIsRow`) and `InorderIsPessimistic`
(`InorderPessimistic`), for every accepted geometry, window and map. The
invariant is `TableCovers`; the other four are consequences of it.

* `CommandsMinimal`: the bursts of the busiest bank of a row are pairwise
  incompatible, so no schedule of a window has fewer commands; numbering the
  bursts of each bank is a schedule that has as many. That the grouped arithmetic
  counts that bank: the keys of a row lie next to each other because every bank
  is below the number of banks (`BurstBank`, from the fields of the map), each
  row has exactly one start (`SegStarts`, `SegOnce`), and the keys up to the next
  start are those of the row (`SegReach`, `GroupCount`), so the sum over starts
  is a sum over rows (`WindowGrouped`, `ChannelGrouped`).
* `CellsDistinct`: an address map reads the digits of a burst index in a mixed
  radix. The digits determine the index, and the fields of a layout cover all
  of them (`FieldsCover`), so two bursts of the sequence have the same cell only
  if they are the same burst of the same block.
* `FrameIsRow`: under a host map the row is the topmost digit, and the bursts
  below it are exactly one frame. Each row is missed at least once, in the
  first window that has it; a table inside one frame misses exactly once in each
  channel; and no table lies in fewer frames than its blocks fill.

* `InorderPessimistic`: numbering the bursts by the command they are in, in
  order, gives a legal schedule of every window (`Run`, `CommandsOfWindow`), so
  by minimality a window costs no more than the commands it overlaps, and two
  windows overlap in at most one. A row that is not open when a window starts is
  missed within it in order, too (`MissesOfWindow`). The sums of both telescope.

The prover knows nothing of `^`; that powers of two multiply as they should is
derived from the number of subsets of a set (`PowNext`, `PowAdd`).

**Counting_proofs**: the sum of a function over a finite set is built up one
element at a time, whatever the order (`SumRemove`, `SumAdd`), and from that the
lemmas the balances and the digits use: sums by classes (`SumClasses`) and over
another index set (`SumReindex`), division
with a rest (`DivMod`, `DivUnique`, `TwoDigits`), powers of two. The library's
induction theorems take a predicate as a parameter, which the provers cannot
instantiate; `SetInduction`, `NatMin` and `NatInduct` are the same principles
for a set of sets and a set of numbers, which they can.

Model-checked only:

* liveness (`Terminates`, `SweepEnds`), which is beyond the prover;
* the four disagreements, which are counterexamples;
* `StreamAgrees` and `TraceReplays`: the replayed stream and the traces are
  built with sequence operators (`FoldLeft`, `FlattenSeq`, `SetToSortSeq`,
  `SelectSeq`), most of whose defining equations take an operator as a
  parameter.

## Not modelled

* Which sequences are sampled and when: sampling reads the state and changes
  none. `Measure` measures in every state instead.
* `cow_copies`, `blocks_copied`, `compactions` and the other report-only
  counters; `auto_pool_blocks`, which sizes the pool (the models take any size).
* Argument parsing, the CSV and JSON layout, and the partial state of a file
  being written: a file is written in one step.
* The runs of the external simulators and the parsing of their statistics.
* Random laws and arrival times of the workloads. Speculation on requests with a
  prefix is modelled because `simulate` accepts it; the command line has no
  workload that combines them.
* Figures, benchmarks and set-up scripts, which have no state of their own.

## Plan

1. (done) BlockPool, KVAllocator, its proofs; FreeListPool; PimAware;
   Contiguous; PrefixCache; Sim.
2. (done) Geometry, AddrMap, PimModel, Traces and their composition Measure;
   Workload; Sim over the contiguous policy; the sweep with its processes.
3. (done) Proofs of the invariants, action properties and refinements of
   KVAllocator, FreeListPool, PimAware, PrefixCache, Contiguous, Sim and Sweep.
4. (done) Proofs about the measurements: `CommandsMinimal`, `CellsDistinct`,
   `FrameIsRow`, `InorderPessimistic`.
5. Open: the properties of the stream and its trace, which need the sequence
   operators of their loops as recursive functions.
