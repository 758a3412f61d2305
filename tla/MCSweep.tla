------------------------------ MODULE MCSweep ------------------------------
(* Model checking of the sweep on small grids.                             *)
EXTENDS Sweep

Cell(wl, al, axes, scalars) ==
    [workloads |-> wl, allocators |-> al, axes |-> axes, scalars |-> scalars]
Run(common, cells, n) == [config |-> [common |-> common, cells |-> cells], procs |-> n]
None == << >>

\* The shape of the headline grid, with a model axis: nine jobs for two
\* workers, so that chunks hold two jobs.
Headline ==
    <<Cell(<<"steady", "spec">>, <<"paged", "pim-aware">>,
           [block_tokens |-> <<16, 32>>], None),
      Cell(<<"steady">>, <<"paged">>, [models |-> <<"mqa-1kv">>], None)>>

\* Configurations that are refused: more shards than KV heads, and vLLM
\* admission with the contiguous oracle.
Refused ==
    <<Cell(<<"steady">>, <<"paged">>, [kv_shards |-> <<1, 16>>], None),
      Cell(<<"fixedlen">>, <<"paged", "contiguous">>,
           [admission_modes |-> <<"oracle", "vllm">>, prompt_lens |-> <<128, 256>>], None)>>

\* The same cell twice gives the same file twice.
Twice == <<Cell(<<"steady">>, <<"paged">>, [seeds |-> <<0, 1>>], None),
           Cell(<<"steady">>, <<"paged">>, [seeds |-> <<1, 2>>], None)>>

MCRuns == {Run(None, Headline, 2), Run([requests |-> 500], Refused, 2),
           Run(None, Twice, 3), Run(None, Twice, 1)}

\* One cell for each DRAM type.
Drams == <<Cell(<<"steady">>, <<"paged">>, None, [dram |-> "hbm3-pim"]),
           Cell(<<"steady">>, <<"paged">>, None, [dram |-> "gddr6-pim"])>>
MCDrams == {Run(None, Drams, 2)}
=============================================================================
