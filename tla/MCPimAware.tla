----------------------------- MODULE MCPimAware -----------------------------
(* Model checking of the pim-aware policy.                                 *)
EXTENDS PimAware, TLC

CONSTANTS a, b   \* sequence ids

MCSeqs == {a, b}
Symmetry == Permutations(MCSeqs)

Opts(s, p, c) == [segregate_scratch |-> s, plan |-> p, compact_below |-> c]

\* The default with compaction of the frames below 60 percent, and the behaviour
\* before planning and segregation.
MCOptions == {Opts(TRUE, "bestfit", 60), Opts(FALSE, "greedy", 0)}
=============================================================================
