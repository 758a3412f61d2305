--------------------------- MODULE MCPrefixCache ---------------------------
(* Model checking of the prefix cache over the pim-aware allocator.        *)
EXTENDS PrefixCache

CONSTANTS pre, a, b   \* the cache and two requests

MCSeqs == {pre, a, b}

Opts(c) == [segregate_scratch |-> TRUE, plan |-> "bestfit", compact_below |-> c]
MCDefault == {Opts(0)}
MCCompact == {Opts(50)}
=============================================================================
