--------------------------- MODULE MCFreeListPool ---------------------------
(* Model checking of PagedFirstFit and RandomAlloc.                        *)
EXTENDS FreeListPool

CONSTANTS a, b, c   \* sequence ids

MCSeqs == {a, b, c}
=============================================================================
