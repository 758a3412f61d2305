---------------------------- MODULE MCKVAllocator ----------------------------
(* Model checking of KVAllocator with the weakest placement policy.        *)
EXTENDS KVAllocator

CONSTANTS a, b, c   \* sequence ids

MCSeqs == {a, b, c}
=============================================================================
