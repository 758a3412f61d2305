---------------------------- MODULE MCContiguous ----------------------------
(* Model checking of the contiguous reference policy.                      *)
EXTENDS Contiguous

CONSTANTS s1, s2, s3   \* sequence ids

MCSeqs == {s1, s2, s3}
=============================================================================
