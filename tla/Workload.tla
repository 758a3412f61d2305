------------------------------ MODULE Workload ------------------------------
(***************************************************************************)
(* The request generators of pimkv/workload.py, as the sets of requests    *)
(* each can draw.  A distribution is the set of the lengths it can yield   *)
(* (a clipped lognormal yields every integer between its bounds), and the  *)
(* bounds are parameters, so that small ones can be checked.               *)
(***************************************************************************)
EXTENDS Integers

NoPrefix == 0                \* prefix_id None

Request(p, o, x) == [prompt |-> p, output |-> o, prefix |-> x]

\* _lognormal_lengths(..., lo, hi) and rng.integers(lo, hi + 1).
Lengths(lo, hi) == lo .. hi

steady(prompts, outputs) == {Request(p, o, NoPrefix) : p \in prompts, o \in outputs}

longctx(prompts, outputs) == steady(prompts, outputs)

\* The speculation is the simulator's, not the stream's.
spec(prompts, outputs) == steady(prompts, outputs)

fixedlen(prompt_len, output_len) == {Request(prompt_len, output_len, NoPrefix)}

\* A shared request starts with the common prefix of prefix_len tokens and
\* has at least one token of its own; the others are plain.
prefix(prefix_len, uniques, plains, outputs) ==
    {Request(prefix_len + u, o, 1) : u \in uniques, o \in outputs}
    \cup steady(plains, outputs)
=============================================================================
