------------------------------- MODULE MCSim -------------------------------
(* Model checking of the continuous-batching loop.                         *)
EXTENDS Sim

\* Plain requests; and the prefix workload with a prefix of three tokens (with
\* blocks of two: one full block and half of the next), where a plain request
\* is either short or too long for the pool.
MCPlain == steady(Lengths(1, 3), {2, 3, 5})
MCShared == prefix(3, {2}, {1, 10}, {3})
MCNoPrefix == << >>
MCPrefixLen == <<3>>

Opts(a, m, s, w, d, c) ==
    [admission |-> a, watermark |-> m, adopt |-> s, width |-> w, depth |-> d,
     contiguous |-> c]

Oracle(s, w, d) == Opts("oracle", 0, s, w, d, FALSE)
Contig(s, w, d) == Opts("oracle", 0, s, w, d, TRUE)
Vllm(m, s, w, d) == Opts("vllm", m, s, w, d, FALSE)
MCOptions == {Oracle("none", 1, 0), Oracle("splice", 2, 2),
              Contig("none", 1, 0), Contig("splice", 1, 1),
              Vllm(1, "none", 1, 0), Vllm(0, "copyback", 2, 2), Vllm(0, "splice", 1, 2)}
MCCopyback == {Oracle("copyback", 2, 1)}
MCVllm == {Vllm(0, "none", 1, 0)}
=============================================================================
