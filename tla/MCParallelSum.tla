--------------------------- MODULE MCParallelSum ----------------------------
(***************************************************************************)
(* ParallelSum of up to four chunks of short polynomials, multiplied       *)
(* directly and by FFT, into buffers that hold an earlier result.  Some of *)
(* the polynomials have leading zeros, so that products are shorter than   *)
(* those before or after them.                                             *)
(***************************************************************************)
EXTENDS ParallelSum

\* Polynomials with m coefficients, different for every wire; with leading zeros for every
\* chunk, none, the even, or the odd ones.
MCDegrees == {"full", "falling", "rising"}
MCIsShort(d, c) == (d = "falling" /\ c % 2 = 0) \/ (d = "rising" /\ c % 2 = 1)
MCPoly(k, m, short) ==
    [i \in 1..m |-> IF short /\ 2 * i > m THEN 0 ELSE (3 * k + i * i * (k + 1)) % P]
MCGadgets(n, m) == {MulSum(n, m - 1), PolySum(<<2, P - 1, 1>>, n, m - 1)}
MCPolys(g, m, d) ==
    LET arity == g.arity \div g.chunks
    IN  [k \in 1..g.arity |-> MCPoly(k + 1, m, MCIsShort(d, (k + arity - 1) \div arity))]

MCJobs ==
    UNION {{Job(g, MCPolys(g, m, d), [i \in 1..next_power_of_two(gadget_poly_len(m)) |-> i]) :
               g \in MCGadgets(n, m), d \in MCDegrees} : n \in {1, 2, 4}, m \in {4, 8}}

MCInit == Init(MCJobs)
MCSpec == MCInit /\ [][Next]_vars
=============================================================================
